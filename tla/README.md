# Formal verification of common-open

This directory holds TLA+ models of the Go library under `src/` (an RTMP and
media toolkit: event dispatch, RTMP connections and commands, publishing and
playing, routing, timers, remuxing, recording, sharing of bandwidth),
the TLC configurations that check them on small instances, and TLAPS proofs of
theorems that hold for every value of the constants. `PROJECT.json` maps every
definition to the lines it models.

## 1. Inventory of the system

| Component | State | Operations | Works with |
|---|---|---|---|
| Event dispatcher (`events/eventdispatcher.go`) | listener lists per event, `mtx`, `goid` (id of the holder), `recursion`, the `count` of each listener | `AddEventListener`, `RemoveEventListener`, `HasEventListener`, `DispatchEvent` | every other component embeds one; its handlers call back into it |
| RTMP connection (`rtmp/netconnection.go`) | `readyState`, `conn`, streams by id, responders by transaction id, chunk state of both directions, chunk sizes, acknowledgement counters | `serve`, `read`, `parseMessage`, `process`, `sendBytes`, `Connect`, `Call`, `Close`, `SetChunkSize`, ... | dispatches command and status events to `LiveHandler`; `Server` accepts and rejects |
| Live handler (`rtmp/livehandler.go`) | the listeners of one connection, its streams and recorders | `onConnect`, `onCreateStream`, `onPublish`, `onPlay`, `onClose` ... | RTMP connection, media recorder, `Application` and `Stream` (not in the repository) |
| RTMP server (`rtmp/server.go`, `utils/tcpkeepalivelistener.go`) | listener, configuration | `ListenAndServe`, `Serve`, `Accept`, `Reject` | one goroutine per connection; routes by `Mux` |
| Mux (`utils/mux.go`) | table of patterns, the subtrees sorted by length | `Handle`, `Handler` | RTMP server |
| Timer (`utils/timer/timer.go`) | `state`, `currentCount`, the `ticker` field | `Start`, `Stop`, `Reset`, `wait` | dispatches TIMER and COMPLETE |
| Media stream and tracks (`av/format/format.go`) | tracks, next track id, metadata | `AddTrack`, `RemoveTrack`, `Close`, ... | dispatches to remuxers |
| FLV remuxer and demuxer (`av/format/flv/flv.go`) | attached source, its tracks, mode, buffered tag | `Source`, `Append`, `SetDataFrame`, `Close` | listens to a media stream, dispatches PACKET |
| Media recorder (`av/mediarecorder/flv.go`) | `readyState`, file, mutex | `Source`, `Start`, `Pause`, `Resume`, `Stop` | embeds the FLV remuxer and listens to itself |
| FMP4, CMAF remuxers (`av/format/cmaf`, `av/format/fmp4`) | mode, time base, decode time and info frame of each track | `Source`, `Close`, handlers, segments | media stream |
| RTP remuxer (`av/format/rtp`) | its tracks with the SN and transport of each | `Source`, `Close`, handlers, `getAACPackets`, `getAVCPackets` | media stream, a player of RTSP |
| AMF and messages (`av/utils/amf`, `rtmp/message`) | a value; the one `Value` that `Parse` reads into | `Set`, `Add`, `Del`, `Encode`, `Decode`, `Parse` | RTMP connection, FLV metadata |
| Codecs, playlists, SDP, RTCP (`av/codec`, `av/utils`) | none that lasts | parsing and formatting | remuxers |
| Bandwidth manager (`utils/bw`) | readers and writers, the share of each, the count of each | `NewReader`, `Read`, `Close`, the same of writers | connections |
| Log, register, config, event classes | small | output and construction | all |

**What makes it hard.** Every component shares one pattern: a non-reentrant
mutex (or atomics) of its own, plus the re-entrant event dispatcher it
inherits, plus handlers that call back into the component from the same
goroutine. So the behaviours that matter are: calls made by a handler in the
middle of the operation that called it; two goroutines in the dispatcher;
panics that leave a dispatch half way; `Close` or `Stop` called by the
component on itself while another goroutine does the same; state that is
loaded, acted upon and stored again without a lock (`Close`, `Timer.Stop`,
`sendBytes`); counters that wrap; and protocol state kept at both ends of a
connection that must change at the same byte.

**What makes each component correct.**

- Dispatcher: mutual exclusion in spite of re-entrance; no way out leaves the
  lock, `goid` or `recursion` behind; removed listeners are quiet; nesting and
  overrun are bounded; every call returns.
- RTMP connection: messages arrive as sent, in order; both ends agree on the
  chunk size and on compressed headers; a connection that ends is closed,
  announces so once per `Accept`, closes its streams and frees its goroutine;
  answers reach the call they belong to; windows are acknowledged in time.
- Mux: the longest registered subtree wins whatever the order of registration;
  cleaning a path is canonical; registering a pattern takes no route away.
- Timer: one COMPLETE per reset of the count; a running timer ticks.
- Remuxer: attached to every track it wants, detached from all when closed;
  nothing undecodable is sent to a player; timestamps count from its start; no
  player and publisher that wait for each other.
- Live handler: one feed per stream; a client that was refused or closed is
  detached; every notification that something began is followed by one that it
  ended.
- AMF and commands: what one side encodes, the other parses into the same
  fields, or reports an error.
- Demuxer: packets are the tags of the stream, however its bytes are cut.
- FMP4 and CMAF: every media segment follows the init segment of its own source,
  however many tracks come and go, and decode times have no gaps.
- RTP: a player gets every frame back from its packets, numbered without a gap.
- Bandwidth: shares do not exceed the bandwidth, readers do not exceed their
  share.
- Recorder: nothing is written to a closed file; one STOP per START; no call that
  waits for ever, for itself or for the publisher.

The hazards, each at its line, are in `PROJECT.json`.

## 2. Modules

| Module | Models | Composition |
|---|---|---|
| `ListenerRegistry` | what a dispatcher promises, without locks, goroutine ids or stacks | abstract specification |
| `EventDispatcher` | `events/eventdispatcher.go` | implements `ListenerRegistry` (instance `Registry`) |
| `EventDispatcherProofs` | its inductive invariants and seven theorems, one of them the refinement | extends `EventDispatcher` |
| `ChunkStream` | `sendBytes`, `SetChunkSize` against `parseMessage`, `process` over an ordered byte stream | two ends and the wire in one module |
| `RtmpSession` | `serve`, `read`, the commands of stream 0, `Close`, `Server.Accept`/`Reject`, `LiveHandler.onConnect`/`onCreateStream` | connection, handler and server |
| `RtmpCalls` | `Connect`, `Call`, `_result`, `_error`, the handlers of responders and NET_STATUS, against the server's replies | client and server |
| `AckWindow` | the acknowledgement check in `read` | |
| `NetConnectionProofs` | theorems about what a connection promises: acknowledgements, calls, messages in chunks, and its end | extends `AckWindow`, `RtmpCalls`, `ChunkStream` and `RtmpSession` |
| `Timer` | `utils/timer/timer.go` | |
| `LiveHandler` | `onPublish`, `onPlay`, `onSeek`, `onPause`, `onCloseStream` of several clients of one stream name | clients, their connections, the notification service, the proxy and the recorders |
| `LiveHandlerProofs` | its inductive invariant and four theorems | extends `LiveHandler` |
| `Mux` | `utils/mux.go` | |
| `Induction` | what the proofs about data rest on: least members of sets of naturals, and functions defined by recursion | extended by the three modules of proofs below that need it |
| `UtilsProofs` | theorems about routes (the sorted array, the longest match, what `clean` makes of a path, and that a registration takes no route away) and about the timer | extends `Mux`, `Timer` and `Induction` |
| `Amf` | `av/utils/amf`: values, `Encode`, `Decode` | operators, used by `CommandMessage` |
| `CommandMessage` | `Parse` of command and data messages against the encoder | sender and receiver |
| `FlvDemuxer` | `Append` and `Reset` of `av/format/flv/flv.go` against the bytes `Header` and `format` write | stream, caller, listener |
| `Segmenter` | the segments of `av/format/cmaf` and `av/format/fmp4` | publisher, stream and remuxer |
| `RtpPackets` | how `getAACPackets` cuts a frame and numbers the packets | operators and constants, used by `RtpRemuxer` |
| `RtpRemuxer` | `av/format/rtp/rtp.go` | publisher, remuxer and the player of its packets |
| `Bandwidth` | `utils/bw` | manager and readers |
| `FormatsProofs` | theorems about shares, RTP packets, segments and the packets of the demuxer | extends `Bandwidth`, `RtpRemuxer`, `Segmenter`, `FlvDemuxer` and `Induction` |
| `MediaRecorder` | `av/mediarecorder/flv.go` with `Source` and `Close` of the FLV remuxer it embeds | recorder, remuxer and shared dispatcher |
| `MediaRecorderProofs` | its two inductive invariants and two theorems | extends `MediaRecorder` |
| `MediaStream` | a media stream as a value: `AddTrack`, `RemoveTrack`, `Attached`, `Close` | operators, used by `FlvRemuxer` |
| `FlvRemuxer` | the remuxer part of `av/format/flv/flv.go`, attached to a `MediaStream` | stream, sources of its tracks, remuxers, players and publisher |
| `FlvRemuxerProofs` | its inductive invariant and seven properties proved from it | extends `FlvRemuxer` and `Induction` |
| `MC<Module>` | the instance of `<Module>` that TLC checks | |
| `MCFormats` | `Bandwidth`, `CommandMessage`, `FlvDemuxer` and `RtpRemuxer`, which do not interact, in one run | `unit` says which of them a behaviour is about; `CommandMessage` is an instance, the others are extended |
| `MCWraps` | `AckWindow` and `Segmenter`, which do not interact and whose numbers wrap, in one run | as above |

### How state and actions correspond to the code

**EventDispatcher.** One frame per call in progress, on a stack per goroutine;
a frame above another is a call made by the running handler. The labels of a
frame follow the code: `check` compares `goid` (`CheckGoid`), `lock` takes the
mutex, `mark` stores `goid`, `body` is the operation, `loop` and `handler` are
the loop of `DispatchEvent`, `unwind` the deferred decrement of `recursion`,
`leave` and `unlock` the deferred unlock. `DispatchEvent` copies the list
before the loop, so a frame's `todo` is fixed when the dispatch begins. A
handler may do anything: nested calls, return, `StopPropagation`, panic
(`HandlerPanic`; the deferred `recover` catches it). Go maps and lists are
represented by sets: the order of listeners is abstracted.

**ChunkStream.** The wire is a sequence of tokens, one per chunk header and
one per payload byte. `Format` is the choice of the header format against
`headersOut` (the last header sent on the chunk stream); `ReadHeader`
reconstructs it from what the receiver knows. The Go parser stores the
unfinished message in the map of messages at the first header, so the entry
of the chunk stream *is* the message under construction: `aliases` records
that. `sendBytes` makes one `Write` per chunk (`WriteChunk`), holds no lock,
and the chunk size changes after the last chunk of the announcing message
(`Return`). Two writers may therefore interleave chunks; `mixed` records that
they did. The parser keeps one message for the whole connection, so after
that nothing is promised and the model lets the receiver go `broken`. A write
that fails, after which `sendBytes` returns its error, and the fields that go
through unread are left out (section 6). Its specification is `ChunkSpec`, with
fairness `FairChunkSpec`: `NetConnectionProofs` extends it together with other
modules (see `AckWindow`).

**RtmpSession.** `reader` is the program counter of the goroutine of `serve`;
`closing[t]` that of `Close` in goroutine `t`. `Close` is six steps: the
`switch` on a loaded state, the store of CLOSING, the loop over the streams,
`conn.Close`, the event, the store of CLOSED. A `Read` may return two
messages, so commands behind a `close` are still processed. Application,
NetStream and the notification are external: `Accept` or `Reject` follows
`onConnect` by choice. Its specification is `SessionSpec`, with fairness
`FairSessionSpec`, and its other parts are named `Session...` likewise, because
`NetConnectionProofs` extends it together with `RtmpCalls`, whose state of the
connection is `clientState`.

**RtmpCalls.** A call takes its id (`atomic.AddUint64`), registers its
responder, sends. `Connect` first stores 0 in the counter; the server answers
connect with id 1 (`onConnect`) and everything else with the id of the
request. A responder has a handler for `_result` (`HasResult`), for `_error`
(`HasStatus`), for both, or is nil and not registered: `Connect` has one for
`_result` only. `Dispatch` calls the handler that is there (`answered`) and
dispatches NET_STATUS when the answer carries an info object (`reported`).
`early` records that a call took an id before Connect had its own.

**AckWindow.** The counters are modulo `W` (2^32 in the code). A window set by
the peer is parsed after the check of the `Read` that brought it. What has
the same name in `RtmpCalls`, which `NetConnectionProofs` extends too, is called
`AckInit`, `AckNext`, `AckSpec`, `AckTypeOK` and `ackVars`.

**Timer.** `Start` and `Stop` are a compare-and-swap followed by an
unprotected access to the `ticker` field, hence two steps each. Every `Start`
spawns a goroutine that runs `wait`; a stopped `time.Ticker` does not close
its channel, so the goroutine stays blocked, as in the code. Listeners of the
timer's own events may call `Start`, `Stop` and `Reset`. `overlapped` records that
a call swapped the state while another was between its own swap and the ticker
(`AtTicker`). Its specification is `TimerSpec`, with fairness `FairTimerSpec`:
`UtilsProofs` extends it and `Mux`.

**LiveHandler.** `pc[c]` is the next step of the handler that client `c`'s
goroutine is in. A handler is cut where it waits: for the notification service,
for a status to be sent, for the proxy. `NetStream`, `Stream` and `Proxy` are
not in the repository; what is assumed of them is said at `Detach`,
`SourceStream` and `PullArrives`. `feeding` is what sinks media into the stream
(`STREAM_PUBLISHING` is set while it is not empty), `watching` who is sourced
from it. A handler that cannot send closes its connection from within
(`GiveUp`); `OtherCloses` is the `Close` of another goroutine, which waits for
the handler in progress or is through before it. History variables name
what the code cannot prevent: `blind` (feeds that had passed the check at the
same time), `overtaken` (closed in the middle of a handler), `unsent` (refused
after the notification), `both` (one NetStream that publishes and plays),
`unended` (the notification of the end failed and was only logged), and `begun`,
the notifications accepted and not followed by one of their end that was accepted.
`CloseStream` is `closeStream` or `deleteStream`, which may also come behind a
close in the same `Read` (`RtmpSession`).

**Amf, CommandMessage.** The wire is a sequence of tokens, each a run of bytes
that the encoder writes at once and the decoder reads at once; a decoder that
meets another token is out of step. A value has its Go type, its list and its
table, which `Add` and `Del` change differently. `Steps` is the table of what
`Parse` reads for each command: the field, the type it asserts, and what it
means when the data ends. A failed assertion is the outcome `panic`.

**FlvDemuxer.** Bytes are numbers. `AppendBytes` cuts the stream anywhere;
every state of the `switch` that differs is an action, and the runs of states
that only step forward (`SkipByte`, `TagField`) are one action with a table.
A tag is what `format` can write: a length of three bytes, a timestamp of four
(`DemuxAssumption`). The names that other modules of `FormatsProofs` use as well
begin with `Demux`.

**Segmenter.** Calls are taken one at a time: the interleavings of `Source`,
`Close` and the track handlers are those of `FlvRemuxer`. A track is named by its
source. A stream may have any number of a kind, and packets of every source are
handled with the remuxer's `first` of their kind, as `GetAudioTracks()[0]` and
`GetVideoTracks()[0]` are; of the order of the others nothing is kept, so any of
them may be the next first. `CloseStream` is the `Close` of the stream, which stops
the tracks before REMOVETRACK: the remuxer finds none of them and keeps them all.
`announced` are the tracks whose last info frame the player has, `undecodable` the
sources a segment of which went out without theirs, `due` the end of the last
sample of each; `Timestamp` is the decode time the code keeps. `behind` are the
tracks that were attached behind another of their kind or, in CMAF, behind their
info frame. Times are modulo `Wrap`. The operations that other remuxers have, too,
begin with `Seg`; `phase` is the remuxer's `readyState` and `headers` the sources
with an info frame. A player closes the remuxer before it attaches it again.

**RtpRemuxer.** A frame is its length. Calls are taken one at a time but for
the loop of `getAACPackets`, which holds no lock and dispatches each packet:
`frame` is that call (its track, the SN it counts on from, what is left of the
data), `SendPacket` one turn of the loop, and `Source` and `Close` of the player
come between any two turns; a `Close` of another goroutine would wait for the
frame before it lets go of the tracks, so the model has more of its interleavings
than the code. The tracks are a set of records, ordered by their
ids; `own` says that `onAddTrack` made the track, not `Source`. `heard` is the
player: the last number of each track and the bytes it has put together since the
last whole frame; `owed` counts the frames that were cut and have not come whole.
`excuses` are the two things the code cannot prevent: `overtaken`, a `Close` in
the middle of a frame, and `oversized`, a frame longer than the AU header can say.
No action sends video: `getAVCPackets` panics before its first packet. What has
the same name in `Bandwidth`, which the instance extends too, is called `RtpInit`,
`RtpClose`, `RtpNext`, `RtpSpec` and `rtpVars`.

**Bandwidth.** `Read` is three kinds of steps (load the share, turns of the
loop, the read itself) so that a `NewReader` or a `Close` comes between any
two. `next` is only whether it has been set: it mixes seconds with
nanoseconds, so the sleep is one second or none.

**Type invariants.** Every stateful module but `Segmenter`, `FlvDemuxer`,
`CommandMessage`, `Bandwidth` and `RtpRemuxer` states a `TypeOK`, or one with its
name in front. It is proved for `EventDispatcher`, `AckWindow`, `LiveHandler` and
`Mux`, and so are the types of `Bandwidth`, `RtpRemuxer`, `Segmenter`,
`FlvDemuxer`, `RtmpSession`, `FlvRemuxer` and others as part of the invariants of
section 4; elsewhere it documents the variables, and the runs spend their time on
the other properties.

**Mux.** A path is a sequence of tokens. `Handle` and `Handler` hold the
mutex, so each is atomic. `path.Clean` is external and modelled by what it
does.

**MediaRecorder.** A goroutine's `todo` is the sequence of steps it has left;
a call or a dispatch puts its steps in front. Four locks: the recorder's
mutex, the remuxer's, the recorder's re-entrant dispatcher, and the dispatcher of
the source, which the publisher (`Media`) holds for as long as it delivers
something: `FlvWire`, where `Source` registers the remuxer's listeners with the
source and `Close` removes them, waits for that. `wired` says that they are
there, and `attached` that the remuxer is not inactive. `readyState` is checked
before the lock is taken, and `Start` writes it there, as in the code.

**FlvRemuxer.** The publisher is one goroutine: `dispatch` is what it is doing
on the stream or on a source, `call[publisher]` a `Close` it makes inside a
handler. Each remuxer has a player, a goroutine whose `Source` or `Close` in
progress is `call[r]`. The locks are the stream's mutex (held by `AddTrack`,
`RemoveTrack` and `Close` while they dispatch), the dispatchers of the stream
and of each source (held while listeners run, entered again by the goroutine
that dispatches: `Free`), and the mutex of each remuxer. A track object stands
for its source too; `own[r]` holds the clones, whose `source` is nil
(`NoSource`) after a stop. A handler that panics is recovered by the
dispatcher and the listeners after it are skipped. A packet has a type
(sequence header, keyframe, interframe, audio frame) and a timestamp. History
variables say what a player got: `heard`, `keyed`, `started`, `tag`; what the
code gives it too early, or takes away by the panic of another remuxer: `unheard`;
whose pumping began with a keyframe that was itself dropped, because the first
track of the kind, at whose source the code looks, is another one without a header:
`blind`; and which tracks met `Source` or `Close` half way: `raced`. A tag names
both its track and the `first` of the kind.

## 3. Runs

| Run | Question | Instance and why it is enough |
|---|---|---|
| `EventDispatcher` | lock, cleanup, nesting, removal, overrun, refinement, termination | two goroutines (three and two calls), recursion limit 2 (8 in the code), a listener with count 1 and one without: three nested calls pass the limit, and the second goroutine contends with every depth |
| `ChunkStream` | are messages delivered as sent, do both ends stay in step | two messages of one writer and one of another, payloads of 1 and 3 bytes, chunk sizes 2 then 1: messages of one, two and three chunks; kinds that differ from the one before in nothing, in length, in timestamp (extended or not) and in stream, so that all four header formats occur |
| `RtmpSession` | life cycle of a connection | four messages in Reads of one or two, two other closers: every command is met before, between and behind a close, and three goroutines overlap in `Close` |
| `RtmpCalls` | answers and responders | Connect and three calls, of which one has both handlers, one a handler for `_result` only, as Connect, and one none |
| `Timer` | completion and ticking | two callers and two spawned goroutines, two starts, one reset, repeat counts 0 and 2: a restart with a waiter of the run before, and two calls at once |
| `TimerRunning` | violation, see section 5 | as above |
| `Mux` | routing | eight patterns with nested subtrees and host-bound ones, in every order; every request of up to three segments over a, b, `.`, `..` and empty, with and without outer slashes |
| `MediaRecorder` | files, events, deadlock | two users with four calls, two packets, dispatcher nesting 3 (8 in the code): an ERROR that stops, whose CLOSE stops again |
| `Wraps` | counters and decode times across the wrap, segments and their init segments | two units in one run. Window: counter modulo 16, reads of up to 3 bytes, windows 0, 1, 5 and 12: every alignment of window and wrap. Segments: one audio and two video tracks, which are added, removed, left behind by a close of the stream and added again in any order, with their headers or before them; two attaches, times modulo 3, two modes (with keyframes alone, the frames between are dropped; interleaved, the audio header is awaited), both formats |
| `FlvRemuxer` | is a player always attached, detached and served right, who can block whom | one remuxer of all tracks, an audio and a video track, two attaches, four calls, events or packets of the publisher, who may parse a header before he adds the track: enough for a track that is added, removed, closed or stopped inside each half of `Source` and `Close`, for header, keyframe and interframe, and for a packet that finds a listener which `Close` has left behind; timestamps modulo 8. Two video tracks, two remuxers and modes of keyframes alone are left to the proofs |
| `LiveHandler` | who feeds and watches a stream, and which notifications are left open | two clients with two commands each, the proxy and the recorders on: a second publisher, a player that pulls from the proxy, a publisher that plays, a close or a failed send at every step of the other handler, an end that cannot be reported; 2 400 000 states up to symmetry |
| `Formats` | do shares, commands, packets and frames arrive right | four units in one run. Commands: an object of up to three `Add`s and `Del`s of values of every type, among them empty keys, long strings and arrays inside arrays, in each of eighteen commands and data messages. Demuxer: two streams one after the other, cut anywhere, with an empty tag, a tag too short and a timestamp of four bytes. Bandwidth: three readers, bandwidths 2 and 4 (so that three readers have a share of 0), buffers of 2, counts up to 5. RTP: two audio tracks and one of video, three ids, two attaches, frames of 0, 1, 3 and 4 bytes in packets of 2 and 3, SN modulo 4 and an AU header for less than 4: empty frames, full and partly full last packets, the wrap in the middle of a frame, frames of two sources on one track, and a close between any two packets |

`MaxSources` and `MaxActs` bound `FlvRemuxer`, `MaxSources` also `RtpRemuxer`;
`MaxCalls`, `MaxMessages`, `MaxReceived`, `MaxStarts`, `MaxResets`, `MaxPackets`,
`MaxCommands`, `MaxChanges`, `MaxStreams`, `MaxAttaches` and `MaxID` bound what the environment does, `MaxCount` the repeat count of a timer
and, in `Bandwidth`, the count of a reader that never sleeps; `MaxRecursion`,
`W`, `Wrap`, `MaxSN`, `AULimit` and `Rooms` are constants of the code made small.
Deadlock is not checked where the program may rightly stop: a connection that
has ended, a client whose calls are answered, a timer at its bounds, a table
with every pattern, a connection whose acknowledgement failed, clients that
have used up their commands, a message that has been parsed, a stream that has
been read; in `MediaRecorder` also because two users, or a user and the
publisher, can block each other (section 5; `CallsReturn` names the one way that
a single user can), and in `FlvRemuxer`, where `CallsGoOn` states which state may block (section 5).

### Fairness

- `EventDispatcher`: weak fairness of every running goroutine, handlers
  included (they return or panic); strong fairness of taking the mutex, which
  `sync.Mutex` gives by its starvation mode.
- `ChunkStream` (`FairChunkSpec`): a goroutine inside `sendBytes` and the reading one
  run on. No one is obliged to send.
- `RtmpSession` (`FairSessionSpec`): the goroutine of `serve` and a `Close` that has
  begun run on; the peer need not send or leave.
- `RtmpCalls`: goroutines run on, and the server answers what it received.
- `Timer` (`FairTimerSpec`): goroutines run on inside a call or in `wait`, a live ticker ticks;
  nobody is obliged to call.
- `FlvRemuxer`: none. Its calls are finite, so that one of them can always go on
  (`CallsGoOn`, an invariant) means that they return; this keeps the state
  space of two attaches within reach.
- `LiveHandler`, `Formats` and `Wraps`: none; all their properties are safety.
- `MediaRecorder`: strong fairness of each goroutine's next step: it runs on,
  and gets a mutex that is free again and again.

## 4. Proofs

All theorems are checked by TLAPS from the named assumptions on the constants
(`DispatcherAssumption`, `AckAssumption`, `TimerAssumption`, `MuxAssumption`,
`BandwidthAssumption`, `LiveAssumption`, `RtpAssumption`, `CallsAssumption`,
`SessionAssumption`, `RecorderAssumption`, `ChunkAssumption`,
`MediaStreamAssumption`, `RemuxerAssumption`, `SegAssumption`, `DemuxAssumption`)
for any number of goroutines, events, listeners, limits, windows, repeat counts,
patterns, requests, readers, clients, calls, messages, chunks, frames, packets,
tags, tracks and remuxers.

**Induction.** The library's induction theorems take the claim as an operator,
which the provers cannot instantiate. `HasLeast` says instead of a *set* of
naturals that it has a least member if it is not empty, which follows from the
order of the intervals `1..m` by inclusion: an induction is then the step that a
set of counterexamples has no least one. `Recursion` says of a *function* of
steps that there is a sequence of values each of which its step makes of the one
before: with it, what a recursive function or a fold of the community modules
computes can be spoken of without assuming that the recursion has a solution.

**EventDispatcherProofs.** `Invariance` proves `IInv`, which is `TypeOK`, and
for every goroutine `FrameOK` and `LockOK`, and `DepthOK`. Mutual exclusion is
not inductive: that a nested call may skip the lock rests on the fact that its
goroutine's *bottom* frame owns it. `FrameOK` says that all frames but the top
one are in a handler, that only the bottom frame owns the lock and at which
labels, and that there is nothing left to deliver outside a loop. `LockOK`
reads the mutex and `goid` off the bottom frames. `DepthOK` reads `recursion`
off the height of the holder's stack. The lemmas `BecomesStack`, `PushStack`
and `PopStack` say how the three kinds of steps change a stack; one lemma per
action shows that it preserves the invariant. From it follow `TypeCorrect`,
`LockIsExclusive`, `CleanWhenFree`, `NestingIsBounded` and `RemovalIsFinal`.

`OverrunIsBounded` follows the returns of a listener with a count. `Due(t, l)` are
the dispatches of a goroutine that still owe `l` a return: those that have it in
their copy of the list or are running it. While the count lasts, every return is
counted; once it is used up, `l` is registered nowhere and every return pays a debt,
so that returns plus debts stay below the limit (`Accounted`). That a dispatch pays
a debt once needs `RunningIsNotDue`, and that there are fewer debts than
`MaxRecursion` rests on `NestingIsBounded`.

`RegistryIsImplemented` is the refinement of `ListenerRegistry`, step by step. Its
mapping reads the abstract dispatch off the stack of the goroutine that holds the
mutex (`View`); the lemmas say which changes of a stack leave the view as it is
(stuttering steps: lock, mark, unwind, a goroutine that waits), and which step of
the registry each of the others is.

**NetConnectionProofs.** *Acknowledgements.* Outstanding bytes never reach window
plus one read, hence fit the counter (`WindowFits`, `Wraps`), so the difference
modulo `W` is the number of outstanding bytes. This needs window plus read buffer
below `W`, which `AckAssumption` states. A peer can ask for a larger window; the
check may then miss it.

*Calls.* `AnswersAreRouted`: `IdsOK` says that the counter is the number of calls
that have an id, that no two have the same and that Connect has the first, and
`RoutesOK` that what is registered, sent or answered under an id belongs to the
call that has it. The hypothesis is that of the property: no call took an id
before Connect had its own (section 5).

*Chunks.* `MessagesArrive` and `EndsStayInStep` need to know what the tokens in
flight mean, and a token alone does not tell: a compressed header says nothing of
the fields it leaves out, and where a chunk ends depends on a size announced
earlier, by a message that may still be in flight itself. The invariant `ChunkInv`
says that there is a *history* of all messages begun so far, each with what its
chunk streams knew before it and the chunk size it went by (`History`: both follow
from the message before), and a *place* in that history for every token in flight,
for the receiver and for the sender. `WireOK` says that each token is the one of its
place and that the next token has the next place; `ReceiverOK`, that the receiver
knows and has delivered just what the history says up to its place; `SenderOK`, that
the sender is at the end, that a writer in the middle of a message is writing the
last one, and that a writer still before its first chunk has chosen its header format
against what the receiver *will* know. History and places are quantified and not
variables, so the model carries nothing for the proof; before the proof TLC checked
the same invariant with both as history variables on the instance of the run.
`WriteChunkStep` extends the history by a message or the last message by a chunk,
`ReadHeaderStep` and `ReadByteStep` move the receiver on by one place, and
`MessageIsProcessed` is the last byte of a message, where the receiver takes over the
size and the header that the history gives the next one. The hypothesis of both
properties is `~mixed`, that no chunk was written in the middle of another message
and no two writers chose the headers of one chunk stream at the same time; section 2
says what the code does otherwise. `ChunkAssumption` asks for positive
chunk sizes and message kinds that have a payload, and says that the two markers for
"nothing" are no header and no job.

*The end of a connection.* Any number of goroutines may be inside `Close` at once, each
at its own step. `LifeOK` says what the state of the connection owes them: a
connection that is closing has a `Close` between its two assignments, a closed one
has lost its socket, and once `serve` has come back the state never leaves closing
and closed, which is `ClosedInTheEnd`. `SingleOK` follows the one `Close` of the
reader when no other goroutine closes: at each of its steps the state is the one it
stored, accepts exceed CLOSE events by the one not yet announced, and streams
attached while connected are closed behind the loop. `AcceptsAreAnnounced` and
`StreamsEnd` need that hypothesis, for the reason given in section 5.

**UtilsProofs.** *Timer.* Call a goroutine pending when it has reached the last count
and has not dispatched COMPLETE. `Paid` states that completions plus pending
goroutines do not exceed resets, plus one if the current run has reached its
last count. `CountStep` is the step where a goroutine becomes pending, and the
run reaches its last count at that very step; `ClearStep` turns the run into a
reset that has paid. `CompleteIsUnique` follows.

*Routes.* `TypeOK` is inductive: `Inserted` says what `appendOnSort` makes
of the array, and `TypeStep` that the array stays sorted, without duplicates
and in step with the table. `Longest` then needs no more than that state: the
first prefix in a sorted array is the longest, and a path that is registered
is no shorter than any of its prefixes. Both searches, `sort.Search` and
the loop of `match`, find something by `HasLeast`. `RoutesAreKept` compares the
longest match before and after a registration. A request loses its handler only if
it had none of its own and its redirect to the subtree ends: that is when the table
gets its very path, with its host or without, and without the host it is then found.

*Clean.* `RequestsReachTheirPattern` is about what `clean` computes for every path.
`SegmentsKept` says that `Segments` is computed token by token (by `Recursion`),
`SegmentsAppend` what one more token does to it; `JoinShape` and `JoinAppend` what a
path put together from names looks like; and, by a least counterexample,
`SegmentsOfJoin` that taking such a path apart gives the names back. From these
`CleanShape`, `CleanTwice` (a clean path stays as it is), `CleanIsCanonical`
(rooted, without dots and double slashes) and `CleanIsUnique`: two clean paths with
the same segments and the same end are the same, so that a request that spells a
pattern is looked up by that very pattern, which no subtree can outdo. The last conjuncts of `MuxAssumption`, that
the empty pattern is no path and that a host does not begin with a slash, are what
these are; that a dot is no name and no slash is how paths are split.

**FormatsProofs.** *Bandwidth.* Besides the types, `IInv` says of the manager that the
shares do not exceed the bandwidth in sum (`SharesOK`), and of each reader what
`Read` knows where it is (`ReaderOK`): in the loop its local count is the count
of the reader, behind the loop the count is below the share that was loaded.
Without the second part the bound on a burst is not inductive, since the share
may change between the loop and the read.

*RTP packets.* `FramesArriveWhole` says nothing of a frame in the middle,
so the invariant follows one through the loop. `FrameOK`: what is left of it fills
all packets that are left but the last and fits them (`CountCuts` says that the
division in the code begins so, `CutStep` that a turn of the loop keeps it).
`BytesOK`: the player has just the bytes that were cut, hence the whole frame at
the last packet and not before. `SequenceOK`: the number the player heard last is
that of the frame, or of the track if none is being sent, and nothing has been
heard under an id that is not given out; `IdsOK`, that an id names one track, makes
this inductive when tracks come and go. `NextFollows` is the wrap.

*Segments.* Decode times wrap, so the invariant `SegInv` does not add them up: as
long as the time base is the timestamp that started the pumping (`TimesOK`), moving
the track to the end of the sample gives what is due, whatever was there before,
because the remainder may be taken at once or at the end (`TakenTwice`,
`SegmentTime`). This holds for any `Wrap`, the 2^32 of the code among them, and for
any number of tracks of a kind: a frame is moved on along the first of them, and
`FirstOK` says that every track but that one was attached behind another. `CmafOK`
says that a track of CMAF's own whose player lacks the last info frame is in
`behind`, and `Fmp4OK` that, once every info frame has gone out with the first
keyframe, none is new; `StagesOK`, that neither is claimed before the pumping;
`PresentOK`, that an info frame belongs to a track of the stream or to one that was
left behind in the remuxer. `CloseStream` changes none of the rest.

*Packets of the demuxer.* `Append` keeps nothing but its state, the packet under
construction and the bytes, so the invariant `DemuxInv` says what the unread bytes
are: the rest of what is being read, followed by the bytes of the tags that have
not been delivered (`Wire`). It has one case for each part of the stream: before it
(`Idle`), in its header, in a backpointer, before a tag, in its ten bytes of fields
(where the packet has the sum of those that were read, `Partial`), in its payload
(where it has the first `n` bytes of it), and behind a panic, which repeats. Where
`AppendBytes` cuts the stream makes no difference to that, which is why the theorem
holds for any cut. That the fields add up to what `format` wrote is arithmetic on
bytes (`LengthAddsUp`, `TimeAddsUp`), that a tag is followed by the next is what
`FlattenSeq` computes (`FlattenSteps`, `FlattenFirst`, from `Recursion`), and that
nothing is left only when the last tag was delivered (`NothingLeft`) follows from
the length of what is ahead. The hypotheses are those of the property: the stream
begins with "FLV", and no listener calls `Reset` from within `Append` (section 5).
TLC had checked `DemuxInv` on the streams of the run before.

**LiveHandlerProofs.** The invariant looks ahead of the attachment. `FeedsOK`
says of the feeds that are *decided on* (`Deciding`) what `OneFeedUnlessBlind`
says of those that are attached: a feed is decided on only where none is
attached, and only what was decided on is attached, so no step can add a pair
that is not in `blind`. `ClosedOK` adds that a handler about to attach is on an
open connection, and `TellsOK` that a notification without its end belongs to a
NetStream in the state `onCloseStream` goes by, on a connection that is not closed,
or to a handler on its way to that state. `BegunIsEnded` says this of every client
but those of the four exceptions its property names (section 5). `DetachClients`, `StayClients` and `CloseClients` say what every
way of closing leaves; one step per action follows from them.

**MediaRecorderProofs.** A goroutine's `todo` is a stack that a call, a nested
dispatch or a listener grows by several steps at once, so both proofs are about the
*shape* of stacks, and the lemmas say where each step of the new stack comes from
(`FromTop`, `Becomes`). For `NothingAfterClose` the invariant is `FileInv`: a step
`dispatched` lies on the stack only of the goroutine that holds the dispatcher, and
as many of them as `depth` says (`NestingOK`); a write is about to happen only on
the top of such a stack and while the recorder listens; `closeFile` comes right
behind `remove`, so the file is closed only when the recorder listens no more
(`Sound`). It needs nothing of the other goroutines but that they are in no
dispatch. `StopsMatchStarts` follows the one user: `Fits` lists what may be on the
top of its stack, over what, while the recorder is not inactive, and `Stops` the one
STOP that is due once `Stop` has stored inactive. It needs `MaxRecursion` above 1
(8 in the code): a STOP is dispatched inside an ERROR or CLOSE, and with a limit of
1 it would be dropped, as TLC confirms.

**FlvRemuxerProofs.** The publisher and the players meet at five kinds of locks,
and what a remuxer is registered with is right only at certain steps of `Source`,
`Close` and the handlers. `Inv` says what holds at every step, in three parts.

*The stream* (`StreamInv`). `CallsOK`: what each call has left, and that the holder
of a remuxer's mutex is the goroutine inside `Source` or `Close` on it. `DispatchOK`:
those still to be told are registered with the event or the source, and the
publisher closes a remuxer only inside ERROR and CLOSE. `StreamOK`: the stream holds
a track once, and a stopped one only while `Close` of the stream runs. `FreshOK`: a
track nobody has added is known to nobody. With them `IdsInv`, that ids stay below
the next one, is inductive, and `IdsNeverReused` follows.

*The tags* (`TagInv`). A remuxer that pumps and had no metadata since has the packet
that started it as its base (`TagOK`), and no video being dispatched is older than
any such packet (`TimesOK`): `AlwaysStampedFromStart`. `MaxActs < Modulus`, in
`RemuxerAssumption`, keeps a session below one wrap of the 32 bits; beyond 49 days
a timestamp repeats.

*The remuxers* (`RemuxInv`). For each remuxer `BrokenOK` holds always, and `SoundOK`
unless `Source` has met a stopped track, whose clone without a source stays for good
(`Crippled`). `ListensOK`: with a free mutex a remuxer listens to every event or to
none, according to its state, and while the mutex is taken the events still left
make up the difference. `SinksOK`: a source it listens to is one of its clones, and
is among those left if `Close` has begun. `AttachedOK`: a track it wants is attached,
still to be attached, or about to be told by the dispatch (`Pending`). `HeardOK`: a
track with an info frame had its header sent, lost, or on its way. The exceptions of
the properties are those of the invariant: a track added while `Source` or `Close`
runs is in `raced`, and nothing else is. The lemmas go remuxer by remuxer: `ElsewhereOK`
and `PublishesOK` for the steps of other remuxers and of the publisher, which change
nothing of `r` but who is being told, and one lemma for each step of its own
(`SourceOK` to `ListenOK`, `AddTrackOK` to `PacketOK`, `CloseLockOK` to
`CloseUnlistenOK`). `AlwaysDecodable`, `AlwaysAttachedToEveryTrack`,
`AlwaysDetachedWhenClosed` and `PanicsHaveOneOrigin` follow from it, `AlwaysTyped`
from all three. TLC had checked `Inv` before on instances larger than the run's: one
remuxer and two tracks with five acts in full, two remuxers and three tracks at random.

Only model-checked:

- every liveness property (`CallsReturn`, `EverythingArrives`, `ServeReturns`,
  `CallsAreAnswered`, `KeepsTicking`) and `CallsGoOn`, which speaks of ENABLED:
  both are beyond the prover;
- `CommandsArriveAsSent`: it is about `Encode` and `Decode`, RECURSIVE operators over
  values of any depth, and an induction over such values is out of reach.

## 5. Where code and comments disagree

With a run that shows it:

- `TimerRunning`: `Stop` swaps the state and then stops whatever ticker the field
  holds (`timer.go:70-71`). In the shortest trace one caller starts the timer and
  then stops it; between the two halves of that `Stop` another caller starts it
  again and puts a new ticker into the field, and that is the one the `Stop` stops:
  the timer reports running (`timer.go:81`) and never ticks. The `Stop` of a
  listener of TIMER, or the one of `wait` behind COMPLETE (`timer.go:62`), does the
  same to a `Start` that comes between its halves. `KeepsTicking` shows that nothing
  but such an overlap stops a timer without end.

Met while modelling, without a run of their own.

Connections, calls and the basic components:

- `Close` loads the state as initialized, `Accept` stores connected, and `Close`
  goes on to store CLOSED without the CLOSE event (`netconnection.go:1077`,
  `netconnection.go:1090`; the comment at `netconnection.go:1076` says it
  dispatches one). `EveryAcceptIsAnnounced` is stated for connections that only
  their own goroutine closes.
- `Connect` registers a responder with a handler for `_result` only
  (`netconnection.go:937`), so nothing is called when the server rejects it: the
  listeners of NET_STATUS hear of it, and `clientState` stays as it was.
  `CallsAreAnswered` promises a handler only where there is one.
- A second `Start` of the recorder can enter the recording state without
  listeners and without a file (`mediarecorder/flv.go:183`).
- `Close` iterates over the map of streams without the mutex that attaching
  holds (`netconnection.go:1082`); Go aborts a program in which it notices.
- A listener with count 1 can be called again by dispatches nested in its own
  handler; `README.md:68` says it is removed after one. `OverrunBound` states
  how often.
- `netconnection.go:905` says the id of connect is "Always set to 1": a `Call`
  between the store and the increment takes 1. `RtmpCalls` states its
  properties for runs without such a call.
- Registering a path with its host ends the redirect of that path to its subtree
  (`mux.go:80`), while `match` looks paths up without the host: the request loses its
  handler. `RoutesStay` shows that this is the only way to lose one.
- `mux.go:59` says the handler is never nil; `match` returns nil when no
  pattern fits.
- `mediarecorder/flv.go:127` says an observer rejects by a panic in its
  handler; `DispatchEvent` recovers from it and the recorder goes on.
- `timer.go:75` says `Reset` sets the count to 0; a goroutine past its state
  check counts after it.
- `Abort` sends a COMMAND message type (`netconnection.go:714`).
- Two users of a recorder can block each other: one holds the mutex and waits
  for the dispatcher, the other dispatches and its listener waits for the
  mutex. `CallsReturn` is stated for one user at a time.
- A single user and the publisher can block each other for ever, too. `Start` while
  the recorder records (or any call in the wrong state that stops it) dispatches
  ERROR and so holds the recorder's dispatcher (`mediarecorder/flv.go:119`); its
  own listener stops the recorder, and `FLV.Close` waits for the dispatcher of the
  source to take the packet listener away (`format/flv/flv.go:562`). The publisher
  holds that one while it hands over a packet (`avc.go:104`), which the recorder
  dispatches: it waits for the recorder's. `CallsReturn` allows exactly that state,
  as `Embrace`. A source that closes, or a file that fails, gives the publisher
  calls of its own to `Stop` and more ways to meet; `CallsReturn` is stated without.
- A peer that sets chunk size 0 makes `parseMessage` divide by zero; the panic
  is recovered in `read`, which closes the connection.

Publishing and playing:

- A second publisher, or the proxy of a player, can pass the check of
  `STREAM_PUBLISHING` while the first waits for its notification
  (`livehandler.go:166`); `OneFeedUnlessBlind` allows exactly that.
- A publish or play that the notification service accepted and that is refused
  after it is never reported as ended: the NetStream has not reached the state
  `onCloseStream` goes by (`livehandler.go:387`). Nor is the first of a publish
  and a play on one NetStream.
- A client closed by another goroutine in the middle of its handler is attached
  all the same. If that was between the notification and `NetStream.Sink`, the
  NetStream is closed while it is still initialized and turns to publishing behind
  that, on a connection that nobody needs to close again: the end is never reported,
  and the feed stays.
- A notification of the end that fails is only logged (`livehandler.go:399-404`).
  `EveryBeginIsEnded` names these four exceptions and shows that there is no other.

AMF and commands:

- `receiveAudio` and `receiveVideo` always panic: the flag is read into
  `Arguments`, and the assertion meets the transaction id
  (`commandmessage.go:194`).
- `@clearDataFrame` without a value is a parse error, a `publish` without its
  type fails, and NULL for the start of a `play` panics.
- A strict array at the end of an object takes the end marker of the object
  (`decode.go:217`).
- An empty key is not written (`encode.go:306`), and the elements of a strict
  array are written with theirs: either puts the decoder out of step.
- `Del` after two `Add`s of one key leaves the list and the table different
  (`value.go:150`); `Encode` panics on an object nothing was added to.

Remuxers and demuxer:

- A listener of a PACKET that calls `Reset` is undone: `Append` overwrites the
  state after it (`flv.go:319`); the comment at `flv.go:330` says that `Reset`
  clears the demuxer's cache.
- An audio or video tag of fewer than two bytes panics `Append`.
- CMAF asserts a type of track that the clones of `Source` do not have
  (`cmaf.go:241`): it panics on their first frame. END_OF_SEQUENCE panics in
  FMP4 and CMAF.
- FMP4 never sends an audio init segment of its own when it is not
  interleaved: the calls are commented out.
- CMAF and FMP4 handle the packets of every source with the remuxer's first track of
  their kind (`cmaf.go:157`, `cmaf.go:179`, `fmp4.go:156`, `fmp4.go:180`). With a
  second track of a kind, its frames go out on the first one, behind that one's init
  segment, and its header announces the first one's info frame again. One track is
  enough if the stream is closed and gets a new one: `MediaStream.Close` leaves the
  old track in the remuxer (`format.go:247-249`), where it stays the first until the
  remuxer's own `Close`. `SegmentsArePlayable` excuses just the sources attached
  behind another, in `behind`.
- CMAF sends no init segment for a track that is added with its header
  (`cmaf.go:120`): that track is in `behind`, too.
- Metadata behind the first keyframe sets `TimeBase` back to 0 in all three
  remuxers (`cmaf.go:282`).
- The publisher and a player of a remuxer can block each other for ever:
  `DispatchEvent` of ERROR or CLOSE holds the stream's dispatcher and `onError`
  or `onClose` waits for the remuxer's mutex, which `Source` (registering its
  last listener) or `Close` (removing one) holds while it waits for the
  dispatcher (`flv.go:378`, `flv.go:565`). `CallsGoOn` allows exactly that state.
- A track added between `GetTracks` and the registration for ADDTRACK is never
  attached (`flv.go:357`); `AttachedToEveryTrack` and `DetachedWhenClosed` are
  stated but for tracks that met a call half way.
- `onAddTrack` during a `Close` leaves the packet listener behind; the next
  packet indexes an empty list of tracks (`flv.go:443`, `flv.go:463`), and the
  panic keeps the packet from the listeners after it.
- A track stopped while `Source` attaches it has no source to register with:
  `Source` panics and leaves a clone that makes later `Close` calls panic too
  (`flv.go:365`, `flv.go:562`).
- `MediaStream.Close` stops a track before it announces REMOVETRACK, so that a
  remuxer does not find the track by its source and stays registered until its
  own `Close` (`format.go:248`).
- The comment at `format.go:100` says track ids are never re-used; `Close` sets
  the index back to 1 (`format.go:251`). `TrackIdsNeverReused` promises that of a
  stream that was not closed, and of what a stream holds at one time in any case.
- Metadata that arrives while a remuxer pumps sets its `TimeBase` back to 0
  (`flv.go:543`): later tags are stamped absolutely. Audio sunk after the
  keyframe with an older timestamp wraps to about 2^32 (`flv.go:500`).
- The first track of a kind decides for packets of every source of that kind
  (`flv.go:443`, `flv.go:463`): with two video tracks a keyframe of the second starts
  the pumping and is dropped as long as the first has no header, and what follows it
  is sent. `StreamIsDecodable` allows exactly that, as `blind`.

RTP remuxer:

- `getAVCPackets` asserts an `int` where the parser has stored a byte
  (`rtp.go:280`, `avc.go:244`): the first keyframe starts the pumping and panics,
  and no packet of video is ever sent. Without video the pumping never starts.
- The parser compares that byte with an `int` constant (`avc.go:245`), so it never
  marks a keyframe itself.
- The clones that `Source` makes fail the assertion of `getAACPackets`
  (`rtp.go:411`): only tracks added after it are served.
- After 0xFFFF comes 1, not 0 (`rtp.go:446`), and the length in the AU header has
  13 bits of a frame that may be longer (`rtp.go:431`).
- A `Close` in the middle of a frame lets its other packets go on after CLOSE,
  with numbers from 1 and an id that the next attachment uses again.
- `Format` makes room for the payload of a packet and does not copy it
  (`rtp.go:485`); the comment at `rtp.go:473` says it returns the packet's raw data.
  Nothing in the repository calls it.

Bandwidth:

- A share of 0 is taken for no limit (`bw.go:37`), and a reader created under
  it never sleeps later, when there is a share.
- `next` is in seconds and is compared after nanoseconds have been added
  (`reader.go:28`): the sleep is always one second.
- `Close` does not recompute the shares of the readers that stay.

## 6. Not modelled

- Logging, configuration, event classes, the registry of constructors and the
  file helpers keep no state worth a model.
- Codecs (`aac`, `avc`, `sps`, `pps`, Golomb codes), playlists (`m3u8`, `mpd`),
  SDP and RTCP are sequential conversions of one buffer or one record; their
  content is the layout of bits and text, which a model could only repeat.
- Of the RTP remuxer, the fragments of AVC, which no execution reaches, the
  timestamps and the transport parameters of RTSP, which are text that code
  outside the repository asks for. The locks of its `Source` and `Close` are those
  of FLV, and `FlvRemuxer` covers them.
- The accept loop of the server is one thread that calls the system. That
  `Accept` drops the error of `AcceptTCP` (`tcpkeepalivelistener.go:29`) is
  listed as a hazard without a property.
- A `Close` of the media stream under an RTP remuxer: as in `Segmenter`, it would
  leave the tracks where they are, as if they had not been removed. A `Close` of
  another goroutine in the middle of a frame is one step of `RtpRemuxer` although it
  waits for the frame before it stops the tracks: the model has more behaviours there
  than the code, and the property excuses them all.
- Of the chunk stream, ids of more than one byte (the repository uses 2 to 8; an id
  above 319 would be read back as another, `netconnection.go:1008` against
  `netconnection.go:286`), the message types of AMF3, the flag that says whether a
  timestamp is absolute, messages without bytes, and writes that fail.
- Of AMF, a LONG_STRING of length 0, which the encoder never writes and which
  `DecodeLongString` takes for no value; of the commands, COMMAND_AMF3, of which
  `process` drops a first byte that `sendBytes` does not write
  (`netconnection.go:504`).
- A player attaches a CMAF, FMP4 or RTP remuxer again only when it has closed it.
  `Source` does not look at that (`cmaf.go:69`).
- User control, bandwidth and aggregate messages are fixed layouts; they enter
  `RtmpSession` as messages that parse or fail.
- `ClearDataFrame` of a media stream and the `Append` functions of AMF have no
  caller that would change what is modelled.
- The boxes of MP4 are built by code that is not in the repository, as are
  `Application`, `Stream`, `NetStream` and the proxy; where they matter they are
  the environment's choice.
- A data race that aborts a Go program has no state after it to speak about.

## 7. Plan

Done: dispatcher and its abstract specification; chunk stream; connection life
cycle; calls; acknowledgement; timer; mux; recorder; media stream and FLV
remuxer; live handler; AMF and commands; demuxer; segments; RTP packets;
bandwidth. Proofs of the dispatcher's safety and its refinement, the
acknowledgement window, the calls, the chunk stream, the end of a connection, the
timer, the routes and `clean`, the shares, the live handler, the RTP packets, the
segments, the demuxer, the recorder and the remuxer: every safety property of the
runs but `CallsGoOn` and `CommandsArriveAsSent`.

Left, most valuable first:

1. `FlvRemuxer` with a remuxer that takes keyframes only and two tracks of a
   kind, as a smaller instance in the place of the present one or with the
   histories reduced.
2. The composition of `LiveHandler` and `RtmpSession`: which commands reach the
   handler after a close is assumed by the first and checked by the second.
3. The window of a live playlist.
