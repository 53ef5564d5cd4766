----------------------------- MODULE FlvRemuxer ------------------------------
(***************************************************************************)
(* flv.FLV as a remuxer, and the stream it is attached to.  The publisher, *)
(* one goroutine, adds and removes the tracks of a MediaStream and         *)
(* dispatches packets and events on it and on the tracks' sources.  Each   *)
(* remuxer has a player, a goroutine that calls Source and Close on it.    *)
(* The handlers of the remuxers run in the publisher's goroutine.          *)
(*                                                                         *)
(* Locks: the stream's mutex, held by AddTrack, RemoveTrack and Close      *)
(* while they dispatch; the dispatcher of the stream and of each source,   *)
(* held while listeners run; the mutex of each remuxer, held by Source and *)
(* Close.  The dispatcher and the stream of the remuxer itself serve its   *)
(* consumers, which are not modelled: a call on them is atomic, and what   *)
(* Close and Source do under the mutex to the remuxer alone is one step.   *)
(***************************************************************************)
EXTENDS MediaStream, FiniteSets

CONSTANTS
    Remuxers,       \* remuxers, each standing for its player as well
    Publisher,      \* the goroutine of the publisher
    Nobody,         \* holder of a free lock, remuxer of no call
    Mode,           \* what each remuxer takes: audio, video, keyframe (only)
    Modulus,        \* 2^32 in the code: timestamps
    MaxSources,     \* bound: calls of Source, for each remuxer
    MaxActs         \* bound: packets, events and calls of the publisher

Threads == Remuxers \cup {Publisher}

ASSUME RemuxerAssumption ==
    /\ Publisher \notin Remuxers /\ Nobody \notin Threads
    /\ Mode \in [Remuxers -> SUBSET {"audio", "video", "keyframe"}]
    /\ \A r \in Remuxers : "keyframe" \in Mode[r] => "video" \in Mode[r]
    /\ Modulus \in Nat \ {0}
    /\ MaxSources \in Nat
    /\ MaxActs \in Nat /\ MaxActs < Modulus

VARIABLES
    \* The stream and its sources.
    stream,         \* its tracks
    stopped,        \* track objects whose source is nil
    closed,         \* history: the stream was closed
    metadata,       \* the data frame onMetaData is set
    infoframe,      \* sources that have an info frame
    streamMtx,      \* holder of the stream's mutex, for writing
    streamDisp,     \* holder of the stream's dispatcher
    sourceDisp,     \* holder of each source's dispatcher
    listeners,      \* remuxers that listen to each event of the stream
    sinks,          \* remuxers that listen to the packets of each source
    \* The remuxers.
    own,            \* the remuxer's own stream, with the cloned tracks
    readyState, source, timeBase, mtx,
    \* The goroutines.
    call,           \* the call of Source or Close in progress
    using,          \* remuxers whose player has attached them
    dispatch,       \* what the publisher is doing
    \* Bounds and histories.
    sources, acts,  \* what MaxSources and MaxActs bound
    ids,            \* the id each track object was given, 0 for none
    tag,            \* what each remuxer made of the packet being dispatched
    heard,          \* tracks whose header each remuxer has sent, since Source
    keyed,          \* remuxers that have sent a keyframe since they started
    started,        \* timestamp each remuxer started pumping at, 0 for none
    rebased,        \* remuxers that received metadata while pumping
    blind,          \* remuxers whose pumping started with a packet they dropped
    unheard,        \* sources whose header a remuxer was given too early, or lost
    raced,          \* sources that met Source or Close half way
    panics          \* remuxers that panicked

lockVars == <<streamMtx, streamDisp, sourceDisp>>
streamVars == <<stream, stopped, closed, metadata, infoframe>>
tableVars == <<listeners, sinks>>
remuxVars == <<own, readyState, source, timeBase, mtx>>
threadVars == <<call, using, dispatch>>
boundVars == <<sources, acts>>
historyVars == <<ids, tag, heard, keyed, started, rebased, blind, unheard, raced, panics>>
vars == <<lockVars, streamVars, tableVars, remuxVars, threadVars, boundVars, historyVars>>

StreamEvents == <<"addtrack", "removetrack", "packet", "error", "close">>
Idle == [pc |-> "idle", remuxer |-> Nobody, left |-> <<>>]
Quiet == [pc |-> "idle", event |-> "none", track |-> NoSource, todo |-> {},
          adding |-> Nobody, closing |-> <<>>, packet |-> "none", pts |-> 0]
NoTag == [track |-> NoSource, first |-> NoSource, type |-> "none", pts |-> 0, ts |-> 0]

Init ==
    /\ stream = EmptyStream /\ stopped = {} /\ closed = FALSE
    /\ metadata = FALSE /\ infoframe = {}
    /\ streamMtx = Nobody /\ streamDisp = Nobody
    /\ sourceDisp = [x \in Tracks |-> Nobody]
    /\ listeners = [e \in ToSet(StreamEvents) |-> {}]
    /\ sinks = [x \in Tracks |-> {}]
    /\ own = [r \in Remuxers |-> EmptyStream]
    /\ readyState = [r \in Remuxers |-> "inactive"]
    /\ source = [r \in Remuxers |-> FALSE]
    /\ timeBase = [r \in Remuxers |-> 0]
    /\ mtx = [r \in Remuxers |-> Nobody]
    /\ call = [t \in Threads |-> Idle]
    /\ using = {} /\ dispatch = Quiet
    /\ sources = [r \in Remuxers |-> 0] /\ acts = 0
    /\ ids = [x \in Tracks |-> 0]
    /\ tag = [r \in Remuxers |-> NoTag]
    /\ heard = [r \in Remuxers |-> {}] /\ keyed = {}
    /\ started = [r \in Remuxers |-> 0] /\ rebased = {} /\ blind = {}
    /\ unheard = [r \in Remuxers |-> {}]
    /\ raced = [r \in Remuxers |-> {}]
    /\ panics = {}

-----------------------------------------------------------------------------
(* Calls in progress, and tags.                                            *)

At(t, pc) == call[t].pc = pc
Goto(t, pc, left) ==
    call' = [call EXCEPT ![t].pc = pc, ![t].left = left]
Return(t) == call' = [call EXCEPT ![t] = Idle]

\* Mutation: the mutex of a dispatcher is not re-entrant.
FreeStrict(lock, t) == lock = Nobody

\* The dispatcher lets in the goroutine that dispatches.
Free(lock, t) == lock \in {Nobody, t}

\* Neither Source nor onAddTrack takes a track the mode leaves out.
Wants(r, x) == Kind[x] \in Mode[r]

\* Mutation: the tag keeps the timestamp of the packet.
formatAbsolute(x, first, type, pts, base) ==
    [track |-> x, first |-> first, type |-> type, pts |-> pts, ts |-> pts % Modulus]

format(x, first, type, pts, base) ==
    [track |-> x, first |-> first, type |-> type, pts |-> pts, ts |-> (pts - base) % Modulus]

-----------------------------------------------------------------------------
(* Source, called by the player.                                           *)

\* The histories of a player begin anew.
Forget(r) ==
    /\ tag' = [tag EXCEPT ![r] = NoTag]
    /\ heard' = [heard EXCEPT ![r] = {}]
    /\ unheard' = [unheard EXCEPT ![r] = {}]
    /\ started' = [started EXCEPT ![r] = 0]
    /\ keyed' = keyed \ {r} /\ rebased' = rebased \ {r} /\ blind' = blind \ {r}

Source(r) ==
    /\ At(r, "idle") /\ r \notin using
    /\ sources[r] < MaxSources
    /\ mtx[r] = Nobody
    /\ mtx' = [mtx EXCEPT ![r] = r]
    /\ source' = [source EXCEPT ![r] = TRUE]
    /\ readyState' = [readyState EXCEPT ![r] = "waiting"]
    /\ using' = using \cup {r}
    /\ sources' = [sources EXCEPT ![r] = @ + 1]
    /\ call' = [call EXCEPT ![r] = [pc |-> "metadata", remuxer |-> r, left |-> <<>>]]
    /\ Forget(r)
    /\ UNCHANGED <<lockVars, streamVars, tableVars, own, timeBase, dispatch, acts, ids,
                   raced, panics>>

\* Metadata while pumping.
Rebased(r) == IF readyState[r] = "pumping" THEN rebased \cup {r} ELSE rebased

\* SetDataFrame copies the stream's Information, whose TimeBase is 0.
SourceMetadata(r) ==
    /\ At(r, "metadata")
    /\ streamMtx = Nobody
    /\ timeBase' = IF metadata THEN [timeBase EXCEPT ![r] = 0] ELSE timeBase
    /\ rebased' = IF metadata THEN Rebased(r) ELSE rebased
    /\ Goto(r, "tracks", <<>>)
    /\ UNCHANGED <<lockVars, streamVars, tableVars, own, readyState, source, mtx, using,
                   dispatch, boundVars, ids, tag, heard, keyed, started, blind, unheard,
                   raced, panics>>

\* Mutation: the last track of the stream is left out.
AttachToButLast(r, left) ==
    LET wanted == {i \in DOMAIN left : Wants(r, left[i]) /\ i < Len(left)}
    IN IF wanted = {} THEN Goto(r, "listen", StreamEvents)
       ELSE Goto(r, "attach", SubSeq(left, First(wanted), Len(left)))

\* The tracks still to attach, from the first the mode takes, or all attached.
AttachTo(r, left) ==
    LET wanted == {i \in DOMAIN left : Wants(r, left[i])}
    IN IF wanted = {} THEN Goto(r, "listen", StreamEvents)
       ELSE Goto(r, "attach", SubSeq(left, First(wanted), Len(left)))

SourceTracks(r) ==
    /\ At(r, "tracks")
    /\ streamMtx = Nobody
    /\ AttachTo(r, [i \in DOMAIN stream.tracks |-> stream.tracks[i].track])
    /\ UNCHANGED <<lockVars, streamVars, tableVars, remuxVars, using, dispatch, boundVars,
                   historyVars>>

\* The clone is added, and the info frame of its source is sent.
SourceAttach(r) ==
    LET x == Head(call[r].left)
    IN /\ At(r, "attach")
       /\ x \notin stopped
       /\ own' = [own EXCEPT ![r] = NewTrack(@, x, x)]
       /\ heard' = [heard EXCEPT ![r] = @ \cup (infoframe \cap {x})]
       /\ Goto(r, "sink", call[r].left)
       /\ UNCHANGED <<lockVars, streamVars, tableVars, readyState, source, timeBase,
                      mtx, using, dispatch, boundVars, ids, tag, keyed, started,
                      rebased, blind, unheard, raced, panics>>

\* The track was stopped since GetTracks: its nil source panics, which ends
\* Source and leaves the remuxer waiting.
SourceAttachStopped(r) ==
    LET x == Head(call[r].left)
    IN /\ At(r, "attach")
       /\ x \in stopped
       /\ own' = [own EXCEPT ![r] = NewTrack(@, x, NoSource)]
       /\ mtx' = [mtx EXCEPT ![r] = Nobody]
       /\ Return(r)
       /\ panics' = panics \cup {r}
       /\ raced' = [raced EXCEPT ![r] = @ \cup {x}]
       /\ UNCHANGED <<lockVars, streamVars, tableVars, readyState, source, timeBase,
                      using, dispatch, boundVars, ids, tag, heard, keyed, started,
                      rebased, blind, unheard>>

SourceSink(r) ==
    LET x == Head(call[r].left)
    IN /\ At(r, "sink")
       /\ sourceDisp[x] = Nobody
       /\ sinks' = [sinks EXCEPT ![x] = @ \cup {r}]
       /\ AttachTo(r, Tail(call[r].left))
       /\ UNCHANGED <<lockVars, streamVars, listeners, remuxVars, using, dispatch,
                      boundVars, historyVars>>

\* With the last listener Source returns.
SourceListen(r) ==
    /\ At(r, "listen")
    /\ streamDisp = Nobody
    /\ listeners' = [listeners EXCEPT ![Head(call[r].left)] = @ \cup {r}]
    /\ IF Len(call[r].left) = 1
       THEN Return(r) /\ mtx' = [mtx EXCEPT ![r] = Nobody]
       ELSE Goto(r, "listen", Tail(call[r].left)) /\ UNCHANGED mtx
    /\ UNCHANGED <<lockVars, streamVars, sinks, own, readyState, source, timeBase,
                   using, dispatch, boundVars, historyVars>>

-----------------------------------------------------------------------------
(* Close, called by the player, or by the publisher in onError and onClose.*)

\* Close looks at readyState before it takes the mutex.
BeginClose(t, r) ==
    call' = [call EXCEPT ![t] = IF readyState[r] = "inactive" THEN Idle
                                ELSE [pc |-> "lock", remuxer |-> r, left |-> <<>>]]

CallClose(r) ==
    /\ At(r, "idle") /\ r \in using
    /\ BeginClose(r, r)
    /\ using' = using \ {r}
    /\ UNCHANGED <<lockVars, streamVars, tableVars, remuxVars, dispatch, boundVars,
                   historyVars>>

Finish(t, r) ==
    /\ own' = [own EXCEPT ![r] = Close(@)]
    /\ source' = [source EXCEPT ![r] = FALSE]
    /\ mtx' = [mtx EXCEPT ![r] = Nobody]
    /\ Return(t)

\* The clones still to detach from their sources, then the stream's events.
Detach(t, r, left) ==
    IF left = <<>> /\ ~source[r] THEN Finish(t, r)
    ELSE /\ mtx' = [mtx EXCEPT ![r] = t]
         /\ IF left # <<>> THEN Goto(t, "unsink", left) ELSE Goto(t, "unlisten", StreamEvents)
         /\ UNCHANGED <<own, source>>

CloseLock(t) ==
    LET r == call[t].remuxer
    IN /\ At(t, "lock")
       /\ mtx[r] = Nobody
       /\ readyState' = [readyState EXCEPT ![r] = "inactive"]
       /\ Detach(t, r, [i \in DOMAIN own[r].tracks |-> own[r].tracks[i].source])
       /\ Forget(r)
       /\ UNCHANGED <<lockVars, streamVars, tableVars, timeBase, using, dispatch,
                      boundVars, ids, raced, panics>>

\* Mutation: only the first track is detached from its source.
CloseUnsinkFirst(t) ==
    LET r == call[t].remuxer
        x == Head(call[t].left)
    IN /\ At(t, "unsink")
       /\ x # NoSource /\ Free(sourceDisp[x], t)
       /\ sinks' = [sinks EXCEPT ![x] = @ \ {r}]
       /\ Detach(t, r, <<>>)
       /\ UNCHANGED <<lockVars, streamVars, listeners, readyState, timeBase, using,
                      dispatch, boundVars, historyVars>>

CloseUnsink(t) ==
    LET r == call[t].remuxer
        x == Head(call[t].left)
    IN /\ At(t, "unsink")
       /\ x # NoSource /\ Free(sourceDisp[x], t)
       /\ sinks' = [sinks EXCEPT ![x] = @ \ {r}]
       /\ Detach(t, r, Tail(call[t].left))
       /\ UNCHANGED <<lockVars, streamVars, listeners, readyState, timeBase, using,
                      dispatch, boundVars, historyVars>>

\* A clone without a source panics; the deferred Unlock runs, and the
\* dispatcher recovers if it is the publisher's.
CloseUnsinkStopped(t) ==
    LET r == call[t].remuxer
    IN /\ At(t, "unsink")
       /\ Head(call[t].left) = NoSource
       /\ mtx' = [mtx EXCEPT ![r] = Nobody]
       /\ Return(t)
       /\ dispatch' = IF t = Publisher THEN [dispatch EXCEPT !.todo = {}] ELSE dispatch
       /\ panics' = panics \cup {r}
       /\ UNCHANGED <<lockVars, streamVars, tableVars, own, readyState, source,
                      timeBase, using, boundVars, ids, tag, heard, keyed, started,
                      rebased, blind, unheard, raced>>

\* With the last listener Close clears the remuxer and returns.
CloseUnlisten(t) ==
    LET r == call[t].remuxer
    IN /\ At(t, "unlisten")
       /\ Free(streamDisp, t)
       /\ listeners' = [listeners EXCEPT ![Head(call[t].left)] = @ \ {r}]
       /\ IF Len(call[t].left) = 1
          THEN Finish(t, r)
          ELSE Goto(t, "unlisten", Tail(call[t].left)) /\ UNCHANGED <<own, source, mtx>>
       /\ UNCHANGED <<lockVars, streamVars, sinks, readyState, timeBase, using,
                      dispatch, boundVars, historyVars>>

CloseSteps(t) ==
    \/ CloseLock(t) \/ CloseUnsink(t) \/ CloseUnsinkStopped(t) \/ CloseUnlisten(t)

-----------------------------------------------------------------------------
(* The publisher's calls on the stream.  AddTrack, RemoveTrack and Close   *)
(* hold the stream's mutex until they return.                              *)

PublisherIdle == dispatch = Quiet

\* One of the calls and events that MaxActs bounds.
Begin(pc, event, track, closing) ==
    /\ PublisherIdle
    /\ acts < MaxActs
    /\ acts' = acts + 1
    /\ dispatch' = [Quiet EXCEPT !.pc = pc, !.event = event, !.track = track,
                                 !.closing = closing]

\* A publisher makes a new track object each time; it may have parsed the
\* header before it adds the track.
StreamAddTrack(x) ==
    /\ streamMtx = Nobody
    /\ ids[x] = 0
    /\ Begin("lock", "addtrack", x, <<>>)
    /\ streamMtx' = Publisher
    /\ stream' = AddTrack(stream, x, x)
    /\ ids' = [ids EXCEPT ![x] = stream'.tracks[Len(stream'.tracks)].id]
    /\ infoframe' \in {infoframe, infoframe \cup {x}}
    /\ UNCHANGED <<streamDisp, sourceDisp, stopped, closed, metadata, tableVars,
                   remuxVars, call, using, sources, tag, heard, keyed, started, rebased,
                   blind, unheard, raced, panics>>

StreamRemoveTrack(x) ==
    /\ streamMtx = Nobody
    /\ Holds(stream, x)
    /\ Begin("lock", "removetrack", x, <<>>)
    /\ streamMtx' = Publisher
    /\ stream' = RemoveTrack(stream, First(PositionsOf(stream, x)))
    /\ UNCHANGED <<streamDisp, sourceDisp, stopped, closed, metadata, infoframe,
                   tableVars, remuxVars, call, using, sources, historyVars>>

StreamClose ==
    /\ streamMtx = Nobody
    /\ Begin("stop", "removetrack", NoSource,
             [i \in DOMAIN stream.tracks |-> stream.tracks[i].track])
    /\ streamMtx' = Publisher
    /\ UNCHANGED <<streamDisp, sourceDisp, streamVars, tableVars, remuxVars, call,
                   using, sources, historyVars>>

\* Each track is stopped, then its REMOVETRACK dispatched.
StreamStopTrack ==
    /\ dispatch.pc = "stop" /\ dispatch.closing # <<>>
    /\ LET x == Head(dispatch.closing)
       IN /\ stream' = StopTrack(stream, x)
          /\ stopped' = stopped \cup {x}
          /\ dispatch' = [dispatch EXCEPT !.pc = "lock", !.track = x, !.closing = Tail(@)]
    /\ UNCHANGED <<lockVars, closed, metadata, infoframe, tableVars, remuxVars, call,
                   using, boundVars, historyVars>>

StreamClosed ==
    /\ dispatch.pc = "stop" /\ dispatch.closing = <<>>
    /\ stream' = Close(stream)
    /\ closed' = TRUE
    /\ streamMtx' = Nobody
    /\ dispatch' = Quiet
    /\ UNCHANGED <<streamDisp, sourceDisp, stopped, metadata, infoframe, tableVars,
                   remuxVars, call, using, boundVars, historyVars>>

\* The demuxer sets the data frame, then dispatches it.
StreamData ==
    /\ Begin("lock", "packet", NoSource, <<>>)
    /\ metadata' = TRUE
    /\ UNCHANGED <<lockVars, stream, stopped, closed, infoframe, tableVars, remuxVars,
                   call, using, sources, historyVars>>

StreamEnds(e) ==
    /\ Begin("lock", e, NoSource, <<>>)
    /\ UNCHANGED <<lockVars, streamVars, tableVars, remuxVars, call, using, sources,
                   historyVars>>

-----------------------------------------------------------------------------
(* The dispatch on the stream: its listeners run in any order.             *)

\* A remuxer in Source that has read the tracks, and does not listen yet.
Holding(r) == At(r, "attach") \/ At(r, "sink") \/ At(r, "listen")

\* What AddTrack, RemoveTrack, or a dispatch alone, goes on to when all
\* listeners ran; Close goes on with the next track.
Dispatched ==
    IF dispatch.track \in stopped
    THEN dispatch' = [dispatch EXCEPT !.pc = "stop"] /\ UNCHANGED streamMtx
    ELSE dispatch' = Quiet /\ streamMtx' = Nobody

\* Without listeners the dispatch is over at once.
StreamLock ==
    /\ dispatch.pc = "lock"
    /\ streamDisp = Nobody
    /\ IF listeners[dispatch.event] = {} THEN Dispatched /\ UNCHANGED streamDisp
       ELSE /\ streamDisp' = Publisher
            /\ dispatch' = [dispatch EXCEPT !.pc = "run", !.todo = listeners[dispatch.event]]
            /\ UNCHANGED streamMtx
    /\ raced' = IF dispatch.event # "addtrack" THEN raced
                ELSE [r \in Remuxers |->
                        IF Holding(r) /\ r \notin listeners["addtrack"]
                        THEN raced[r] \cup {dispatch.track} ELSE raced[r]]
    /\ UNCHANGED <<sourceDisp, streamVars, tableVars, remuxVars, call, using, boundVars,
                   ids, tag, heard, keyed, started, rebased, blind, unheard, panics>>

Running(e, r) ==
    /\ dispatch.pc = "run" /\ dispatch.event = e
    /\ At(Publisher, "idle") /\ dispatch.adding = Nobody
    /\ r \in dispatch.todo

Ran(r) == [dispatch EXCEPT !.todo = @ \ {r}]

\* onAddTrack: a clone, then the listener on its source, whose info frame is
\* not sent.
OnAddTrack(r) ==
    /\ Running("addtrack", r)
    /\ LET x == dispatch.track
       IN IF Wants(r, x) /\ Attached(own[r], x) = {}
          THEN /\ own' = [own EXCEPT ![r] = NewTrack(@, x, x)]
               /\ dispatch' = [Ran(r) EXCEPT !.adding = r]
               /\ unheard' = [unheard EXCEPT ![r] = @ \cup (infoframe \cap {x})]
          ELSE UNCHANGED <<own, unheard>> /\ dispatch' = Ran(r)
    /\ UNCHANGED <<lockVars, streamVars, tableVars, readyState, source, timeBase, mtx,
                   call, using, boundVars, ids, tag, heard, keyed, started, rebased,
                   blind, raced, panics>>

OnAddTrackSink ==
    LET r == dispatch.adding
        x == dispatch.track
    IN /\ r # Nobody
       /\ sourceDisp[x] = Nobody
       /\ sinks' = [sinks EXCEPT ![x] = @ \cup {r}]
       /\ raced' = IF readyState[r] = "inactive" THEN [raced EXCEPT ![r] = @ \cup {x}]
                                                 ELSE raced
       /\ dispatch' = [dispatch EXCEPT !.adding = Nobody]
       /\ UNCHANGED <<lockVars, streamVars, listeners, remuxVars, call, using,
                      boundVars, ids, tag, heard, keyed, started, rebased, blind,
                      unheard, panics>>

\* A stopped track has no source, and is not found among the clones.
Removed == IF dispatch.track \in stopped THEN NoSource ELSE dispatch.track

OnRemoveTrack(r) ==
    /\ Running("removetrack", r)
    /\ LET clones == Attached(own[r], Removed)
       IN IF clones = {} THEN UNCHANGED <<own, sinks>>
          ELSE /\ Removed # NoSource
               /\ sinks' = [sinks EXCEPT ![Removed] = @ \ {r}]
               /\ own' = [own EXCEPT ![r] = RemoveTrack(@, First(clones))]
    /\ dispatch' = Ran(r)
    /\ UNCHANGED <<lockVars, streamVars, listeners, readyState, source, timeBase, mtx,
                   call, using, boundVars, historyVars>>

\* A clone without a source is found: its nil source panics, and the other
\* listeners are not told.
OnRemoveTrackPanic(r) ==
    /\ Running("removetrack", r)
    /\ Removed = NoSource /\ Attached(own[r], NoSource) # {}
    /\ dispatch' = [dispatch EXCEPT !.todo = {}]
    /\ panics' = panics \cup {r}
    /\ UNCHANGED <<lockVars, streamVars, tableVars, remuxVars, call, using, boundVars,
                   ids, tag, heard, keyed, started, rebased, blind, unheard, raced>>

\* onDataPacket: SetDataFrame copies Information and with it a TimeBase of 0.
OnData(r) ==
    /\ Running("packet", r)
    /\ source[r]
    /\ timeBase' = [timeBase EXCEPT ![r] = 0]
    /\ rebased' = Rebased(r)
    /\ dispatch' = Ran(r)
    /\ UNCHANGED <<lockVars, streamVars, tableVars, own, readyState, source, mtx, call,
                   using, boundVars, ids, tag, heard, keyed, started, blind, unheard,
                   raced, panics>>

\* onError and onClose: Close, in this goroutine.
OnEnd(r) ==
    /\ Running("error", r) \/ Running("close", r)
    /\ dispatch' = Ran(r)
    /\ BeginClose(Publisher, r)
    /\ UNCHANGED <<lockVars, streamVars, tableVars, remuxVars, using, boundVars,
                   historyVars>>

StreamUnlock ==
    /\ dispatch.pc = "run" /\ dispatch.todo = {} /\ dispatch.adding = Nobody
    /\ At(Publisher, "idle")
    /\ streamDisp' = Nobody
    /\ Dispatched
    /\ UNCHANGED <<sourceDisp, streamVars, tableVars, remuxVars, call, using, boundVars,
                   historyVars>>

-----------------------------------------------------------------------------
(* Packets of the sources.                                                 *)

Types(x) == IF Kind[x] = "video" THEN {"header", "key", "inter"} ELSE {"header", "raw"}

\* A header is parsed, hence the info frame, before the packet is sunk.
\* Audio may be a little older than the video that was sunk before it.
SinkPacket(x, type, pts) ==
    /\ PublisherIdle
    /\ acts < MaxActs /\ acts' = acts + 1
    /\ Holds(stream, x) /\ sourceDisp[x] = Nobody
    /\ pts \in IF Kind[x] = "audio" THEN {acts - 1, acts + 1} ELSE {acts + 1}
    /\ IF sinks[x] = {} THEN UNCHANGED <<sourceDisp, dispatch>>
       ELSE /\ sourceDisp' = [sourceDisp EXCEPT ![x] = Publisher]
            /\ dispatch' = [Quiet EXCEPT !.pc = "packet", !.track = x, !.todo = sinks[x],
                                         !.packet = type, !.pts = pts]
    /\ IF type = "header"
       THEN /\ infoframe' = infoframe \cup {x}
            /\ unheard' = [r \in Remuxers |->
                             IF Holds(own[r], x) /\ r \notin sinks[x]
                             THEN unheard[r] \cup {x} ELSE unheard[r]]
       ELSE UNCHANGED <<infoframe, unheard>>
    /\ UNCHANGED <<streamMtx, streamDisp, stream, stopped, closed, metadata, tableVars,
                   remuxVars, call, using, sources, ids, tag, heard, keyed, started,
                   rebased, blind, raced, panics>>

Taking(r) == dispatch.pc = "packet" /\ r \in dispatch.todo

\* The first track of the packet's kind, whichever source the packet is of.
Chosen(r) == OfKind(own[r], Kind[dispatch.track])
FirstSource(r) == own[r].tracks[First(Chosen(r))].source

\* Mutation: any video packet starts the pumping.
KeyframeAny == Kind[dispatch.track] = "video"

\* FLV gives a sequence header the frame type of a keyframe.
Keyframe == Kind[dispatch.track] = "video" /\ dispatch.packet \in {"key", "header"}

\* A keyframe starts the pumping before the source is looked at.
Starts(r) == Keyframe /\ readyState[r] = "waiting" /\ Chosen(r) # {}

Pump(r) ==
    /\ readyState' = [readyState EXCEPT ![r] = IF Starts(r) THEN "pumping" ELSE @]
    /\ timeBase' = [timeBase EXCEPT ![r] = IF Starts(r) THEN dispatch.pts ELSE @]
    /\ started' = [started EXCEPT ![r] = IF Starts(r) THEN dispatch.pts ELSE @]

\* There is no such track, or it has no source: the panic is recovered by the
\* dispatcher, and the other listeners of the source do not get the packet.
Panics(r) == Chosen(r) # {} => FirstSource(r) = NoSource

OnPacketPanic(r) ==
    /\ Taking(r) /\ Panics(r)
    /\ Pump(r)
    /\ blind' = IF Starts(r) THEN blind \cup {r} ELSE blind
    /\ unheard' = IF dispatch.packet # "header" THEN unheard
                  ELSE [q \in Remuxers |-> IF q \in dispatch.todo
                                           THEN unheard[q] \cup {dispatch.track}
                                           ELSE unheard[q]]
    /\ dispatch' = [dispatch EXCEPT !.todo = {}]
    /\ panics' = panics \cup {r}
    /\ UNCHANGED <<lockVars, streamVars, tableVars, own, source, mtx, call, using,
                   boundVars, ids, tag, heard, keyed, rebased, raced>>

\* The packet is dropped before the pumping, and interframes by who takes
\* keyframes only.
Taken(r) ==
    /\ FirstSource(r) \in infoframe
    /\ readyState'[r] = "pumping"
    /\ "keyframe" \in Mode[r] /\ Kind[dispatch.track] = "video" => Keyframe

OnPacket(r) ==
    LET x == dispatch.track
        type == dispatch.packet
    IN /\ Taking(r) /\ ~Panics(r)
       /\ Pump(r)
       /\ IF Taken(r)
          THEN /\ tag' = [tag EXCEPT ![r] = format(x, FirstSource(r), type, dispatch.pts,
                                                   timeBase'[r])]
               /\ heard' = IF type = "header" THEN [heard EXCEPT ![r] = @ \cup {x}] ELSE heard
               /\ keyed' = IF Kind[x] = "video" /\ type # "inter" THEN keyed \cup {r} ELSE keyed
               /\ UNCHANGED <<blind, unheard>>
          ELSE /\ unheard' = IF type = "header" THEN [unheard EXCEPT ![r] = @ \cup {x}]
                                                ELSE unheard
               /\ blind' = IF Starts(r) THEN blind \cup {r} ELSE blind
               /\ UNCHANGED <<tag, heard, keyed>>
       /\ dispatch' = Ran(r)
       /\ UNCHANGED <<lockVars, streamVars, tableVars, own, source, mtx, call, using,
                      boundVars, ids, rebased, raced, panics>>

SourceUnlock ==
    /\ dispatch.pc = "packet" /\ dispatch.todo = {}
    /\ sourceDisp' = [sourceDisp EXCEPT ![dispatch.track] = Nobody]
    /\ dispatch' = Quiet
    /\ tag' = [r \in Remuxers |-> NoTag]
    /\ UNCHANGED <<streamMtx, streamDisp, streamVars, tableVars, remuxVars, call, using,
                   boundVars, ids, heard, keyed, started, rebased, blind, unheard,
                   raced, panics>>

-----------------------------------------------------------------------------
(* The specification.                                                      *)

SourceSteps(r) ==
    \/ SourceMetadata(r) \/ SourceTracks(r) \/ SourceAttach(r)
    \/ SourceAttachStopped(r) \/ SourceSink(r) \/ SourceListen(r)

DispatchSteps ==
    \/ StreamStopTrack \/ StreamClosed \/ StreamLock \/ OnAddTrackSink
    \/ StreamUnlock \/ SourceUnlock
    \/ \E r \in Remuxers : \/ OnAddTrack(r) \/ OnRemoveTrack(r) \/ OnRemoveTrackPanic(r)
                           \/ OnData(r) \/ OnEnd(r) \/ OnPacketPanic(r) \/ OnPacket(r)

Calls ==
    \/ \E r \in Remuxers : Source(r) \/ CallClose(r)
    \/ \E x \in Tracks : StreamAddTrack(x) \/ StreamRemoveTrack(x)
    \/ \E e \in {"error", "close"} : StreamEnds(e)
    \/ StreamClose \/ StreamData
    \/ \E x \in Tracks : \E type \in Types(x) : \E pts \in 1 .. MaxActs :
         SinkPacket(x, type, pts)

Next ==
    \/ Calls \/ DispatchSteps
    \/ \E r \in Remuxers : SourceSteps(r)
    \/ \E t \in Threads : CloseSteps(t)

\* What a goroutine goes on with.
Steps(t) ==
    \/ CloseSteps(t)
    \/ t \in Remuxers /\ SourceSteps(t)
    \/ t = Publisher /\ DispatchSteps

Spec == Init /\ [][Next]_vars

-----------------------------------------------------------------------------
(* Properties.                                                             *)

Tag == [track : Tracks, first : Tracks, type : {"header", "key", "inter", "raw"}, pts : Nat,
        ts : 0 .. Modulus - 1]

Call ==
    [pc : {"idle", "metadata", "tracks", "attach", "sink", "listen", "lock", "unsink",
           "unlisten"},
     remuxer : Remuxers \cup {Nobody},
     left : Seq(Tracks \cup {NoSource} \cup ToSet(StreamEvents))]

Dispatch ==
    [pc : {"idle", "lock", "run", "stop", "packet"},
     event : ToSet(StreamEvents) \cup {"none"}, track : Tracks \cup {NoSource},
     todo : SUBSET Remuxers, adding : Remuxers \cup {Nobody}, closing : Seq(Tracks),
     packet : {"none", "header", "key", "inter", "raw"}, pts : Nat]

\* Every variable has its type.
TypeOK ==
    /\ stream \in MediaStreams /\ own \in [Remuxers -> MediaStreams]
    /\ stopped \subseteq Tracks /\ infoframe \subseteq Tracks
    /\ closed \in BOOLEAN /\ metadata \in BOOLEAN
    /\ ids \in [Tracks -> Nat]
    /\ streamMtx \in {Publisher, Nobody} /\ streamDisp \in {Publisher, Nobody}
    /\ sourceDisp \in [Tracks -> {Publisher, Nobody}]
    /\ mtx \in [Remuxers -> Threads \cup {Nobody}]
    /\ listeners \in [ToSet(StreamEvents) -> SUBSET Remuxers]
    /\ sinks \in [Tracks -> SUBSET Remuxers]
    /\ readyState \in [Remuxers -> {"inactive", "waiting", "pumping"}]
    /\ source \in [Remuxers -> BOOLEAN] /\ timeBase \in [Remuxers -> Nat]
    /\ call \in [Threads -> Call] /\ dispatch \in Dispatch
    /\ using \subseteq Remuxers
    /\ sources \in [Remuxers -> Nat] /\ acts \in Nat
    /\ tag \in [Remuxers -> Tag \cup {NoTag}]
    /\ heard \in [Remuxers -> SUBSET Tracks] /\ unheard \in [Remuxers -> SUBSET Tracks]
    /\ keyed \subseteq Remuxers /\ rebased \subseteq Remuxers /\ blind \subseteq Remuxers
    /\ started \in [Remuxers -> Nat]
    /\ raced \in [Remuxers -> SUBSET Tracks] /\ panics \subseteq Remuxers

\* As long as the stream is not closed, no two tracks of it are ever given the
\* same id; and none is given zero, nor do the tracks a stream holds,
\* or the clones of a remuxer, share an id at any time.
TrackIdsNeverReused ==
    /\ ~closed => \A x, y \in Tracks : ids[x] = ids[y] /\ ids[x] # 0 => x = y
    /\ \A i, j \in DOMAIN stream.tracks : stream.tracks[i].id = stream.tracks[j].id => i = j
    /\ \A entry \in Entries(stream) : entry.id = ids[entry.track] /\ entry.id # 0
    /\ \A r \in Remuxers : \A i, j \in DOMAIN own[r].tracks :
          own[r].tracks[i].id = own[r].tracks[j].id => i = j

\* Source panicked on a stopped track, whose clone stays.
Crippled(r) == \E entry \in Entries(own[r]) : entry.source = NoSource

\* What a player that joins at any time gets can be decoded: no interframe
\* comes before a keyframe, or the sequence header the code takes for one,
\* unless the keyframe that started the pumping was dropped, and none at all
\* to a player of keyframes; no frame comes before the header of its track, if
\* that is the first of its kind, unless the header was sunk before the remuxer
\* listened to the source or pumped (onVideoPacket, onAudioPacket, Source).
StreamIsDecodable ==
    \A r \in Remuxers :
        /\ tag[r].type = "inter" => r \in keyed \cup blind /\ "keyframe" \notin Mode[r]
        /\ ~Crippled(r) /\ tag[r] # NoTag /\ tag[r].first = tag[r].track
           => tag[r].track \in heard[r] \cup unheard[r]

\* Frames are stamped relative to the packet that started the pumping.  Audio
\* older than that wraps; metadata that arrives later breaks it.
StampedFromStart ==
    \A r \in Remuxers \ rebased :
        LET t == tag[r]
        IN t # NoTag =>
             \/ t.pts >= started[r] /\ t.ts = t.pts - started[r]
             \/ /\ t.pts < started[r] /\ Kind[t.track] = "audio"
                /\ t.ts = Modulus - (started[r] - t.pts)

\* A remuxer whose player has returned from Source listens to every source
\* it wants of the stream, unless the track was added while Source ran.
AttachedToEveryTrack ==
    \A r \in using :
        /\ At(r, "idle") /\ PublisherIdle /\ readyState[r] # "inactive"
        /\ ~Crippled(r)
        => \A entry \in Entries(stream) :
             Wants(r, entry.track) =>
                 r \in sinks[entry.track] \/ entry.track \in raced[r]

\* A remuxer that was closed is registered nowhere, unless a track was added
\* while Close ran or Source met a track that had been stopped.
DetachedWhenClosed ==
    \A r \in Remuxers :
        /\ ~Crippled(r)
        /\ \A t \in Threads : call[t].remuxer # r
        /\ readyState[r] = "inactive"
        => /\ \A e \in ToSet(StreamEvents) : r \notin listeners[e]
           /\ \A x \in Tracks : r \in sinks[x] => x \in raced[r]

\* A remuxer that breaks the delivery of a packet to the other players is one
\* that was closed while a track was added, or lost to a stopped track.
PanicsOnlyAfterRace == \A r \in panics : raced[r] # {}

\* The player of r is in Close, or registers its last listener in Source,
\* while the publisher, dispatching ERROR or CLOSE, closes r as well: each
\* waits for the lock of the other.
Embrace(r) ==
    /\ At(r, "unlisten") \/ At(r, "listen")
    /\ call[r].left # <<>>
    /\ At(Publisher, "lock") /\ call[Publisher].remuxer = r

\* As long as Source, Close or a dispatch is in progress, some goroutine can
\* take a step, unless the publisher ends the stream while the player of a
\* remuxer attaches or closes it, and both block for ever.  Calls being finite,
\* they return.
CallsGoOn ==
    \/ PublisherIdle /\ \A r \in Remuxers : At(r, "idle")
    \/ \E t \in Threads : ENABLED Steps(t)
    \/ \E r \in Remuxers : Embrace(r)
=============================================================================
