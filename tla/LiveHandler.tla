---------------------------- MODULE LiveHandler -----------------------------
(***************************************************************************)
(* LiveHandler.onPublish, onPlay, onSeek, onPause and onCloseStream for    *)
(* several clients of one stream name.  Each client is a NetStream on a    *)
(* connection of its own, whose goroutine runs the handlers; a handler     *)
(* that waits for the notification service, for the peer or for the proxy  *)
(* is interleaved with those of the other clients and with a Close of its  *)
(* connection by another goroutine.                                        *)
(*                                                                         *)
(* NetStream, Stream, Proxy and the notification service are not part of   *)
(* the repository.  What is assumed of them is said at each definition     *)
(* that stands for them.  The URLs to notify are all enabled.              *)
(***************************************************************************)
EXTENDS Integers, FiniteSets

CONSTANTS
    Clients,
    ProxyEnabled,   \* cfg.Proxy.Enable
    Recording,      \* cfg.DVRs has an entry that records
    MaxCommands     \* bound: publish and play commands of each client

ASSUME LiveAssumption ==
    ProxyEnabled \in BOOLEAN /\ Recording \in BOOLEAN /\ MaxCommands \in Nat

VARIABLES
    conn,           \* readyState of each connection
    peer,           \* whether the client is still there
    pc,             \* the next step of the handler in progress, or "idle"
    readyState,     \* of each NetStream
    feeding,        \* what sinks media into the stream
    watching,       \* the clients sourced from it
    seekable,       \* the clients with listeners for SEEK and PAUSE
    recorders,      \* the publishers whose recorder is listened to
    pulling,        \* the players whose proxy has not delivered yet
    commands,       \* commands received (for MaxCommands)
    begun,          \* history: notifications accepted whose end was not accepted
    unended,        \* history: clients the notification of whose end failed
    unsent,         \* history: clients refused after such a notification
    both,           \* history: clients that publish and play on one NetStream
    blind,          \* history: feeds that were decided on at the same time
    overtaken       \* history: clients closed by another in the middle of a handler

flow == <<feeding, watching, seekable, recorders, pulling>>
told == <<begun, unended, unsent, both, blind, overtaken>>
vars == <<conn, peer, pc, readyState, flow, commands, told>>

\* A client feeds the stream as a publisher, or by the proxy it plays from.
Publisher(c) == <<"publisher", c>>
Pull(c) == <<"pull", c>>

\* stream.readyState & STREAM_PUBLISHING: something feeds the stream.
Publishing == feeding # {}

\* Feeds whose check of STREAM_PUBLISHING is behind them.
Deciding == {Publisher(c) : c \in {d \in Clients : pc[d] \in {"publish notify", "publish start", "publish sink"}}}
            \cup {Pull(c) : c \in pulling}

Decide(f) == blind' = blind \cup {{f, g} : g \in Deciding}

TypeOK ==
    /\ conn \in [Clients -> {"open", "closing", "closed"}]
    /\ peer \in [Clients -> BOOLEAN]
    /\ pc \in [Clients -> {"idle", "publish notify", "publish start", "publish sink", "publish record",
                           "play notify", "play begin", "play reset", "play start", "play source", "play proxy"}]
    /\ readyState \in [Clients -> {"init", "publishing", "playing"}]
    /\ feeding \subseteq {"publisher", "pull"} \X Clients
    /\ watching \subseteq Clients /\ seekable \subseteq Clients
    /\ recorders \subseteq Clients /\ pulling \subseteq Clients
    /\ commands \in [Clients -> 0..MaxCommands]
    /\ begun \in [Clients -> SUBSET {"publish", "play"}]
    /\ unended \subseteq Clients /\ unsent \subseteq Clients /\ both \subseteq Clients /\ overtaken \subseteq Clients

Init ==
    /\ conn = [c \in Clients |-> "open"]
    /\ peer = [c \in Clients |-> TRUE]
    /\ pc = [c \in Clients |-> "idle"]
    /\ readyState = [c \in Clients |-> "init"]
    /\ feeding = {} /\ watching = {} /\ seekable = {} /\ recorders = {} /\ pulling = {}
    /\ commands = [c \in Clients |-> 0]
    /\ begun = [c \in Clients |-> {}]
    /\ unended = {} /\ unsent = {} /\ both = {} /\ blind = {} /\ overtaken = {}

-----------------------------------------------------------------------------
(* Closing.                                                                *)

\* Mutation: the two cases of the switch are the wrong way round.
OnCloseStreamSwapped(s) ==
    CASE s = "publishing" -> {"play"}
      [] s = "playing" -> {"publish"}
      [] OTHER -> {}

\* The notification that onCloseStream sends, by what it ends.  NetStream
\* dispatches CLOSE_STREAM as UNPUBLISHING or UNPLAYING; any other state is
\* "Bad state!" and sends nothing.
OnCloseStream(s) ==
    CASE s = "publishing" -> {"publish"}
      [] s = "playing" -> {"play"}
      [] OTHER -> {}

\* NetStream.Close: it dispatches CLOSE_STREAM and detaches from the stream.
\* A notification of the end that fails is logged and not tried again.
Detach(c) ==
    /\ LET ends == OnCloseStream(readyState[c])
       IN  \/ begun' = [begun EXCEPT ![c] = @ \ ends] /\ unended' = unended
           \/ ends # {} /\ begun' = begun /\ unended' = unended \cup {c}
    /\ readyState' = [readyState EXCEPT ![c] = "init"]
    /\ feeding' = feeding \ {Publisher(c)}
    /\ watching' = watching \ {c}
    /\ blind' = IF pc'[c] # "idle" /\ Publisher(c) \in Deciding
                THEN blind
                ELSE {b \in blind : Publisher(c) \notin b}

\* NetConnection.Close by the goroutine of the connection: nothing happens when
\* it is not connected any more.
Close(c) ==
    IF conn[c] = "open"
    THEN conn' = [conn EXCEPT ![c] = "closed"] /\ Detach(c)
    ELSE UNCHANGED <<conn, begun, unended, readyState, feeding, watching, blind>>

Go(c, step) == pc' = [pc EXCEPT ![c] = step]

\* SendStatus, SendUserControl and sendBytes: they fail on a closed connection,
\* and may fail when the peer is gone.
SendFails(c) == conn[c] = "closed" \/ ~peer[c]
SendWorks(c) == conn[c] # "closed"

\* A handler that cannot send its status closes the connection and returns.
GiveUp(c, event) ==
    /\ SendFails(c)
    /\ Go(c, "idle")
    /\ Close(c)
    /\ unsent' = IF event \in begun[c] THEN unsent \cup {c} ELSE unsent
    /\ UNCHANGED <<peer, seekable, recorders, pulling, commands, both, overtaken>>

-----------------------------------------------------------------------------
(* publish                                                                 *)

Receive(c) ==
    /\ pc[c] = "idle"
    /\ commands[c] < MaxCommands
    /\ commands' = [commands EXCEPT ![c] = @ + 1]

\* No stream (GetStream fails), or a stream that is fed already: an error
\* status and Close.
PublishRefused(c) ==
    /\ Receive(c)
    /\ UNCHANGED <<pc, peer, seekable, recorders, pulling, unsent, both, overtaken>>
    /\ Close(c)

\* Mutation: onPublish does not look whether the stream is published.
PublishUnchecked(c) ==
    /\ Receive(c)
    /\ Decide(Publisher(c))
    /\ Go(c, "publish notify")
    /\ UNCHANGED <<conn, peer, readyState, flow, begun, unended, unsent, both, overtaken>>

PublishAllowed(c) ==
    /\ Receive(c)
    /\ ~Publishing
    /\ Decide(Publisher(c))
    /\ Go(c, "publish notify")
    /\ UNCHANGED <<conn, peer, readyState, flow, begun, unended, unsent, both, overtaken>>

\* sendNotification: the service accepts, or the handler closes the NetStream
\* and leaves the connection open.
PublishAccepted(c) ==
    /\ pc[c] = "publish notify"
    /\ begun' = [begun EXCEPT ![c] = @ \cup {"publish"}]
    /\ Go(c, "publish start")
    /\ UNCHANGED <<conn, peer, readyState, flow, commands, unended, unsent, both, blind, overtaken>>

Denied(c, step) ==
    /\ pc[c] = step
    /\ Go(c, "idle")
    /\ Detach(c)
    /\ UNCHANGED <<conn, peer, seekable, recorders, pulling, commands, unsent, both, overtaken>>

\* Mutation: a status that cannot be sent is logged and forgotten.
PublishStartedAnyhow(c) ==
    /\ pc[c] = "publish start"
    /\ Go(c, "publish sink")
    /\ UNCHANGED <<conn, peer, readyState, flow, commands, told>>

PublishStarted(c) ==
    /\ pc[c] = "publish start"
    /\ \/ /\ SendWorks(c)
          /\ Go(c, "publish sink")
          /\ UNCHANGED <<conn, peer, readyState, flow, commands, told>>
       \/ GiveUp(c, "publish")

\* readyState := STREAM_PUBLISHING and NetStream.Sink.
SinkStream(c) ==
    /\ pc[c] = "publish sink"
    /\ both' = IF readyState[c] = "playing" THEN both \cup {c} ELSE both
    /\ readyState' = [readyState EXCEPT ![c] = "publishing"]
    /\ feeding' = feeding \cup {Publisher(c)}
    /\ Go(c, "publish record")
    /\ UNCHANGED <<conn, peer, watching, seekable, recorders, pulling, commands,
                   begun, unended, unsent, blind, overtaken>>

\* The recorders of cfg.DVRs are created, listened to and started.  Publishing
\* to the proxy does not change what is modelled here.
StartRecorders(c) ==
    /\ pc[c] = "publish record"
    /\ recorders' = IF Recording THEN recorders \cup {c} ELSE recorders
    /\ Go(c, "idle")
    /\ UNCHANGED <<conn, peer, readyState, feeding, watching, seekable, pulling, commands, told>>

\* A recorder stops, and onRecorderEvent removes its listeners.
OnRecorderStop(c) ==
    /\ c \in recorders
    /\ recorders' = recorders \ {c}
    /\ UNCHANGED <<conn, peer, pc, readyState, feeding, watching, seekable, pulling, commands, told>>

-----------------------------------------------------------------------------
(* play                                                                    *)

Play(c) ==
    /\ Receive(c)
    /\ Go(c, "play notify")
    /\ UNCHANGED <<conn, peer, readyState, flow, told>>

PlayAccepted(c) ==
    /\ pc[c] = "play notify"
    /\ begun' = [begun EXCEPT ![c] = @ \cup {"play"}]
    /\ Go(c, "play begin")
    /\ UNCHANGED <<conn, peer, readyState, flow, commands, unended, unsent, both, blind, overtaken>>

\* GetStream fails: an error status and Close.
NoStreamToPlay(c) ==
    /\ pc[c] = "play begin"
    /\ Go(c, "idle")
    /\ Close(c)
    /\ unsent' = unsent \cup {c}
    /\ UNCHANGED <<peer, seekable, recorders, pulling, commands, both, overtaken>>

\* STREAM_BEGIN, PLAY_RESET if the command says so, PLAY_START.
PlaySends(c, step, next) ==
    /\ pc[c] = step
    /\ \/ /\ SendWorks(c)
          /\ Go(c, next)
          /\ UNCHANGED <<conn, peer, readyState, flow, commands, told>>
       \/ GiveUp(c, "play")

PlayStatus(c) ==
    \/ PlaySends(c, "play begin", "play reset")
    \/ PlaySends(c, "play begin", "play start")
    \/ PlaySends(c, "play reset", "play start")
    \/ PlaySends(c, "play start", "play source")

\* The listeners for SEEK and PAUSE, and NetStream.Source, which is taken to
\* put the NetStream into STREAM_PLAYING.
SourceStream(c) ==
    /\ pc[c] = "play source"
    /\ both' = IF readyState[c] = "publishing" THEN both \cup {c} ELSE both
    /\ readyState' = [readyState EXCEPT ![c] = "playing"]
    /\ watching' = watching \cup {c}
    /\ seekable' = seekable \cup {c}
    /\ Go(c, "play proxy")
    /\ UNCHANGED <<conn, peer, feeding, recorders, pulling, commands, begun, unended, unsent, blind, overtaken>>

\* A stream nobody publishes is played from the proxy; a proxy that fails is
\* closed after an error status, and the player stays attached.
PlayFromProxy(c) ==
    /\ pc[c] = "play proxy"
    /\ Go(c, "idle")
    /\ \/ /\ ProxyEnabled /\ ~Publishing
          /\ pulling' = pulling \cup {c}
          /\ Decide(Pull(c))
       \/ UNCHANGED <<pulling, blind>>
    /\ UNCHANGED <<conn, peer, readyState, feeding, watching, seekable, recorders, commands,
                   begun, unended, unsent, both, overtaken>>

\* onSeek and onPause refuse; when the refusal cannot be sent they close.
Refuse(c) ==
    /\ pc[c] = "idle" /\ c \in seekable
    /\ SendFails(c)
    /\ UNCHANGED <<pc, peer, seekable, recorders, pulling, commands, unsent, both, overtaken>>
    /\ Close(c)

-----------------------------------------------------------------------------
(* The environment.                                                        *)

\* The client sends closeStream or deleteStream, which may have been read
\* together with what closed the connection: NetStream closes itself.
CloseStream(c) ==
    /\ pc[c] = "idle" /\ readyState[c] # "init"
    /\ UNCHANGED <<conn, peer, pc, seekable, recorders, pulling, commands, unsent, both, overtaken>>
    /\ Detach(c)

PeerLeaves(c) ==
    /\ peer[c]
    /\ peer' = [peer EXCEPT ![c] = FALSE]
    /\ UNCHANGED <<conn, pc, readyState, flow, commands, told>>

\* Close by another goroutine, or by the reading one when the peer is gone.
\* NetStream.Close dispatches CLOSE_STREAM: it waits for the handler in
\* progress if that holds the dispatcher, or is through before it.
OtherCloses(c) ==
    /\ conn[c] = "open"
    /\ \/ /\ pc[c] # "idle"
          /\ conn' = [conn EXCEPT ![c] = "closing"]
          /\ UNCHANGED <<pc, begun, unended, readyState, feeding, watching, blind, overtaken>>
       \/ /\ conn' = [conn EXCEPT ![c] = "closed"]
          /\ UNCHANGED pc
          /\ Detach(c)
          /\ overtaken' = IF pc[c] # "idle" THEN overtaken \cup {c} ELSE overtaken
    /\ UNCHANGED <<peer, seekable, recorders, pulling, commands, unsent, both>>

OtherClosed(c) ==
    /\ conn[c] = "closing" /\ pc[c] = "idle"
    /\ conn' = [conn EXCEPT ![c] = "closed"]
    /\ UNCHANGED <<peer, pc, seekable, recorders, pulling, commands, unsent, both, overtaken>>
    /\ Detach(c)

\* The proxy of a player delivers, or fails, or ends.
PullArrives(c) ==
    /\ c \in pulling
    /\ pulling' = pulling \ {c}
    /\ feeding' = feeding \cup {Pull(c)}
    /\ UNCHANGED <<conn, peer, pc, readyState, watching, seekable, recorders, commands, told>>

PullEnds(c) ==
    /\ c \in pulling \/ Pull(c) \in feeding
    /\ pulling' = pulling \ {c}
    /\ feeding' = feeding \ {Pull(c)}
    /\ blind' = {b \in blind : Pull(c) \notin b}
    /\ UNCHANGED <<conn, peer, pc, readyState, watching, seekable, recorders, commands,
                   begun, unended, unsent, both, overtaken>>

Publish(c) ==
    \/ PublishRefused(c) \/ PublishAllowed(c) \/ PublishAccepted(c)
    \/ Denied(c, "publish notify") \/ PublishStarted(c) \/ SinkStream(c) \/ StartRecorders(c)

PlayCommand(c) ==
    \/ Play(c) \/ PlayAccepted(c) \/ Denied(c, "play notify") \/ NoStreamToPlay(c)
    \/ PlayStatus(c) \/ SourceStream(c) \/ PlayFromProxy(c)

Next == \E c \in Clients :
    \/ Publish(c) \/ PlayCommand(c) \/ Refuse(c) \/ OnRecorderStop(c)
    \/ CloseStream(c) \/ PeerLeaves(c) \/ OtherCloses(c) \/ OtherClosed(c)
    \/ PullArrives(c) \/ PullEnds(c)

Spec == Init /\ [][Next]_vars

-----------------------------------------------------------------------------
(* Properties.                                                             *)

\* Two feeds share a stream only if both had passed the check of
\* STREAM_PUBLISHING before either was attached; onPublish and onPlay never
\* add a feed to one that is there (onPublish checks, waits for the
\* notification and the status, and only then sinks).
OneFeedUnlessBlind ==
    \A f, g \in feeding : f # g => {f, g} \in blind

\* A connection that is closed neither feeds nor watches the stream, unless
\* another goroutine closed it in the middle of a handler: every way out of
\* onPublish and onPlay after a failure leaves the client detached.
NoGhosts ==
    \A c \in Clients \ overtaken :
        conn[c] = "closed" => Publisher(c) \notin feeding /\ c \notin watching

\* A publish or play that the notification service accepted is reported as
\* ended when the stream closes, whoever closes it: while no handler is in
\* progress it belongs to a NetStream that is publishing or playing, on a
\* connection whose Close is still to come.  Not so for a client refused after
\* its notification, one that published and played on one NetStream
\* (onCloseStream reports only the last), one whose connection another
\* goroutine closed in the middle of a handler (its NetStream was not yet
\* publishing, and is not closed again), and one whose report failed.
EveryBeginIsEnded ==
    \A c \in Clients \ (unsent \cup both \cup overtaken \cup unended) :
        pc[c] = "idle" =>
            /\ "publish" \in begun[c] => readyState[c] = "publishing"
            /\ "play" \in begun[c] => readyState[c] = "playing"
            /\ begun[c] # {} => conn[c] # "closed"
=============================================================================
