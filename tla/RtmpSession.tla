----------------------------- MODULE RtmpSession -----------------------------
(***************************************************************************)
(* The life of one RTMP connection of a server: the goroutine of           *)
(* NetConnection.serve reads and processes messages, LiveHandler answers   *)
(* the command events, Server accepts or rejects, and Close may be called  *)
(* by that goroutine, from within its own handlers, and by any other       *)
(* goroutine that holds the connection (Closers).                          *)
(*                                                                         *)
(* A Read may return several messages: those behind a "close" are still    *)
(* processed.  NetStream and Application are not part of the repository;   *)
(* a stream is a number here, and closing it is recorded.                  *)
(***************************************************************************)
EXTENDS Integers, FiniteSets

CONSTANTS
    Closers,        \* other goroutines that call Close, once each
    Reader,         \* the goroutine of serve
    MaxReceived,    \* bound: messages received
    NoOwner         \* nobody dispatches an event

Goroutines == Closers \cup {Reader}

ASSUME SessionAssumption ==
    /\ Reader \notin Closers /\ NoOwner \notin Goroutines
    /\ MaxReceived \in Nat

VARIABLES
    readyState,
    connOpen,       \* conn has not been closed at this end
    peer,           \* "there", or "gone": it has closed its end
    reader,         \* where serve is
    received,       \* messages received (for MaxReceived)
    buffered,       \* messages of the last Read not yet parsed
    served,         \* ServeRTMP has registered the listeners
    streams,        \* streams attached; they are numbered from 1
    control,        \* stream 0, the connection itself, is in the map too
    closing,        \* where each goroutine is in Close
    owner,          \* the goroutine that dispatches an event
    accepts,        \* history: times Accept was called
    announced,      \* history: CLOSE events dispatched
    closedStreams,  \* history: streams that have been closed
    late            \* history: streams attached to a connection not connected

reads == <<reader, received, buffered, served, streams, control, accepts, late>>
sessionVars == <<readyState, connOpen, peer, reads, closing, owner, announced, closedStreams>>

SessionInit ==
    /\ readyState = "initialized"
    /\ connOpen = TRUE
    /\ peer = "there"
    /\ reader = "handshake"
    /\ received = 0 /\ buffered = 0
    /\ served = FALSE
    /\ streams = {} /\ control = TRUE
    /\ closing = [t \in Goroutines |-> IF t = Reader THEN "no" ELSE "not yet"]
    /\ owner = NoOwner
    /\ accepts = 0 /\ announced = 0
    /\ closedStreams = {} /\ late = {}

-----------------------------------------------------------------------------
(* Close.  The reader calls it by going to a state of Calls, whence it     *)
(* proceeds when Close has returned.                                       *)

Calls == {"close in handler", "close in read", "close in serve", "close command"}
WantsClose(t) ==
    IF t = Reader THEN reader \in Calls /\ closing[t] = "no" ELSE closing[t] = "not yet"

Advance(t, step) == closing' = [closing EXCEPT ![t] = step]

\* Mutation: Close does nothing unless the connection is connected.
LoadStateConnectedOnly(t) ==
    /\ WantsClose(t)
    /\ Advance(t, IF readyState = "connected" THEN "mark" ELSE "done")
    /\ UNCHANGED <<readyState, connOpen, peer, reads, owner, announced, closedStreams>>

\* The switch on readyState.
LoadState(t) ==
    /\ WantsClose(t)
    /\ Advance(t, CASE readyState = "connected" -> "mark"
                    [] readyState = "initialized" -> "store"
                    [] OTHER -> "done")
    /\ UNCHANGED <<readyState, connOpen, peer, reads, owner, announced, closedStreams>>

\* Mutation: Close leaves the streams to themselves.
MarkClosingOnly(t) ==
    /\ closing[t] = "mark"
    /\ readyState' = "closing"
    /\ Advance(t, "conn")
    /\ UNCHANGED <<connOpen, peer, reads, owner, announced, closedStreams>>

MarkClosing(t) ==
    /\ closing[t] = "mark"
    /\ readyState' = "closing"
    /\ Advance(t, "streams")
    /\ UNCHANGED <<connOpen, peer, reads, owner, announced, closedStreams>>

CloseStreams(t) ==
    /\ closing[t] = "streams"
    /\ closedStreams' = closedStreams \cup streams
    /\ Advance(t, "conn")
    /\ UNCHANGED <<readyState, connOpen, peer, reads, owner, announced>>

CloseConn(t) ==
    /\ closing[t] = "conn"
    /\ connOpen' = FALSE
    /\ Advance(t, "event")
    /\ UNCHANGED <<readyState, peer, reads, owner, announced, closedStreams>>

\* DispatchEvent: at once in the goroutine that is dispatching already.
Announce(t) ==
    /\ closing[t] = "event"
    /\ owner \in {NoOwner, t}
    /\ announced' = announced + 1
    /\ Advance(t, "store")
    /\ UNCHANGED <<readyState, connOpen, peer, reads, owner, closedStreams>>

StoreClosed(t) ==
    /\ closing[t] = "store"
    /\ readyState' = "closed"
    /\ connOpen' = FALSE
    /\ Advance(t, "done")
    /\ UNCHANGED <<peer, reads, owner, announced, closedStreams>>

Closing(t) ==
    \/ LoadState(t) \/ MarkClosing(t) \/ CloseStreams(t)
    \/ CloseConn(t) \/ Announce(t) \/ StoreClosed(t)

-----------------------------------------------------------------------------
(* serve and read.                                                         *)

Outside == <<readyState, connOpen, peer, closing, owner, announced, closedStreams>>
Kept == <<received, buffered, served, streams, control, accepts, late>>

\* A write to a closed conn fails; one to a peer that has left may.
WriteFails == ~connOpen \/ peer = "gone"
WriteWorks == connOpen

Handshake ==
    /\ reader = "handshake"
    /\ \/ connOpen /\ peer = "there" /\ reader' = "read"
       \/ reader' = "close in serve"
    /\ UNCHANGED <<Kept, Outside>>

\* Read returns some messages, or fails.
ReadMessages ==
    /\ reader = "read" /\ connOpen /\ peer = "there"
    /\ \E k \in 1..2 :
         /\ received + k <= MaxReceived
         /\ received' = received + k
         /\ buffered' = k
    /\ reader' = "parse"
    /\ UNCHANGED <<served, streams, control, accepts, late, Outside>>

\* Mutation: a failed Read is tried again.
ReadFailsRetries ==
    /\ reader = "read" /\ (~connOpen \/ peer = "gone")
    /\ reader' = "read"
    /\ UNCHANGED <<Kept, Outside>>

ReadFails ==
    /\ reader = "read" /\ (~connOpen \/ peer = "gone")
    /\ reader' = "close in read"
    /\ UNCHANGED <<Kept, Outside>>

ParsedAll ==
    /\ reader = "parse" /\ buffered = 0
    /\ reader' = "read"
    /\ UNCHANGED <<Kept, Outside>>

\* The deferred Close of read, then that of serve.
Returned ==
    /\ reader \in Calls /\ closing[Reader] = "done"
    /\ closing' = [closing EXCEPT ![Reader] = "no"]
    /\ reader' = CASE reader = "close in read" -> "close in serve"
                   [] reader = "close in serve" -> "ended"
                   [] OTHER -> "parse"
    /\ owner' = IF owner = Reader THEN NoOwner ELSE owner
    /\ UNCHANGED <<Kept, readyState, connOpen, peer, announced, closedStreams>>

-----------------------------------------------------------------------------
(* Messages.                                                               *)

\* Commands are messages of stream 0.
Take == reader = "parse" /\ control /\ buffered > 0 /\ buffered' = buffered - 1

NoControlStream ==
    /\ reader = "parse" /\ ~control /\ buffered > 0
    /\ reader' = "close in read"
    /\ UNCHANGED <<Kept, Outside>>

\* Messages without effect on the connection, and those that fail to parse.
OtherMessage ==
    /\ Take
    /\ reader' \in {"parse", "close in read"}
    /\ UNCHANGED <<received, served, streams, control, accepts, late, Outside>>

\* Mutation: a connection that is connected may connect again.
ConnectCommandAgain ==
    /\ Take
    /\ owner = NoOwner
    /\ \E routed \in BOOLEAN :
         /\ served' = (served \/ routed)
         /\ reader' = IF served' THEN "onConnect" ELSE "parse"
         /\ owner' = IF served' THEN Reader ELSE owner
    /\ UNCHANGED <<received, streams, control, accepts, late, readyState, connOpen, peer,
                   closing, announced, closedStreams>>

\* processCommandConnect: refused when connected; the handler of the URL, if
\* any, registers its listeners before the event is dispatched.
ConnectCommand ==
    /\ Take
    /\ \/ readyState = "connected" /\ reader' = "close in read" /\ UNCHANGED <<served, owner>>
       \/ /\ readyState # "connected"
          /\ owner = NoOwner
          /\ \E routed \in BOOLEAN :
               /\ served' = (served \/ routed)
               /\ reader' = IF served' THEN "onConnect" ELSE "parse"
               /\ owner' = IF served' THEN Reader ELSE owner
    /\ UNCHANGED <<received, streams, control, accepts, late, readyState, connOpen, peer,
                   closing, announced, closedStreams>>

\* The notification of onConnect is refused: Server.Reject replies and closes.
Reject ==
    /\ reader = "onConnect"
    /\ reader' = "close in handler"
    /\ UNCHANGED <<Kept, Outside>>

\* Server.Accept.
Accept ==
    /\ reader = "onConnect"
    /\ readyState' = "connected"
    /\ accepts' = accepts + 1
    /\ reader' = "reply"
    /\ UNCHANGED <<received, buffered, served, streams, control, late, connOpen, peer,
                   closing, owner, announced, closedStreams>>

\* The reply of onConnect and onCreateStream; Close if it cannot be sent.
Reply ==
    /\ reader = "reply"
    /\ \/ WriteWorks /\ reader' = "parse" /\ owner' = NoOwner
       \/ WriteFails /\ reader' = "close in handler" /\ UNCHANGED owner
    /\ UNCHANGED <<Kept, readyState, connOpen, peer, closing, announced, closedStreams>>

\* onCreateStream: a NetStream attaches itself under the next id (streams that
\* have left the map are in closedStreams).
CreateStream ==
    /\ Take /\ served /\ owner = NoOwner
    /\ LET id == Cardinality(streams \cup closedStreams) + 1
       IN  /\ streams' = streams \cup {id}
           /\ late' = IF readyState = "connected" THEN late ELSE late \cup {id}
    /\ owner' = Reader
    /\ reader' = "reply"
    /\ UNCHANGED <<received, served, control, accepts, readyState, connOpen, peer, closing,
                   announced, closedStreams>>

\* processCommandDeleteStream.
DeleteStream ==
    /\ Take
    /\ \E id \in streams :
         /\ streams' = streams \ {id}
         /\ closedStreams' = closedStreams \cup {id}
    /\ UNCHANGED <<reader, received, served, control, accepts, late, readyState,
                   connOpen, peer, closing, owner, announced>>

\* To delete stream 0 is to close the connection.
DeleteControl ==
    /\ Take
    /\ control' = FALSE
    /\ reader' = "close command"
    /\ UNCHANGED <<received, served, streams, accepts, late, Outside>>

CloseCommand ==
    /\ Take
    /\ reader' = "close command"
    /\ UNCHANGED <<received, served, streams, control, accepts, late, Outside>>

ProcessMessage ==
    \/ OtherMessage \/ ConnectCommand \/ Reject \/ Accept \/ Reply
    \/ CreateStream \/ DeleteStream \/ DeleteControl \/ CloseCommand
    \/ NoControlStream

PeerHangsUp ==
    /\ peer = "there"
    /\ peer' = "gone"
    /\ UNCHANGED <<readyState, connOpen, reads, closing, owner, announced, closedStreams>>

-----------------------------------------------------------------------------
Serve == Handshake \/ ReadFails \/ ParsedAll \/ Returned \/ ProcessMessage \/ Closing(Reader)

SessionNext ==
    \/ Serve \/ ReadMessages \/ PeerHangsUp
    \/ \E t \in Closers : Closing(t)

SessionSpec == SessionInit /\ [][SessionNext]_sessionVars

\* The goroutine of serve runs on, except that a peer need not send; so does
\* a Close that has begun.
FairSessionSpec ==
    /\ SessionSpec /\ WF_sessionVars(Serve)
    /\ \A t \in Closers : WF_sessionVars(closing[t] # "not yet" /\ Closing(t))

-----------------------------------------------------------------------------
(* Properties.                                                             *)

SessionTypeOK ==
    /\ readyState \in {"initialized", "connected", "closing", "closed"}
    /\ connOpen \in BOOLEAN /\ peer \in {"there", "gone"}
    /\ reader \in Calls \cup {"handshake", "read", "parse", "onConnect", "reply", "ended"}
    /\ received \in 0..MaxReceived /\ buffered \in 0..MaxReceived
    /\ served \in BOOLEAN /\ control \in BOOLEAN
    /\ closing \in [Goroutines -> {"not yet", "no", "mark", "streams", "conn", "event",
                                "store", "done"}]
    /\ owner \in {NoOwner, Reader}
    /\ streams \cup closedStreams \cup late \subseteq 1..MaxReceived
    /\ accepts \in Nat /\ announced \in Nat

Ended == reader = "ended"
OnlyReaderCloses == \A t \in Closers : closing[t] = "not yet"
NobodyCloses == \A t \in Goroutines : closing[t] \in {"not yet", "no", "done"}

\* Whoever calls Close, and whenever, a connection whose serve has returned
\* is closed for good, even one accepted after it was closed.
EndsClosed == Ended /\ NobodyCloses => readyState = "closed" /\ ~connOpen

\* When only its own goroutine closes a connection, every Accept is followed
\* by one CLOSE event before the next: the listeners that release what the
\* application holds run once per accepted connection (Close, Accept).
EveryAcceptIsAnnounced ==
    OnlyReaderCloses =>
        /\ announced <= accepts /\ accepts <= announced + 1
        /\ Ended => announced = accepts

\* When only its own goroutine closes a connection, no stream outlives it but
\* those a peer had created behind its own close or after a rejection.
StreamsAreClosed ==
    OnlyReaderCloses /\ Ended => streams \ closedStreams \subseteq late

\* A connection that is closed, or whose peer has left, lets go of its
\* goroutine.
ServeReturns == ~connOpen \/ peer = "gone" ~> Ended
=============================================================================
