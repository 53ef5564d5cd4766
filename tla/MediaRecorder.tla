---------------------------- MODULE MediaRecorder ----------------------------
(***************************************************************************)
(* av/mediarecorder FLV: records a media stream to a file.  It embeds the  *)
(* FLV remuxer, whose event dispatcher it shares: the remuxer dispatches   *)
(* PACKET, CLOSE and ERROR, the recorder listens to them on itself and     *)
(* dispatches START, PAUSE, RESUME, STOP and ERROR.                        *)
(*                                                                         *)
(* Four locks are at play: the mutex of the recorder and that of the       *)
(* remuxer, neither reentrant, the dispatcher's, reentrant up to           *)
(* MaxRecursion, and the dispatcher of the source, which Media holds for   *)
(* as long as it delivers and which whoever (un)registers the remuxer's    *)
(* listeners waits for.  Each goroutine has a stack of what is left to do, *)
(* the next step in front: a call puts its steps before those of its       *)
(* caller.                                                                 *)
(***************************************************************************)
EXTENDS Integers, Sequences, FiniteSets

CONSTANTS
    Users,          \* goroutines that control the recorder
    Media,          \* the goroutine of the source, which delivers packets
    MaxRecursion,   \* nesting of the dispatcher (8 in the code)
    MaxCalls,       \* bound: calls of the users
    MaxPackets,     \* bound: packets delivered
    Nobody

Threads == Users \cup {Media}

\* The recorder stops itself from a listener, and STOP must still reach its own.
ASSUME RecorderAssumption ==
    /\ Media \notin Users /\ Nobody \notin Threads
    /\ MaxRecursion \in Nat \ {0, 1} /\ MaxCalls \in Nat /\ MaxPackets \in Nat

VARIABLES
    readyState,     \* of the recorder
    attached,       \* the remuxer is attached to its source (not RemuxInactive)
    wired,          \* its listeners are registered there
    listening,      \* the recorder's own listeners are registered
    file,           \* "open" from Source on, or "closed"
    mtx, flvMtx,    \* holders of the two mutexes
    owner, depth,   \* holder and nesting of the dispatcher
    todo,           \* what each goroutine is left to do
    called, packets,\* history: calls and packets (for the bounds)
    starts, stops,  \* history: START and STOP events
    badWrite,       \* history: a packet was written to the closed file
    callers,        \* history: the users that have called the recorder
    troubled        \* history: writing has failed or the source has closed

locks == <<mtx, flvMtx, owner, depth>>
counts == <<called, packets, starts, stops, badWrite, callers, troubled>>
vars == <<readyState, attached, wired, listening, file, locks, todo, counts>>

\* LiveHandler attaches the source before anybody else has the recorder.
Init ==
    /\ readyState = "inactive"
    /\ attached = FALSE /\ wired = FALSE /\ listening = TRUE /\ file = "open"
    /\ mtx = Nobody /\ flvMtx = Nobody /\ owner = Nobody /\ depth = 0
    /\ todo = [t \in Threads |-> <<>>]
    /\ called = 0 /\ packets = 0 /\ starts = 0 /\ stops = 0
    /\ badWrite = FALSE /\ callers = {} /\ troubled = FALSE

\* The next step of t is done, and those of a call come first.
At(t, step) == todo[t] # <<>> /\ Head(todo[t]) = step
Then(t, steps) == todo' = [todo EXCEPT ![t] = steps \o Tail(@)]

-----------------------------------------------------------------------------
(* DispatchEvent.                                                          *)

Dispatch(t, event) ==
    /\ At(t, event)
    /\ owner \in {Nobody, t}

\* The listeners to run, or nothing when the recursion is too deep: the
\* panic is recovered where the event was dispatched.
Run(t, steps) ==
    IF depth < MaxRecursion
    THEN owner' = t /\ depth' = depth + 1 /\ Then(t, steps \o <<"dispatched">>)
    ELSE UNCHANGED <<owner, depth>> /\ Then(t, <<>>)

Dispatched(t) ==
    /\ At(t, "dispatched")
    /\ depth' = depth - 1
    /\ owner' = IF depth = 1 THEN Nobody ELSE owner
    /\ Then(t, <<>>)
    /\ UNCHANGED <<readyState, attached, wired, listening, file, mtx, flvMtx, counts>>

\* CLOSE and ERROR: onClose and onError call Stop.
DispatchOwn(t) ==
    /\ \E event \in {"CLOSE", "ERROR"} : Dispatch(t, event)
    /\ Run(t, IF listening THEN <<"stop">> ELSE <<>>)
    /\ UNCHANGED <<readyState, attached, wired, listening, file, mtx, flvMtx, counts>>

\* PACKET: onPacket checks the state, then writes.
DispatchPacket(t) ==
    /\ Dispatch(t, "PACKET")
    /\ Run(t, IF listening /\ readyState = "recording" THEN <<"write">> ELSE <<>>)
    /\ UNCHANGED <<readyState, attached, wired, listening, file, mtx, flvMtx, counts>>

WritePacket(t) ==
    /\ At(t, "write")
    /\ badWrite' = (badWrite \/ file = "closed")
    /\ \/ file = "open" /\ Then(t, <<>>) /\ UNCHANGED troubled
       \/ Then(t, <<"stop">>) /\ troubled' = TRUE
    /\ UNCHANGED <<readyState, attached, wired, listening, file, locks, called, packets,
                   starts, stops, callers>>

\* START, to listeners that may reject it by a panic, which is recovered and
\* has no effect.
DispatchStart(t) ==
    /\ Dispatch(t, "START")
    /\ Run(t, <<>>)
    /\ starts' = starts + 1
    /\ UNCHANGED <<readyState, attached, wired, listening, file, mtx, flvMtx, called,
                   packets,
                   stops, badWrite, callers, troubled>>

DispatchState(t) ==
    /\ \E event \in {"PAUSE", "RESUME", "STOP"} :
         /\ Dispatch(t, event)
         /\ stops' = IF event = "STOP" /\ depth < MaxRecursion THEN stops + 1 ELSE stops
    /\ Run(t, <<>>)
    /\ UNCHANGED <<readyState, attached, wired, listening, file, mtx, flvMtx, called,
                   packets,
                   starts, badWrite, callers, troubled>>

-----------------------------------------------------------------------------
(* The recorder.                                                           *)

Lock(t, step, state, steps) ==
    /\ At(t, step)
    /\ mtx = Nobody
    /\ mtx' = t
    /\ readyState' = state
    /\ Then(t, steps \o <<"unlock">>)
    /\ UNCHANGED <<attached, wired, listening, file, flvMtx, owner, depth, counts>>

Unlock(t) ==
    /\ At(t, "unlock")
    /\ mtx' = Nobody
    /\ Then(t, <<>>)
    /\ UNCHANGED <<readyState, attached, wired, listening, file, flvMtx, owner,
                   depth, counts>>

\* Mutation: a recorder that is not inactive may be started.
StartAgain(t) ==
    /\ At(t, "start")
    /\ readyState' = "recording"
    /\ Then(t, <<"startLock">>)
    /\ UNCHANGED <<attached, wired, listening, file, locks, counts>>

\* The check a call begins with; the lock is taken after it.
Start(t) ==
    /\ At(t, "start")
    /\ IF readyState = "inactive"
       THEN readyState' = "recording" /\ Then(t, <<"startLock">>)
       ELSE readyState' = readyState /\ Then(t, <<"ERROR">>)
    /\ UNCHANGED <<attached, wired, listening, file, locks, counts>>

Check(t, call, from, locked) ==
    /\ At(t, call)
    /\ Then(t, IF readyState = "inactive" THEN <<"ERROR">>
               ELSE IF readyState \in from THEN <<locked>> ELSE <<>>)
    /\ UNCHANGED <<readyState, attached, wired, listening, file, locks, counts>>

Pause(t) == Check(t, "pause", {"recording"}, "pauseLock")
Resume(t) == Check(t, "resume", {"paused"}, "resumeLock")
Stop(t) == Check(t, "stop", {"recording", "paused"}, "stopLock")

StartLocked(t) == Lock(t, "startLock", readyState, <<"START", "source">>)
PauseLocked(t) == Lock(t, "pauseLock", "paused", <<"PAUSE">>)
ResumeLocked(t) == Lock(t, "resumeLock", "recording", <<"RESUME">>)
\* Mutation: the file is closed before any listener is removed.
StopLockedFileFirst(t) ==
    Lock(t, "stopLock", "inactive", <<"closeFile", "close", "remove", "STOP">>)

\* Mutation: the recorder is not inactive yet when it closes the remuxer.
StopLockedStateLast(t) ==
    Lock(t, "stopLock", readyState, <<"close", "remove", "closeFile", "STOP">>)

StopLocked(t) ==
    Lock(t, "stopLock", "inactive", <<"close", "remove", "closeFile", "STOP">>)

\* RemoveEventListener takes the dispatcher, unless it is held already.
RemoveListeners(t) ==
    /\ At(t, "remove")
    /\ owner \in {Nobody, t}
    /\ listening' = FALSE
    /\ Then(t, <<>>)
    /\ UNCHANGED <<readyState, attached, wired, file, locks, counts>>

CloseFile(t) ==
    /\ At(t, "closeFile")
    /\ file' = "closed"
    /\ Then(t, <<>>)
    /\ UNCHANGED <<readyState, attached, wired, listening, locks, counts>>

-----------------------------------------------------------------------------
(* The remuxer: Source dispatches the sequence headers it has, Close its   *)
(* CLOSE, with the mutex held; both then wait for the source.              *)

FlvSource(t) ==
    /\ At(t, "source")
    /\ flvMtx = Nobody
    /\ flvMtx' = t
    /\ attached' = TRUE
    /\ Then(t, <<"PACKET", "wire">>)
    /\ UNCHANGED <<readyState, wired, listening, file, mtx, owner, depth, counts>>

FlvClose(t) ==
    /\ At(t, "close")
    /\ Then(t, IF attached THEN <<"flvLock">> ELSE <<>>)
    /\ UNCHANGED <<readyState, attached, wired, listening, file, locks, counts>>

FlvCloseLocked(t) ==
    /\ At(t, "flvLock")
    /\ flvMtx = Nobody
    /\ flvMtx' = t
    /\ attached' = FALSE
    /\ Then(t, <<"CLOSE", "wire">>)
    /\ UNCHANGED <<readyState, wired, listening, file, mtx, owner, depth, counts>>

\* The listeners go to the source, or come away from it, once Media has
\* dispatched what it is delivering; then the mutex is given up.
FlvWire(t) ==
    /\ At(t, "wire")
    /\ t = Media \/ todo[Media] = <<>>
    /\ wired' = attached
    /\ flvMtx' = Nobody
    /\ Then(t, <<>>)
    /\ UNCHANGED <<readyState, attached, listening, file, mtx, owner, depth, counts>>

-----------------------------------------------------------------------------
(* Calls and deliveries.                                                   *)

Call(t) ==
    /\ t \in Users /\ todo[t] = <<>> /\ called < MaxCalls
    /\ called' = called + 1
    /\ callers' = callers \cup {t}
    /\ \E call \in {"start", "pause", "resume", "stop"} :
         todo' = [todo EXCEPT ![t] = <<call>>]
    /\ UNCHANGED <<readyState, attached, wired, listening, file, locks, packets,
                   starts, stops, badWrite, troubled>>

Deliver ==
    /\ todo[Media] = <<>> /\ (attached \/ wired) /\ packets < MaxPackets
    /\ packets' = packets + 1
    /\ \E event \in {"PACKET", "close"} :
         /\ todo' = [todo EXCEPT ![Media] = <<event>>]
         /\ troubled' = (troubled \/ event = "close")
    /\ UNCHANGED <<readyState, attached, wired, listening, file, locks, called,
                   starts, stops, badWrite, callers>>

Step(t) ==
    \/ Dispatched(t) \/ DispatchOwn(t) \/ DispatchPacket(t) \/ DispatchStart(t)
    \/ DispatchState(t) \/ WritePacket(t) \/ Unlock(t)
    \/ Start(t) \/ StartLocked(t) \/ Pause(t) \/ PauseLocked(t)
    \/ Resume(t) \/ ResumeLocked(t) \/ Stop(t) \/ StopLocked(t)
    \/ RemoveListeners(t) \/ CloseFile(t)
    \/ FlvSource(t) \/ FlvClose(t) \/ FlvCloseLocked(t) \/ FlvWire(t)

Next == Deliver \/ \E t \in Threads : Call(t) \/ Step(t)

Spec == Init /\ [][Next]_vars

\* Goroutines run on, and a lock that is free again and again is got.
FairSpec == Spec /\ \A t \in Threads : SF_vars(Step(t))

-----------------------------------------------------------------------------
(* Properties.                                                             *)

Idle == \A t \in Users : todo[t] = <<>>

\* No packet is ever written to the file after Stop has closed it, whichever
\* goroutines stop, pause and resume the recorder meanwhile: Stop takes the
\* listeners away first, the remuxer's and its own, for which it waits until no
\* packet is dispatched.
NoWriteAfterClose == ~badWrite

\* One user has the recorder to itself, and its file and source work.
Calm == Cardinality(callers) <= 1 /\ ~troubled

\* A single user sees one STOP for every START (Start, Stop): calls in the
\* wrong state, the ERROR they dispatch and the CLOSE of the remuxer, both of
\* which make the recorder stop itself, do not add another.
OneStopPerStart ==
    Calm => /\ stops <= starts /\ starts <= stops + 1
            /\ Idle /\ readyState = "inactive" => starts = stops

\* A call in the wrong state that stops the recorder holds its dispatcher, for
\* the ERROR, and waits for the source to take the listeners away; the source
\* holds its own dispatcher and waits for the recorder's to hand over a packet.
Embrace == \E u \in Users : owner = u /\ At(u, "wire") /\ At(Media, "PACKET")

\* As long as that is so, every call returns and every packet is dealt with,
\* but for that one embrace: no other order of the four locks makes them wait
\* for each other, nor do the events the recorder sends itself.
CallsReturn ==
    \A t \in Threads : todo[t] # <<>> ~> todo[t] = <<>> \/ ~Calm \/ Embrace
=============================================================================
