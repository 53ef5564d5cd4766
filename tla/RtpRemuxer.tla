----------------------------- MODULE RtpRemuxer -----------------------------
(***************************************************************************)
(* The RTP remuxer: the audio frames of a stream cut into numbered packets *)
(* for a player.  One publisher sinks packets and changes the tracks; the  *)
(* player attaches and closes the remuxer at any time, between two packets *)
(* of a frame too, for the loop of getAACPackets holds no lock and         *)
(* dispatches each packet to listeners, which may call Close themselves.   *)
(*                                                                         *)
(* getAVCPackets asserts an int where the parser of AVC has stored a byte, *)
(* so that no packet of video is ever sent: video matters because its      *)
(* first keyframe starts the pumping.  Metadata sets a time base that the  *)
(* timestamps of RTP do not use.  The tracks of a remuxer are in the order *)
(* of their ids.                                                           *)
(***************************************************************************)
EXTENDS RtpPackets

VARIABLES
    stream,       \* the tracks of the stream
    infoframe,    \* the sources that have their info frame
    readyState,   \* RemuxInactive, RemuxWaiting or RemuxPumping
    tracks,       \* the tracks of the remuxer
    index,        \* the id of its next track
    attaches,     \* calls of Source (for MaxSources)
    frame,        \* what getAACPackets is at: its track, SN and the frame
    heard,        \* history: the last SN of each track id, the bytes since the last whole frame
    owed,         \* history: frames that were cut less those that came whole
    astray,       \* history: a packet came out of sequence, or after CLOSE
    excuses       \* history: "overtaken", a Close met a frame; "oversized", a frame beyond AULimit

source == <<stream, infoframe>>
remuxer == <<readyState, tracks, index, attaches>>
player == <<heard, owed, astray, excuses>>
rtpVars == <<source, remuxer, frame, player>>

IDs == 1..MaxID
NoFrame == [id |-> 0]
Sending == frame # NoFrame
Silence == [id \in IDs |-> [SN |-> 0, bytes |-> 0]]

\* Mode & ModeVideo & ModeKeyframe is the bit of video, which ModeKeyframe has too.
Wanted(t) ==
    IF t = Video THEN RtpMode \cap {"video", "keyframe"} # {} ELSE "audio" \in RtpMode

Attached(t) == \E track \in tracks : track.source = t

RtpInit ==
    /\ stream = {} /\ infoframe = {}
    /\ readyState = "inactive" /\ tracks = {} /\ index = 1 /\ attaches = 0
    /\ frame = NoFrame
    /\ heard = Silence /\ owed = 0 /\ astray = FALSE /\ excuses = {}

-----------------------------------------------------------------------------
(* Attaching.                                                              *)

\* The wanted tracks are cloned, in the order of the stream: a clone is a basic
\* track, not one of RTP's own.  A player closes before it attaches again.
Source ==
    /\ readyState = "inactive" /\ attaches < MaxSources
    /\ attaches' = attaches + 1
    /\ readyState' = "waiting"
    /\ LET wanted == {t \in stream : Wanted(t)}
       IN  /\ \E ids \in [wanted -> 1..Cardinality(wanted)] :
                /\ \A t, u \in wanted : ids[t] = ids[u] => t = u
                /\ tracks' = {[source |-> t, own |-> FALSE, id |-> ids[t], SN |-> 0] : t \in wanted}
           /\ index' = Cardinality(wanted) + 1
    /\ UNCHANGED <<source, frame, player>>

\* Stop sets the SN of every track to 0, the one of the frame in progress
\* included, and ids begin anew.  The player is told by CLOSE.  From within the
\* frame this is one step, too; a Close of another goroutine waits behind CLOSE
\* for the dispatcher of the source, until the frame has been sent: fewer of its
\* interleavings exist than are taken here.
RtpClose ==
    /\ readyState # "inactive"
    /\ readyState' = "inactive"
    /\ tracks' = {} /\ index' = 1
    /\ frame' = IF Sending THEN [frame EXCEPT !.SN = 0, !.live = FALSE] ELSE NoFrame
    /\ heard' = Silence /\ owed' = 0 /\ astray' = FALSE
    /\ excuses' = IF Sending THEN {"overtaken"} ELSE {}
    /\ UNCHANGED <<source, attaches>>

\* The publisher adds a track, and onAddTrack makes one of RTP's own.
AddTrack(t) ==
    /\ ~Sending /\ t \notin stream /\ index <= MaxID
    /\ stream' = stream \cup {t}
    /\ \/ /\ readyState # "inactive" /\ Wanted(t) /\ ~Attached(t)
          /\ tracks' = tracks \cup {[source |-> t, own |-> TRUE, id |-> index, SN |-> 0]}
          /\ index' = index + 1
       \/ /\ readyState = "inactive" \/ ~Wanted(t) \/ Attached(t)
          /\ UNCHANGED <<tracks, index>>
    /\ UNCHANGED <<infoframe, readyState, attaches, frame, player>>

\* onRemoveTrack.
RemoveTrack(t) ==
    /\ ~Sending /\ t \in stream
    /\ stream' = stream \ {t}
    /\ tracks' = {track \in tracks : track.source # t}
    /\ UNCHANGED <<infoframe, readyState, index, attaches, frame, player>>

-----------------------------------------------------------------------------
(* Packets.                                                                *)

\* SPECIFIC_CONFIG or SEQUENCE_HEADER: the source keeps it, the remuxer does nothing.
Header(t) ==
    /\ ~Sending /\ t \in stream
    /\ infoframe' = infoframe \cup {t}
    /\ UNCHANGED <<stream, remuxer, frame, player>>

\* NALU with a keyframe.  GetSegment panics after it, for this and every other.
Keyframe ==
    /\ ~Sending /\ Attached(Video) /\ readyState = "waiting"
    /\ readyState' = "pumping"
    /\ UNCHANGED <<source, tracks, index, attaches, frame, player>>

FirstAudio(track) ==
    /\ track.source \in Audio
    /\ \A other \in tracks : other.source \in Audio => track.id <= other.id

\* RAW_FRAME_DATA of any source goes out on the first audio track, if that has
\* its info frame; a clone fails the type assertion of getAACPackets.
AudioFrame(t, n, room) ==
    /\ ~Sending /\ Attached(t) /\ readyState = "pumping"
    /\ \E track \in tracks :
        /\ FirstAudio(track) /\ track.source \in infoframe /\ track.own
        /\ frame' = [id |-> track.id, SN |-> track.SN, live |-> TRUE,
                     n |-> n, size |-> room, i |-> 0, left |-> Count(n, room)]
    /\ excuses' = IF n >= AULimit THEN excuses \cup {"oversized"} ELSE excuses
    /\ owed' = IF n > 0 /\ excuses' = {} THEN owed + 1 ELSE owed
    /\ UNCHANGED <<source, remuxer, heard, astray>>

\* The player puts the bytes of a track together until they are as many as the
\* AU header says.
Hear(id, SN, length, size) ==
    LET bytes == heard[id].bytes + size
        whole == bytes = length
    IN  /\ heard' = [heard EXCEPT ![id] =
                        [SN |-> SN, bytes |-> IF whole \/ excuses # {} THEN 0 ELSE bytes]]
        /\ owed' = IF whole /\ excuses = {} THEN owed - 1 ELSE owed
        /\ astray' = (astray \/ readyState = "inactive" \/ ~Follows(SN, heard[id].SN))
        /\ UNCHANGED excuses

\* The last packet has what is left.
PacketSize == IF frame.left = 1 THEN frame.n - frame.i ELSE frame.size

\* One turn of the loop.
SendPacket ==
    /\ Sending /\ frame.left > 0
    /\ frame' = [frame EXCEPT !.SN = NextSN(@), !.i = @ + PacketSize, !.left = @ - 1]
    /\ Hear(frame.id, NextSN(frame.SN), AULength(frame.n), PacketSize)
    /\ UNCHANGED <<source, remuxer>>

\* The SN stays with the track, unless Close has dropped it.
EndFrame ==
    /\ Sending /\ frame.left = 0
    /\ frame' = NoFrame
    /\ tracks' = {IF frame.live /\ track.id = frame.id THEN [track EXCEPT !.SN = frame.SN] ELSE track :
                    track \in tracks}
    /\ UNCHANGED <<source, readyState, index, attaches, player>>

RtpNext ==
    \/ Source \/ RtpClose
    \/ \E t \in Audio \cup {Video} : AddTrack(t) \/ RemoveTrack(t) \/ Header(t)
    \/ Keyframe
    \/ \E t \in Audio, n \in Lengths, room \in Rooms : AudioFrame(t, n, room)
    \/ SendPacket \/ EndFrame

RtpSpec == RtpInit /\ [][RtpNext]_rtpVars

-----------------------------------------------------------------------------
(* Properties.                                                             *)

\* Unless the remuxer was closed in the middle of a frame, the packets of a
\* track are numbered without a gap, over the wrap, over frames of several
\* sources and over removed tracks, and none comes after CLOSE; the rest of a
\* frame fits its last packet, which is never empty; and between frames, the
\* player has put together every frame from the lengths in the AU headers,
\* unless one was too long for them.
FramesArriveWhole ==
    /\ astray => "overtaken" \in excuses
    /\ Sending /\ frame.left = 1 => frame.n - frame.i \in 1..frame.size
    /\ ~Sending /\ excuses = {} => owed = 0 /\ \A id \in IDs : heard[id].bytes = 0
=============================================================================
