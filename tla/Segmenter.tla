----------------------------- MODULE Segmenter ------------------------------
(***************************************************************************)
(* The CMAF and FMP4 remuxers: which init and media segments they make of  *)
(* the packets of a stream, and the decode times of the media segments.    *)
(* The calls are taken one at a time; how Source, Close and the track      *)
(* handlers interleave is the same as for FLV and is checked there.  A     *)
(* player closes the remuxer before it attaches it again.                  *)
(*                                                                         *)
(* The boxes are built by code that is not in the repository: an init      *)
(* segment is the tracks it describes with their info frames, and a media  *)
(* segment carries the decode time of its track.  Tracks are named by      *)
(* their sources; a stream may have several of a kind, and those it had    *)
(* when it was closed stay in the remuxer.  Of the order of the remuxer's  *)
(* tracks only the first of each kind is kept, which takes the packets of  *)
(* all: when it is removed, any of the others may be the next.  Times are  *)
(* modulo Wrap, the 2^32 of the code.  "Seg" marks the operations that     *)
(* other remuxers have, too.                                               *)
(***************************************************************************)
EXTENDS Integers, FiniteSets

CONSTANTS
    AudioSources, VideoSources,
    Wrap,         \* 2^32
    Modes,        \* modes of the remuxers: sets of "audio", "video", "keyframe", "interleaved"
    MaxAttaches   \* bound: calls of Source

ASSUME SegAssumption ==
    /\ AudioSources \cap VideoSources = {}
    /\ Wrap \in Nat \ {0}
    /\ MaxAttaches \in Nat

Sources == AudioSources \cup VideoSources
Kind(t) == IF t \in AudioSources THEN "audio" ELSE "video"
Kinds == {"audio", "video"}
RefSampleDuration == 1

VARIABLES
    present,      \* the tracks of the stream
    headers,      \* the sources with an infoframe
    format,       \* "CMAF" or "FMP4"
    Mode,
    sourced,      \* calls of Source (for MaxAttaches)
    phase,        \* readyState: RemuxInactive, RemuxWaiting or RemuxPumping
    TimeBase,
    attached,     \* how the remuxer made its track of a source: "none", "clone" or "own"
    first,        \* the first track of each kind, or "none"
    Timestamp,    \* the decode time of the next segment of each track
    start,        \* history: the timestamp that started the pumping
    due,          \* history: the end of the last sample of each track
    announced,    \* history: tracks whose last info frame the player has
    undecodable,  \* history: sources with a segment sent without their info frame
    behind,       \* history: tracks attached behind another of their kind or, in CMAF,
                  \* behind their info frame
    ahead,        \* history: no info frame or track came after the first keyframe
    rebased       \* history: metadata came after the first keyframe

segStream == <<present, headers>>
times == <<TimeBase, Timestamp, start, due>>
told == <<announced, undecodable, behind, ahead, rebased>>
segVars == <<segStream, format, Mode, sourced, phase, attached, first, times, told>>

\* A first track among some of one kind.
AnyOf(tracks) == IF tracks = {} THEN {"none"} ELSE tracks

SegTracks == {t \in Sources : attached[t] # "none"}
OfKind(k) == {t \in SegTracks : Kind(t) = k}
Waiting == phase = "waiting"
Pumping == phase = "pumping"
Interleaved == "interleaved" \in Mode

-----------------------------------------------------------------------------
(* Segments.                                                               *)

\* generateInitSegment: the tracks and their info frames reach the player.
InitSegment(tracks) == announced' = announced \cup (tracks \cap headers)

\* Mutation: the decode time is moved on by the duration alone.
AdvanceByDuration(t, dts) ==
    Timestamp' = [Timestamp EXCEPT ![t] = (@ + RefSampleDuration) % Wrap]

\* The track is moved to the end of the sample, with the gap to its real time.
Advance(t, dts) ==
    LET delta == (dts - TimeBase' - Timestamp[t]) % Wrap
    IN  Timestamp' = [Timestamp EXCEPT ![t] = (@ + RefSampleDuration + delta) % Wrap]

\* generateSegment: a frame of source s goes out on track t.  CMAF takes every
\* track for one of its own, and panics on the clones of Source before it sends
\* anything.
MediaSegment(s, t, dts) ==
    \/ /\ format = "CMAF" /\ attached[t] = "clone"
       /\ UNCHANGED <<Timestamp, due, undecodable>>
    \/ /\ ~(format = "CMAF" /\ attached[t] = "clone")
       /\ Advance(t, dts)
       /\ due' = [due EXCEPT ![t] = (dts - start' + RefSampleDuration) % Wrap]
       /\ undecodable' = IF s = t /\ t \in announced' THEN undecodable
                          ELSE undecodable \cup {s}

NoSegment == UNCHANGED <<Timestamp, due, undecodable>>

-----------------------------------------------------------------------------
(* Attaching.                                                              *)

SegInit ==
    /\ present = {} /\ headers = {}
    /\ format = "FMP4" /\ Mode = {} /\ sourced = 0
    /\ phase = "inactive"
    /\ TimeBase = 0 /\ start = 0
    /\ attached = [t \in Sources |-> "none"] /\ first = [k \in Kinds |-> "none"]
    /\ Timestamp = [t \in Sources |-> 0] /\ due = [t \in Sources |-> 0]
    /\ announced = {} /\ undecodable = {} /\ behind = {} /\ ahead = FALSE /\ rebased = FALSE

\* Mode & ModeVideo & ModeKeyframe is the bit of video, which ModeKeyframe has too.
SegWanted(t, mode) == Kind(t) \in mode \/ (Kind(t) = "video" /\ "keyframe" \in mode)

\* The tracks of the stream are cloned, in any order.  CMAF sends an init
\* segment for those with an info frame; in FMP4 that call is commented out.
SegSource(f, mode) ==
    /\ phase = "inactive" /\ sourced < MaxAttaches
    /\ sourced' = sourced + 1
    /\ format' = f /\ Mode' = mode
    /\ phase' = "waiting"
    /\ LET tracks == {t \in present : SegWanted(t, mode)}
       IN  /\ attached' = [t \in Sources |-> IF t \in tracks THEN "clone" ELSE "none"]
           /\ \E order \in [Kinds -> tracks \cup {"none"}] :
                /\ \A k \in Kinds : order[k] \in AnyOf({t \in tracks : Kind(t) = k})
                /\ first' = order
           /\ behind' = {t \in tracks : t # first'[Kind(t)]}
           /\ announced' = IF f = "CMAF" THEN tracks \cap headers ELSE {}
    /\ UNCHANGED <<segStream, times, undecodable, ahead, rebased>>

\* A track of a new source, which may have its info frame already, or of one
\* that was left behind in the remuxer.  onAddTrack makes a track of CMAF's own
\* type, or a clone in FMP4, and sends nothing.
SegAddTrack(t, headed) ==
    /\ t \notin present
    /\ present' = present \cup {t}
    /\ headers' = IF headed /\ t \notin SegTracks THEN headers \cup {t} ELSE headers
    /\ \/ /\ phase # "inactive" /\ SegWanted(t, Mode) /\ t \notin SegTracks
          /\ attached' = [attached EXCEPT ![t] = IF format = "CMAF" THEN "own" ELSE "clone"]
          /\ IF OfKind(Kind(t)) = {}
             THEN first' = [first EXCEPT ![Kind(t)] = t]
             ELSE UNCHANGED first
          /\ behind' = IF OfKind(Kind(t)) # {} \/ (format = "CMAF" /\ headed)
                       THEN behind \cup {t} ELSE behind
          /\ ahead' = FALSE
       \/ /\ phase = "inactive" \/ ~SegWanted(t, Mode) \/ t \in SegTracks
          /\ UNCHANGED <<attached, first, behind, ahead>>
    /\ UNCHANGED <<format, Mode, sourced, phase, times, announced, undecodable, rebased>>

\* onRemoveTrack.  The name is free for another source.
SegRemoveTrack(t) ==
    /\ t \in present
    /\ present' = present \ {t}
    /\ headers' = headers \ {t}
    /\ attached' = [attached EXCEPT ![t] = "none"]
    /\ IF t = first[Kind(t)]
       THEN \E u \in AnyOf(OfKind(Kind(t)) \ {t}) : first' = [first EXCEPT ![Kind(t)] = u]
       ELSE UNCHANGED first
    /\ Timestamp' = [Timestamp EXCEPT ![t] = 0] /\ due' = [due EXCEPT ![t] = 0]
    /\ announced' = announced \ {t}
    /\ undecodable' = undecodable \ {t} /\ behind' = behind \ {t}
    /\ UNCHANGED <<format, Mode, sourced, phase, TimeBase, start, ahead, rebased>>

\* Close of the stream stops its tracks before it dispatches REMOVETRACK: they
\* have no source then, and onRemoveTrack finds nothing to remove.
CloseStream ==
    /\ present # {} /\ present' = {}
    /\ headers' = headers \cap SegTracks
    /\ UNCHANGED <<format, Mode, sourced, phase, attached, first, times, told>>

\* The tracks are dropped; the time base stays.
SegClose ==
    /\ phase # "inactive"
    /\ phase' = "inactive"
    /\ attached' = [t \in Sources |-> "none"]
    /\ Timestamp' = [t \in Sources |-> 0] /\ due' = [t \in Sources |-> 0] /\ start' = 0
    /\ announced' = {} /\ undecodable' = {} /\ behind' = {} /\ ahead' = FALSE /\ rebased' = FALSE
    /\ first' = [k \in Kinds |-> "none"]
    /\ headers' = headers \cap present
    /\ UNCHANGED <<present, format, Mode, sourced, TimeBase>>

\* onDataPacket: SetDataFrame copies the Information of the stream, whose
\* TimeBase is 0.
Metadata ==
    /\ phase # "inactive"
    /\ TimeBase' = 0
    /\ rebased' = (rebased \/ Pumping)
    /\ UNCHANGED <<segStream, format, Mode, sourced, phase, attached, first, Timestamp, start, due,
                   announced, undecodable, behind, ahead>>

-----------------------------------------------------------------------------
(* Packets of source s, handled with the first track of its kind.          *)

Rest == UNCHANGED <<present, format, Mode, sourced, attached, first, behind, rebased>>

\* A header: the source keeps it, then the remuxer hears of it.
InfoFrame(s, announce) ==
    /\ s \in present
    /\ headers' = headers \cup {s}
    /\ announced' = (announced \ {s}) \cup (announce \cap headers')
    /\ ahead' = (ahead /\ s \notin SegTracks)
    /\ NoSegment
    /\ UNCHANGED <<phase, TimeBase, start>> /\ Rest

\* SPECIFIC_CONFIG: CMAF sends an init segment; FMP4's call is commented out.
AudioConfig(s) ==
    InfoFrame(s, IF format = "CMAF" /\ s \in SegTracks THEN {first["audio"]} ELSE {})

\* SEQUENCE_HEADER: FMP4 sends an init segment unless it is interleaved.
VideoHeader(s) ==
    InfoFrame(s, IF s \in SegTracks /\ (format = "CMAF" \/ ~Interleaved) THEN {first["video"]} ELSE {})

\* RAW_FRAME_DATA.
SegAudioFrame(s, dts) ==
    /\ s \in present \cap SegTracks
    /\ first["audio"] \in headers /\ Pumping
    /\ UNCHANGED <<headers, phase, TimeBase, start, announced, ahead>>
    /\ MediaSegment(s, first["audio"], dts)
    /\ Rest

\* The first keyframe starts the pumping and sets the time base.  The init
\* segment of all tracks goes out if there is no audio to wait for, or its
\* info frame is there and the mode is interleaved.
StartPumping(dts) ==
    /\ phase' = "pumping"
    /\ TimeBase' = dts /\ start' = dts
    /\ ahead' = (SegTracks \subseteq headers)
    /\ IF \/ "audio" \notin Mode \/ OfKind("audio") = {}
          \/ Interleaved /\ first["audio"] \in headers
       THEN InitSegment(SegTracks)
       ELSE UNCHANGED announced

Starts(keyframe) == keyframe /\ Waiting

\* NALU; in keyframe mode the frames between are dropped.  END_OF_SEQUENCE goes
\* on to generateSegment, too, and panics there: only the parser of NALUs sets
\* the data and the DTS of a packet.
SegVideoFrame(s, keyframe, dts) ==
    /\ s \in present \cap SegTracks
    /\ UNCHANGED headers
    /\ \/ Starts(keyframe) /\ StartPumping(dts)
       \/ ~Starts(keyframe) /\ UNCHANGED <<phase, TimeBase, start, ahead, announced>>
    /\ LET track == first["video"]
           sends == /\ track \in headers /\ phase' = "pumping"
                    /\ "keyframe" \in Mode => keyframe
       IN  IF sends THEN MediaSegment(s, track, dts) ELSE NoSegment
    /\ Rest

SegNext ==
    \/ \E f \in {"CMAF", "FMP4"}, m \in Modes : SegSource(f, m)
    \/ \E t \in Sources : SegAddTrack(t, TRUE) \/ SegAddTrack(t, FALSE) \/ SegRemoveTrack(t)
    \/ CloseStream \/ SegClose \/ Metadata
    \/ \E s \in AudioSources : AudioConfig(s) \/ \E dts \in 0..(Wrap - 1) : SegAudioFrame(s, dts)
    \/ \E s \in VideoSources :
        \/ VideoHeader(s)
        \/ \E dts \in 0..(Wrap - 1), keyframe \in BOOLEAN : SegVideoFrame(s, keyframe, dts)

SegSpec == SegInit /\ [][SegNext]_segVars

-----------------------------------------------------------------------------
(* Properties.                                                             *)

\* What the player needs: every media segment follows an init segment with the
\* info frame it was coded with, and the decode time of a track is the end of
\* its last sample, counted from the first keyframe, however late or out of
\* order its packets are.  It does not hold of a track that was attached behind
\* another of its kind, one of the stream before its Close among them: its
\* frames go out on that track.  CMAF misses the header of a track that was
\* added with it; FMP4 promises this when the info frames come before the first
\* keyframe and the mode is interleaved or without audio; and metadata
\* behind the first keyframe moves the time base.
SegmentsArePlayable ==
    /\ format = "CMAF" \/ (ahead /\ (Interleaved \/ "audio" \notin Mode)) => undecodable \subseteq behind
    /\ ~rebased => Timestamp = due
=============================================================================
