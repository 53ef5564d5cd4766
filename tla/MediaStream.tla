----------------------------- MODULE MediaStream -----------------------------
(***************************************************************************)
(* format.MediaStream as a value: the next track id and the tracks in the  *)
(* order they were added.  An entry records the track object, the id it    *)
(* was given and its source, which Stop makes nil.  Each operator is the   *)
(* part of a method that runs under the stream's mutex; the events the     *)
(* method dispatches are up to the module that uses it.                    *)
(***************************************************************************)
EXTENDS Integers, SequencesExt

CONSTANTS
    Tracks,         \* track objects, each standing for its source as well
    NoSource,       \* the nil source of a stopped track
    Kind            \* audio or video, for each track

ASSUME MediaStreamAssumption ==
    /\ NoSource \notin Tracks
    /\ Kind \in [Tracks -> {"audio", "video"}]

Entry == [track : Tracks, id : Nat, source : Tracks \cup {NoSource}]

EmptyStream == [index |-> 1, tracks |-> <<>>]

MediaStreams == [index : Nat, tracks : Seq(Entry)]

Entries(ms) == {ms.tracks[i] : i \in DOMAIN ms.tracks}

Holds(ms, t) == \E entry \in Entries(ms) : entry.track = t

\* Mutation: the id of a new track is the number of tracks, as if none left.
NewTrackCounted(ms, t, source) ==
    [index |-> ms.index + 1,
     tracks |-> Append(ms.tracks, [track |-> t, id |-> Len(ms.tracks) + 1,
                                   source |-> source])]

\* A track that the stream does not hold: every clone is one.
NewTrack(ms, t, source) ==
    [index |-> ms.index + 1,
     tracks |-> Append(ms.tracks, [track |-> t, id |-> ms.index, source |-> source])]

AddTrack(ms, t, source) == IF Holds(ms, t) THEN ms ELSE NewTrack(ms, t, source)

\* The loops over the tracks go by the first position that matches.
First(positions) == CHOOSE i \in positions : \A j \in positions : i =< j

PositionsOf(ms, t) == {i \in DOMAIN ms.tracks : ms.tracks[i].track = t}
OfKind(ms, kind) == {i \in DOMAIN ms.tracks : Kind[ms.tracks[i].track] = kind}
Attached(ms, source) == {i \in DOMAIN ms.tracks : ms.tracks[i].source = source}

\* The track at this position.
RemoveTrack(ms, i) == [ms EXCEPT !.tracks = RemoveAt(@, i)]

\* Track.Stop, for a track of the stream.
StopTrack(ms, t) ==
    [ms EXCEPT !.tracks =
        [i \in DOMAIN @ |-> IF @[i].track = t THEN [@[i] EXCEPT !.source = NoSource]
                                              ELSE @[i]]]

\* What Close leaves.
Close(ms) == EmptyStream
=============================================================================
