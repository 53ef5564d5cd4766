------------------------------ MODULE MCWraps -------------------------------
(***************************************************************************)
(* Two components that do not interact and whose numbers wrap: the         *)
(* acknowledgement window and the decode times of segments.  "unit" says   *)
(* which of them a behaviour is about.                                     *)
(***************************************************************************)
EXTENDS AckWindow, Segmenter, TLC

VARIABLE unit

MCModes == {{"keyframe"}, {"audio", "video", "interleaved"}}

WrapsInit == unit \in {"window", "segments"} /\ AckInit /\ SegInit

WrapsNext ==
    /\ UNCHANGED unit
    /\ \/ unit = "window" /\ AckNext /\ UNCHANGED segVars
       \/ unit = "segments" /\ SegNext /\ UNCHANGED ackVars

WrapsSpec == WrapsInit /\ [][WrapsNext]_<<unit, ackVars, segVars>>

Symmetry == Permutations(VideoSources)
=============================================================================
