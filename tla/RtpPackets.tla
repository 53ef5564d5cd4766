----------------------------- MODULE RtpPackets -----------------------------
(***************************************************************************)
(* How getAACPackets cuts a frame, which is its length, and numbers the    *)
(* packets; and the constants of RtpRemuxer.                               *)
(***************************************************************************)
EXTENDS Integers, FiniteSets

CONSTANTS
    Audio,        \* the audio tracks of a stream, standing for their sources
    Video,        \* its video track
    RtpMode,      \* subset of "audio", "video", "keyframe"
    Lengths,      \* lengths of audio frames
    Rooms,        \* bytes of a frame in one packet: over UDP and over TCP
    MaxSN,        \* 0xFFFF
    AULimit,      \* 2^13, the width of the length in the AU header
    MaxID,        \* bound: ids of tracks
    MaxSources    \* bound: calls of Source

ASSUME RtpAssumption ==
    /\ IsFiniteSet(Audio) /\ Video \notin Audio
    /\ Lengths \subseteq Nat /\ Rooms \subseteq Nat \ {0}
    /\ MaxSN \in Nat \ {0} /\ AULimit \in Nat \ {0}
    /\ MaxID \in Nat /\ MaxSources \in Nat

\* Mutation: a frame that does not fill its last packet is cut short.
CountFullPackets(n, room) == n \div room

Count(n, room) == n \div room + (IF n % room = 0 THEN 0 ELSE 1)

\* SN >>= 16 leaves 1, so that 0 is never sent after the wrap.
NextSN(n) == IF n + 1 > MaxSN THEN (n + 1) \div (MaxSN + 1) ELSE n + 1

\* What a player takes for the next number: it counts from 1 and skips 0.
Follows(SN, last) == SN = last + 1 \/ (last = MaxSN /\ SN = 1)

\* The length in the AU header has 13 bits.
AULength(n) == n % AULimit
=============================================================================
