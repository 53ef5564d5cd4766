---------------------------- MODULE MCFlvRemuxer ----------------------------
(* An instance of FlvRemuxer for TLC.                                       *)
EXTENDS FlvRemuxer

CONSTANTS a1, v1

MCKind == [x \in Tracks |-> IF x = a1 THEN "audio" ELSE "video"]
MCMode == [r \in Remuxers |-> {"audio", "video"}]
=============================================================================
