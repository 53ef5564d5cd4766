---------------------------- MODULE MCRtmpCalls ----------------------------
(* Instances of RtmpCalls for TLC.                                         *)
EXTENDS RtmpCalls
=============================================================================
