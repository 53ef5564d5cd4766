--------------------------- MODULE MCMediaRecorder --------------------------
(* An instance of MediaRecorder for TLC.                                    *)
EXTENDS MediaRecorder
=============================================================================
