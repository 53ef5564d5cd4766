--------------------------- MODULE MCChunkStream ---------------------------
(* An instance of ChunkStream for TLC: a writer that sends two messages and *)
(* one that sends a single one, at any time.  Between two messages of a     *)
(* chunk stream nothing, the length, the stream or all may change.          *)
EXTENDS ChunkStream, TLC

CONSTANTS w1, w2

MCWriters == {w1, w2}
MCMaxMessages == (w1 :> 2) @@ (w2 :> 1)

Kind(n, t, s) == [length |-> n, time |-> t, stream |-> s]
MCKinds == {Kind(3, 20, 0), Kind(1, 20, 0), Kind(3, 20, 1), Kind(3, 0, 0)}
=============================================================================
