----------------------------- MODULE FlvDemuxer -----------------------------
(***************************************************************************)
(* FLV.Append: the bytes of an FLV stream, cut anywhere, become packets.   *)
(* The stream is what Header and format of the same file write; the        *)
(* listener of a packet may Reset the demuxer, and a caller may between    *)
(* two calls of Append.                                                    *)
(***************************************************************************)
EXTENDS Integers, Sequences, SequencesExt

CONSTANTS
    Streams,     \* streams, each a sequence of tags
    MaxStreams   \* bound: streams one after another

VARIABLES
    tags,        \* the tags of the stream
    input,       \* its bytes that have not been appended
    bytes,       \* the rest of the argument of Append
    state,       \* sw_f .. sw_payload
    packet,      \* the packet being read
    delivered,   \* history: the packets dispatched
    streams,     \* streams begun (for MaxStreams)
    damaged,     \* history: the stream does not begin with "FLV"
    erred,       \* history: an ERROR was dispatched
    panicked,    \* history: Append panicked
    misled       \* history: a listener called Reset

demuxVars ==
    <<tags, input, bytes, state, packet, delivered, streams, damaged, erred, panicked, misled>>

sw_f == 0
sw_version == 3
sw_backpointer0 == 9
sw_type == 13
sw_length0 == 14
sw_streamid2 == 23
sw_payload == 24

KindAudio == 8
KindVideo == 9
KindScript == 18

\* What format is given; a length has three bytes, a timestamp has four.
Tag ==
    {t \in [kind : {KindAudio, KindVideo, KindScript}, timestamp : Nat, payload : Seq(0..255)] :
       Len(t.payload) < 16777216 /\ t.timestamp \div 16777216 < 256}

ASSUME DemuxAssumption == Streams \subseteq Seq(Tag)

\* The field and the weight of each byte between the type and the payload; the
\* highest byte of the timestamp comes last.
ByteOf ==
    <<<<"Length", 65536>>, <<"Length", 256>>, <<"Length", 1>>,
      <<"Timestamp", 65536>>, <<"Timestamp", 256>>, <<"Timestamp", 1>>, <<"Timestamp", 16777216>>,
      <<"StreamID", 65536>>, <<"StreamID", 256>>, <<"StreamID", 1>>>>

-----------------------------------------------------------------------------
(* The stream.                                                             *)

\* "FLV", the version, the flags, the length of the header and a backpointer.
FlvHeader == <<70, 76, 86, 1, 5, 0, 0, 0, 9, 0, 0, 0, 0>>

Bytes(n, weights) == [i \in DOMAIN weights |-> (n \div weights[i]) % 256]

\* format: the stream id is written as 0, and the backpointer ends the tag.
TagBytes(t) ==
    LET length == Len(t.payload)
    IN  <<t.kind>> \o Bytes(length, <<65536, 256, 1>>)
        \o Bytes(t.timestamp, <<65536, 256, 1, 16777216>>) \o <<0, 0, 0>>
        \o t.payload \o Bytes(length + 11, <<16777216, 65536, 256, 1>>)

Packet(t) ==
    [kind |-> t.kind, Length |-> Len(t.payload), Timestamp |-> t.timestamp, StreamID |-> 0,
     Payload |-> t.payload]

NoPacket == [kind |-> 0, Length |-> 0, Timestamp |-> 0, StreamID |-> 0, Payload |-> <<>>]

\* Init of the class, which Reset runs again.
DemuxInit ==
    /\ tags = <<>> /\ input = <<>> /\ bytes = <<>>
    /\ state = sw_f /\ packet = NoPacket
    /\ delivered = <<>> /\ streams = 0
    /\ damaged = FALSE /\ erred = FALSE /\ panicked = FALSE /\ misled = FALSE

\* A new stream for a demuxer that is new or has been reset, by a listener too;
\* a bad one begins with another byte.
Open(ts, bad) ==
    /\ bytes = <<>> /\ ((state = sw_f /\ input = <<>>) \/ misled)
    /\ streams < MaxStreams
    /\ streams' = streams + 1
    /\ tags' = ts
    /\ input' = LET s == FlvHeader \o FlattenSeq([i \in DOMAIN ts |-> TagBytes(ts[i])])
                IN  IF bad THEN [s EXCEPT ![1] = 0] ELSE s
    /\ damaged' = bad
    /\ delivered' = <<>> /\ erred' = FALSE /\ panicked' = FALSE
    /\ UNCHANGED <<bytes, state, packet, misled>>

\* Reset between two calls of Append; what is left of the stream is dropped.
Reset ==
    /\ streams > 0 /\ bytes = <<>>
    /\ state' = sw_f /\ packet' = NoPacket
    /\ input' = <<>> /\ tags' = <<>> /\ delivered' = <<>>
    /\ damaged' = FALSE /\ erred' = FALSE /\ panicked' = FALSE /\ misled' = FALSE
    /\ UNCHANGED <<bytes, streams>>

-----------------------------------------------------------------------------
(* Append.                                                                 *)

AppendBytes(n) ==
    /\ bytes = <<>>
    /\ bytes' = SubSeq(input, 1, n)
    /\ input' = SubSeq(input, n + 1, Len(input))
    /\ UNCHANGED <<tags, state, packet, delivered, streams, damaged, erred, panicked, misled>>

Unchanged == UNCHANGED <<tags, input, streams, damaged>>

\* An ERROR is dispatched and Append returns: the rest of its data is lost.
DataError ==
    /\ erred' = TRUE
    /\ bytes' = <<>>
    /\ UNCHANGED <<state, packet, delivered, panicked, misled>>
    /\ Unchanged

Consume(p) ==
    /\ state' = state + 1
    /\ bytes' = Tail(bytes)
    /\ packet' = p
    /\ UNCHANGED <<delivered, erred, panicked, misled>>
    /\ Unchanged

Signature ==
    /\ bytes # <<>> /\ state < sw_version
    /\ IF Head(bytes) = FlvHeader[state + 1] THEN Consume(packet) ELSE DataError

\* The version, the flags, the rest of the header and every backpointer are
\* read over.
SkipByte ==
    /\ bytes # <<>> /\ sw_version <= state /\ state < sw_type
    /\ Consume(packet)

TagType ==
    /\ bytes # <<>> /\ state = sw_type
    /\ IF Head(bytes) \in {KindAudio, KindVideo, KindScript}
       THEN Consume([NoPacket EXCEPT !.kind = Head(bytes)])
       ELSE DataError

TagField ==
    /\ bytes # <<>> /\ sw_length0 <= state /\ state <= sw_streamid2
    /\ LET b == ByteOf[state - sw_length0 + 1]
       IN  Consume([packet EXCEPT ![b[1]] = @ + Head(bytes) * b[2]])

\* Mutation: the loop steps over the byte behind the payload.
PieceAndOne(n) == SubSeq(bytes, n + 2, Len(bytes))

\* i += n - 1, and i++ of the loop.
Piece(n) == SubSeq(bytes, n + 1, Len(bytes))

\* A tag with sound or pictures has two bytes at least: Append reads them.
TooShort(p) == p.kind # KindScript /\ p.Length < 2

\* As much of the payload as there is; an empty one ends before its first byte.
Payload ==
    /\ bytes # <<>> /\ state = sw_payload
    /\ LET left == packet.Length - Len(packet.Payload)
           n == IF left < Len(bytes) THEN left ELSE Len(bytes)
           p == [packet EXCEPT !.Payload = @ \o SubSeq(bytes, 1, n)]
       IN  \/ /\ n < left
              /\ packet' = p /\ bytes' = Piece(n)
              /\ UNCHANGED <<state, delivered, erred, panicked, misled>>
           \/ /\ n = left /\ TooShort(p)
              /\ panicked' = TRUE
              /\ packet' = p /\ bytes' = <<>>
              /\ UNCHANGED <<state, delivered, erred, misled>>
           \/ /\ n = left /\ ~TooShort(p)
              /\ delivered' = Append(delivered, p)
              /\ bytes' = Piece(n)
              \* A listener that calls Reset clears the packet; the state it
              \* sets is overwritten.
              /\ \/ packet' = p /\ UNCHANGED misled
                 \/ packet' = NoPacket /\ misled' = TRUE
              /\ state' = sw_backpointer0
              /\ UNCHANGED <<erred, panicked>>
    /\ Unchanged

DemuxNext ==
    \/ \E ts \in Streams, bad \in BOOLEAN : Open(ts, bad)
    \/ Reset
    \/ \E n \in 1..Len(input) : AppendBytes(n)
    \/ Signature \/ SkipByte \/ TagType \/ TagField \/ Payload

DemuxSpec == DemuxInit /\ [][DemuxNext]_demuxVars

-----------------------------------------------------------------------------
(* Properties.                                                             *)

\* However the stream is cut, the packets are its tags, one for one, and none
\* is missing when the last byte has been read; no ERROR is dispatched, and
\* Append panics only on a tag of sound or pictures shorter than two bytes.
\* This holds after Reset, too, but not when a listener called it from within
\* Append.
PacketsAreTheTags ==
    ~damaged /\ ~misled =>
        /\ ~erred
        /\ Len(delivered) <= Len(tags)
        /\ \A i \in DOMAIN delivered : delivered[i] = Packet(tags[i])
        /\ panicked => TooShort(Packet(tags[Len(delivered) + 1]))
        /\ input = <<>> /\ bytes = <<>> /\ ~panicked => Len(delivered) = Len(tags)
=============================================================================
