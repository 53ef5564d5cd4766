----------------------------- MODULE ChunkStream -----------------------------
(***************************************************************************)
(* One direction of an RTMP connection: NetConnection.sendBytes cuts       *)
(* messages into chunks with compressed headers, the transport carries     *)
(* them in order, and NetConnection.parseMessage puts them together again. *)
(*                                                                         *)
(* The transport is a sequence of tokens: the header of a chunk is one     *)
(* token, each byte of payload is another.  A receiver that meets a token  *)
(* of the kind it does not expect has lost the chunk boundaries: it would  *)
(* go on with garbage or fail, and is "broken" here.                       *)
(*                                                                         *)
(* Left out: ids of chunk streams of more than one byte (the repository    *)
(* uses 2 to 8; an id above 319 is written low byte last and first the     *)
(* other way round), the message types of AMF3, whether a timestamp is     *)
(* absolute or a delta to those who read the message, messages without     *)
(* bytes, and writes that fail, after which sendBytes returns their error. *)
(***************************************************************************)
EXTENDS Integers, SequencesExt

CONSTANTS
    Writers,        \* goroutines that call sendBytes on the connection
    CSIDs,          \* chunk streams used for ordinary messages
    Control,        \* CSID.PROTOCOL_CONTROL
    Kinds,          \* length, timestamp and message stream of ordinary messages
    ExtTime,        \* 0xFFFFFF: what does not fit the 3-byte field
    ChunkSizes,     \* chunk sizes SetChunkSize is called with
    FirstChunkSize, \* 128
    NoHeader,       \* no header known for a chunk stream
    NoJob,          \* the writer is not in sendBytes
    MaxMessages     \* bound: messages each writer sends

Header == [type : {"data", "setChunkSize"}, length : Nat, time : Nat, stream : Nat]

\* What a writer in sendBytes is at: its message, the format of the next chunk
\* header, and the bytes that are on the wire.
Job == [csid : CSIDs \cup {Control}, header : Header, id : Writers \X Nat,
        arg : ChunkSizes \cup {FirstChunkSize}, fmt : 0..3, i : Nat]

ASSUME ChunkAssumption ==
    /\ Control \notin CSIDs
    /\ NoHeader \notin Header /\ NoJob \notin Job
    /\ Kinds \subseteq [length : Nat \ {0}, time : Nat, stream : Nat]
    /\ ExtTime \in Nat \ {0}
    /\ ChunkSizes \subseteq Nat \ {0} /\ FirstChunkSize \in Nat \ {0}
    /\ MaxMessages \in [Writers -> Nat]

VARIABLES
    headersOut,     \* last header sent on each chunk stream
    nearChunkSize,  \* chunk size of the sender
    job,            \* the message each writer is sending
    started,        \* messages each writer has started (for MaxMessages)
    sent,           \* history: messages in the order of their last chunk
    mixed,          \* history: some message was not sent in one piece
    wire,           \* tokens in flight
    expect,         \* what the parser expects: "header" or "data" (me.state)
    message,        \* the message being put together (me.message)
    messages,       \* last finished message of each chunk stream
    aliases,        \* chunk streams whose entry is the unfinished message
    farChunkSize,   \* chunk size the receiver goes by
    delivered,      \* messages processed, in order
    broken          \* the receiver has lost the chunk boundaries

sender == <<headersOut, nearChunkSize, job, started, sent, mixed>>
receiver == <<expect, message, messages, aliases, farChunkSize, delivered, broken>>
chunkVars == <<sender, wire, receiver>>

EmptyHeader == [type |-> "none", length |-> 0, time |-> 0, stream |-> 0]
NewMessage == [header |-> EmptyHeader, buffer |-> <<>>]

ChunkInit ==
    /\ headersOut = [c \in CSIDs \cup {Control} |-> NoHeader]
    /\ nearChunkSize = FirstChunkSize
    /\ job = [w \in Writers |-> NoJob]
    /\ started = [w \in Writers |-> 0]
    /\ sent = <<>>
    /\ mixed = FALSE
    /\ wire = <<>>
    /\ expect = "header"
    /\ message = NewMessage
    /\ messages = [c \in CSIDs \cup {Control} |-> NoHeader]
    /\ aliases = {}
    /\ farChunkSize = FirstChunkSize
    /\ delivered = <<>>
    /\ broken = FALSE

-----------------------------------------------------------------------------
(* sendBytes                                                               *)

\* Mutation: a change of the message stream does not call for a full header.
FormatAnyStream(last, h) ==
    IF last = NoHeader THEN 0
    ELSE IF h.type # last.type \/ h.length # last.length THEN 1
    ELSE IF h.time # last.time THEN 2 ELSE 3

\* The header format: the fewer fields, the more the message has in common
\* with the last one of its chunk stream.
Format(last, h) ==
    IF last = NoHeader \/ h.stream # last.stream THEN 0
    ELSE IF h.type # last.type \/ h.length # last.length THEN 1
    ELSE IF h.time # last.time THEN 2 ELSE 3

\* Mutation: only the first chunk carries the extended timestamp.
ChunkHeaderExtOnce(csid, f, h) ==
    [csid |-> csid, fmt |-> f,
     time |-> IF f = 3 THEN 0 ELSE IF h.time < ExtTime THEN h.time ELSE ExtTime,
     ext |-> IF h.time >= ExtTime /\ f # 3 THEN <<h.time>> ELSE <<>>,
     length |-> IF f < 2 THEN h.length ELSE 0,
     type |-> IF f < 2 THEN h.type ELSE "none",
     stream |-> IF f = 0 THEN h.stream ELSE 0]

\* The fields a chunk header of format f carries.  Every chunk of a message
\* with a large timestamp carries the extended one.
ChunkHeader(csid, f, h) ==
    [csid |-> csid, fmt |-> f,
     time |-> IF f = 3 THEN 0 ELSE IF h.time < ExtTime THEN h.time ELSE ExtTime,
     ext |-> IF h.time >= ExtTime THEN <<h.time>> ELSE <<>>,
     length |-> IF f < 2 THEN h.length ELSE 0,
     type |-> IF f < 2 THEN h.type ELSE "none",
     stream |-> IF f = 0 THEN h.stream ELSE 0]

\* A byte of payload: the index-th of message id.  The four bytes of a
\* SetChunkSize message stand for the size, arg (in other messages arg is any
\* size: it is read as one only when messages have been mixed).
Byte(id, arg, i) == [id |-> id, arg |-> arg, index |-> i]

\* The writers whose message is not yet wholly on the wire, or who have yet
\* to take over the chunk size they announced.
Sending == {w \in Writers : job[w] # NoJob}

\* sendBytes chooses the format and records the header.
Start(w, csid, h, arg) ==
    /\ job[w] = NoJob
    /\ started[w] < MaxMessages[w]
    /\ started' = [started EXCEPT ![w] = @ + 1]
    /\ job' = [job EXCEPT ![w] =
                 [csid |-> csid, header |-> h, id |-> <<w, started[w]>>, arg |-> arg,
                  fmt |-> Format(headersOut[csid], h), i |-> 0]]
    /\ headersOut' = [headersOut EXCEPT ![csid] = h]
    /\ mixed' = (mixed \/ \E u \in Sending : job[u].csid = csid)
    /\ UNCHANGED <<nearChunkSize, sent, wire, receiver>>

SendData(w) ==
    \E c \in CSIDs, k \in Kinds :
        Start(w, c, [type |-> "data", length |-> k.length, time |-> k.time,
                     stream |-> k.stream], FirstChunkSize)

\* SetChunkSize: four bytes on the control stream.
SetChunkSize(w) ==
    \E n \in ChunkSizes :
        Start(w, Control,
              [type |-> "setChunkSize", length |-> 4, time |-> 0, stream |-> 0], n)

\* One round of the loop in sendBytes: one chunk, in one conn.Write.
WriteChunk(w) ==
    LET j == job[w]
        rest == j.header.length - j.i
        n == IF rest > nearChunkSize THEN nearChunkSize ELSE rest
    IN  /\ j # NoJob
        /\ rest > 0
        /\ wire' = wire \o <<ChunkHeader(j.csid, j.fmt, j.header)>>
                        \o [k \in 1..n |-> Byte(j.id, j.arg, j.i + k)]
        /\ job' = [job EXCEPT ![w].i = j.i + n, ![w].fmt = 3]
        /\ sent' = IF n = rest
                   THEN Append(sent, [header |-> j.header,
                                      payload |-> [k \in 1..j.header.length |->
                                                      Byte(j.id, j.arg, k)]])
                   ELSE sent
        /\ mixed' = (mixed \/ \E u \in Sending \ {w} : job[u].i > 0)
        /\ UNCHANGED <<headersOut, nearChunkSize, started, receiver>>

\* Mutation: SetChunkSize announces a size and goes on with the old one.
ReturnKeepsSize(w) ==
    /\ job[w] # NoJob
    /\ job[w].i = job[w].header.length
    /\ job' = [job EXCEPT ![w] = NoJob]
    /\ UNCHANGED <<nearChunkSize, headersOut, started, sent, mixed, wire, receiver>>

\* sendBytes returns; SetChunkSize then goes by the size it announced.
Return(w) ==
    /\ job[w] # NoJob
    /\ job[w].i = job[w].header.length
    /\ nearChunkSize' = IF job[w].header.type = "setChunkSize"
                        THEN job[w].arg ELSE nearChunkSize
    /\ job' = [job EXCEPT ![w] = NoJob]
    /\ UNCHANGED <<headersOut, started, sent, mixed, wire, receiver>>

-----------------------------------------------------------------------------
(* parseMessage                                                            *)

Next1 == Head(wire)
IsHeader(tok) == "fmt" \in DOMAIN tok

\* What the parser knows of a chunk stream: the entry may be the unfinished
\* message itself.
LastHeader(c) == IF c \in aliases THEN message.header ELSE messages[c]

\* The header of the message after a chunk header k, on top of what is known
\* of the chunk stream.
Known(k) == IF LastHeader(k.csid) = NoHeader THEN message.header
            ELSE LastHeader(k.csid)
WantsExt(k) == IF k.fmt = 3 THEN Known(k).time >= ExtTime ELSE k.time >= ExtTime

Parsed(k) ==
    [type   |-> IF k.fmt < 2 THEN k.type ELSE Known(k).type,
     length |-> IF k.fmt < 2 THEN k.length ELSE Known(k).length,
     time   |-> IF WantsExt(k) THEN k.ext[1]
                ELSE IF k.fmt < 3 THEN k.time ELSE Known(k).time,
     stream |-> IF k.fmt = 0 THEN k.stream ELSE Known(k).stream]

LoseTrack ==
    /\ broken' = TRUE
    /\ wire' = <<>>
    /\ UNCHANGED <<expect, message, messages, aliases, farChunkSize, delivered>>

\* From sw_fmt to sw_data.
ReadHeader ==
    /\ ~broken /\ wire # <<>> /\ expect = "header"
    /\ IF ~(IsHeader(Next1) /\ (WantsExt(Next1) <=> Next1.ext # <<>>))
       THEN LoseTrack
       ELSE /\ message' = [message EXCEPT !.header = Parsed(Next1)]
            /\ aliases' = aliases \cup {Next1.csid}
            /\ expect' = "data"
            /\ wire' = Tail(wire)
            /\ UNCHANGED <<messages, farChunkSize, delivered, broken>>
    /\ UNCHANGED sender

\* The message is complete: process it and start a new one.  The entries
\* that were the unfinished message are now the finished one.
Process(m) ==
    /\ delivered' = Append(delivered, [header |-> m.header, payload |-> m.buffer])
    /\ farChunkSize' = IF m.header.type = "setChunkSize"
                       THEN m.buffer[1].arg ELSE farChunkSize
    /\ message' = NewMessage
    /\ messages' = [c \in DOMAIN messages |->
                       IF c \in aliases THEN m.header ELSE messages[c]]
    /\ aliases' = {}
    /\ expect' = "header"

\* sw_data, one byte at a time: a full chunk is followed by a header.  When
\* another message has cut in, the buffer may already be as long as the
\* message (the byte is then read again) or longer (the slice bounds panic).
\* The lookup of the message stream succeeds: it is open at both ends.
ReadByte ==
    LET m == [message EXCEPT !.buffer = Append(@, Next1)]
        rest == message.header.length - Len(message.buffer)
    IN  /\ ~broken /\ wire # <<>> /\ expect = "data"
        /\ \/ /\ IsHeader(Next1) \/ rest < 0
              /\ LoseTrack
           \/ /\ ~IsHeader(Next1) /\ rest = 0
              /\ Process(message)
              /\ UNCHANGED <<wire, broken>>
           \/ /\ ~IsHeader(Next1) /\ rest = 1
              /\ Process(m)
              /\ wire' = Tail(wire)
              /\ UNCHANGED broken
           \/ /\ ~IsHeader(Next1) /\ rest > 1
              /\ message' = m
              /\ expect' = IF Len(m.buffer) % farChunkSize = 0 THEN "header" ELSE "data"
              /\ wire' = Tail(wire)
              /\ UNCHANGED <<messages, aliases, farChunkSize, delivered, broken>>
        /\ UNCHANGED sender

-----------------------------------------------------------------------------
Parse == ReadHeader \/ ReadByte
Write(w) == WriteChunk(w) \/ Return(w)

Done ==
    /\ started = MaxMessages /\ Sending = {} /\ (wire = <<>> \/ broken)
    /\ UNCHANGED chunkVars

ChunkNext ==
    \/ \E w \in Writers : SendData(w) \/ SetChunkSize(w) \/ Write(w)
    \/ Parse
    \/ Done

ChunkSpec == ChunkInit /\ [][ChunkNext]_chunkVars

\* A goroutine in sendBytes runs on, and so does the reading one.
FairChunkSpec == ChunkSpec /\ WF_chunkVars(Parse) /\ \A w \in Writers : WF_chunkVars(Write(w))

-----------------------------------------------------------------------------
(* Properties.                                                             *)

TypeOK ==
    /\ \A c \in DOMAIN headersOut : headersOut[c] = NoHeader \/ headersOut[c] \in Header
    /\ nearChunkSize \in ChunkSizes \cup {FirstChunkSize}
    /\ farChunkSize \in ChunkSizes \cup {FirstChunkSize}
    /\ \A w \in Writers : started[w] \in 0..MaxMessages[w]
    /\ mixed \in BOOLEAN /\ broken \in BOOLEAN
    /\ expect \in {"header", "data"}
    /\ aliases \subseteq DOMAIN messages
    /\ Len(sent) =< SumFunction(started)

\* As long as messages are sent one after the other, the receiver gets every
\* message as it was sent, in order: headers left out by compression are
\* restored, extended timestamps and changes of the chunk size do not lose
\* the chunk boundaries (sendBytes, SetChunkSize, parseMessage, process).
DeliveredAsSent == ~mixed => ~broken /\ IsPrefix(delivered, sent)

\* A change of the chunk size takes effect at the same message for both
\* ends: with nothing in flight the receiver goes by the size of the sender,
\* and both hold the same header for each chunk stream, against which the
\* next message can be compressed (SetChunkSize, process, parseMessage).
EndsAgree ==
    ~mixed /\ wire = <<>> /\ Sending = {} =>
        /\ nearChunkSize = farChunkSize
        /\ \A c \in DOMAIN headersOut : messages[c] = headersOut[c]

\* Again and again everything sent in one piece has arrived: the parser never
\* waits for a header or a byte that will not come (sendBytes, parseMessage).
EverythingArrives == []<>(mixed \/ delivered = sent)
=============================================================================
