--------------------------- MODULE FlvRemuxerProofs ---------------------------
(***************************************************************************)
(* Proofs about FlvRemuxer, for any tracks, remuxers and bounds.  The      *)
(* invariant, Inv, has three parts.  StreamInv: who holds which lock, what *)
(* the dispatch is at, the tracks of the stream and their ids.  TagInv:    *)
(* the timestamps, and what was made of the packet being dispatched.       *)
(* RemuxInv: where each remuxer is registered at each step of Source,      *)
(* Close and its handlers.  Every remuxer is treated by itself: a step is  *)
(* its own, that of another (Elsewhere), or the publisher's (Publishes).   *)
(***************************************************************************)
EXTENDS FlvRemuxer, Induction, FiniteSetTheorems, SequenceTheorems, TLAPS

Events == ToSet(StreamEvents)
Sources(ms) == {ms.tracks[i].source : i \in DOMAIN ms.tracks}
TracksOf(ms) == {ms.tracks[i].track : i \in DOMAIN ms.tracks}

-----------------------------------------------------------------------------
(* Who is where, and holds what.                                           *)

InSource == {"metadata", "tracks", "attach", "sink", "listen"}
InClose == {"unsink", "unlisten"}

\* A goroutine that holds the mutex of a remuxer.
Busy(t) == call[t].pc \in InSource \cup InClose

\* What a goroutine has left to do.
LeftOK(t) ==
    /\ call[t].pc \in {"attach", "sink"} => call[t].left \in Seq(Tracks) /\ call[t].left # <<>>
    /\ call[t].pc = "unsink" =>
          call[t].left \in Seq(Tracks \cup {NoSource}) /\ call[t].left # <<>>
    /\ call[t].pc \in {"listen", "unlisten"} =>
          call[t].left \in Seq(Events) /\ call[t].left # <<>>

CallOK(t) ==
    /\ LeftOK(t)
    /\ call[t].pc = "idle" <=> call[t].remuxer = Nobody
    /\ call[t].pc \in InSource => call[t].remuxer = t /\ t \in using
    /\ t \in Remuxers /\ call[t].pc # "idle" => call[t].remuxer = t
    /\ t \in Remuxers /\ call[t].pc \in InClose \cup {"lock"} => t \notin using

CallsOK ==
    /\ call \in [Threads -> Call]
    /\ mtx \in [Remuxers -> Threads \cup {Nobody}]
    /\ using \subseteq Remuxers
    /\ \A t \in Threads : CallOK(t)
    /\ \A r \in Remuxers, t \in Threads : mtx[r] = t <=> call[t].remuxer = r /\ Busy(t)

Dispatching(e) == dispatch.pc \in {"lock", "run"} /\ dispatch.event = e

\* The phases of a dispatch.
PhaseOK ==
    /\ dispatch.pc = "idle" => dispatch = Quiet
    /\ dispatch.pc \in {"lock", "run"} => dispatch.event \in Events
    /\ dispatch.pc = "stop" => dispatch.event = "removetrack"
    /\ Dispatching("addtrack") \/ Dispatching("removetrack") => dispatch.track \in Tracks
    /\ Dispatching("packet") \/ Dispatching("error") \/ Dispatching("close") =>
          dispatch.track = NoSource
    /\ dispatch.pc = "packet" =>
          dispatch.track \in Tracks /\ dispatch.packet \in Types(dispatch.track)

\* Who has still to be told, and who is being told.
TodoOK ==
    /\ dispatch.pc = "run" => dispatch.todo \subseteq listeners[dispatch.event]
    /\ dispatch.pc = "packet" => dispatch.todo \subseteq sinks[dispatch.track]
    /\ dispatch.adding # Nobody =>
          /\ dispatch.pc = "run" /\ dispatch.event = "addtrack"
          /\ dispatch.adding \in listeners["addtrack"] \ dispatch.todo
    /\ call[Publisher].pc # "idle" =>
          /\ dispatch.pc = "run" /\ dispatch.event \in {"error", "close"}
          /\ call[Publisher].remuxer \notin dispatch.todo

\* Whose turn it is.
LocksOK ==
    /\ streamDisp = IF dispatch.pc = "run" THEN Publisher ELSE Nobody
    /\ sourceDisp \in [Tracks -> {Publisher, Nobody}]
    /\ \A x \in Tracks : sourceDisp[x] = Publisher <=> dispatch.pc = "packet" /\ dispatch.track = x

DispatchOK ==
    /\ dispatch \in Dispatch
    /\ listeners \in [Events -> SUBSET Remuxers] /\ sinks \in [Tracks -> SUBSET Remuxers]
    /\ PhaseOK /\ TodoOK /\ LocksOK

-----------------------------------------------------------------------------
(* The stream.                                                             *)

\* The publisher closes the stream.
Closing ==
    \/ dispatch.pc = "stop"
    \/ Dispatching("removetrack") /\ dispatch.track \in stopped

OneEach(ms) ==
    \A i, j \in DOMAIN ms.tracks : ms.tracks[i].track = ms.tracks[j].track => i = j

StreamOK ==
    /\ stream \in MediaStreams /\ OneEach(stream)
    /\ stopped \subseteq Tracks
    /\ streamMtx = IF dispatch.pc = "stop" \/ Dispatching("addtrack") \/ Dispatching("removetrack")
                   THEN Publisher ELSE Nobody
    /\ TracksOf(stream) \cap stopped # {} => Closing
    /\ Dispatching("removetrack") /\ ~Closing => dispatch.track \notin TracksOf(stream)
    /\ Dispatching("addtrack") => dispatch.track \notin stopped

\* The tracks r has still to attach in Source.
Attaching(r) ==
    IF call[r].pc \in {"attach", "sink"} THEN ToSet(call[r].left) ELSE {}

\* Nobody knows a track before it is added.
Known(x) ==
    \/ x \in TracksOf(stream) \cup infoframe \cup stopped
    \/ x = dispatch.track \/ x \in ToSet(dispatch.closing)
    \/ \E r \in Remuxers : r \in sinks[x] \/ x \in Sources(own[r]) \/ x \in Attaching(r)

FreshOK ==
    /\ ids \in [Tracks -> Nat] /\ infoframe \subseteq Tracks
    /\ own \in [Remuxers -> MediaStreams]
    /\ \A x \in Tracks : ids[x] = 0 => ~Known(x)

-----------------------------------------------------------------------------
(* The ids.                                                                *)

IdsOK(ms) ==
    /\ ms.index # 0
    /\ \A i \in DOMAIN ms.tracks : ms.tracks[i].id # 0 /\ ms.tracks[i].id < ms.index
    /\ \A i, j \in DOMAIN ms.tracks : ms.tracks[i].id = ms.tracks[j].id => i = j

IdsInv ==
    /\ IdsOK(stream)
    /\ \A r \in Remuxers : IdsOK(own[r])
    /\ \A i \in DOMAIN stream.tracks : stream.tracks[i].id = ids[stream.tracks[i].track]
    /\ ~closed => \A x, y \in Tracks :
          ids[x] < stream.index /\ (ids[x] = ids[y] /\ ids[x] # 0 => x = y)

-----------------------------------------------------------------------------
(* Tags.                                                                   *)

TimesOK ==
    /\ acts \in Nat /\ acts =< MaxActs
    /\ timeBase \in [Remuxers -> Nat] /\ started \in [Remuxers -> Nat]
    /\ \A r \in Remuxers : started[r] =< acts
    /\ dispatch.pc = "packet" =>
          /\ dispatch.pts =< acts
          /\ Kind[dispatch.track] = "video" => \A r \in Remuxers : started[r] =< dispatch.pts

\* Frames are stamped relative to the packet that started the pumping.
Stamped(r) ==
    r \notin rebased /\ tag[r] # NoTag =>
        \/ tag[r].pts >= started[r] /\ tag[r].ts = tag[r].pts - started[r]
        \/ /\ tag[r].pts < started[r] /\ Kind[tag[r].track] = "audio"
           /\ tag[r].ts = Modulus - (started[r] - tag[r].pts)

TagOK(r) ==
    /\ readyState[r] = "pumping" /\ r \notin rebased => timeBase[r] = started[r]
    /\ readyState[r] = "pumping" => r \in keyed \cup blind
    /\ tag[r] # NoTag =>
          /\ dispatch.pc = "packet" /\ tag[r].track = dispatch.track /\ r \notin dispatch.todo
    /\ tag[r].type = "inter" => r \in keyed \cup blind /\ "keyframe" \notin Mode[r]
    /\ Stamped(r)

TagTypes ==
    /\ tag \in [Remuxers -> Tag \cup {NoTag}]
    /\ readyState \in [Remuxers -> {"inactive", "waiting", "pumping"}]
    /\ keyed \subseteq Remuxers /\ rebased \subseteq Remuxers /\ blind \subseteq Remuxers

TagInv == TimesOK /\ TagTypes /\ \A r \in Remuxers : TagOK(r)

-----------------------------------------------------------------------------
(* Attaching and detaching.                                                *)

ClonesOK(ms) ==
    \A i \in DOMAIN ms.tracks : ms.tracks[i].source \in {ms.tracks[i].track, NoSource}

CrippledOK(r) ==
    /\ Crippled(r) => raced[r] # {}
    /\ \A t \in Threads : call[t].remuxer = r =>
          /\ call[t].pc = "unsink" => (NoSource \in ToSet(call[t].left) <=> Crippled(r))
          /\ call[t].pc = "unlisten" => ~Crippled(r)

StatesOK(r) ==
    /\ call[r].pc \in InSource => readyState[r] # "inactive"
    /\ \A t \in Threads : call[t].remuxer = r /\ call[t].pc \in InClose => readyState[r] = "inactive"
    /\ r \notin using /\ call[r].pc = "idle" => readyState[r] = "inactive"

\* The dispatch of a new track that r has yet to see to.
Pending(r, x) ==
    /\ Dispatching("addtrack") /\ dispatch.track = x
    /\ dispatch.pc = "lock" \/ r \in dispatch.todo

PendingOK(r) ==
    \A x \in Tracks : Pending(r, x) => x \notin Sources(own[r]) \cup Attaching(r)

BrokenOK(r) == ClonesOK(own[r]) /\ CrippledOK(r) /\ StatesOK(r) /\ PendingOK(r)

\* Where r is registered.
ListensOK(r) ==
    /\ mtx[r] = Nobody /\ readyState[r] = "inactive" =>
          own[r] = EmptyStream /\ ~source[r] /\ \A e \in Events : r \notin listeners[e]
    /\ mtx[r] = Nobody /\ readyState[r] # "inactive" =>
          source[r] /\ \A e \in Events : r \in listeners[e]
    /\ mtx[r] # Nobody => source[r]
    /\ call[r].pc \in {"metadata", "tracks"} => own[r] = EmptyStream
    /\ call[r].pc \in {"metadata", "tracks", "attach", "sink"} =>
          \A e \in Events : r \notin listeners[e]
    /\ call[r].pc = "sink" => Head(call[r].left) \in Sources(own[r])
    /\ call[r].pc = "listen" => \A e \in Events : r \in listeners[e] \/ e \in ToSet(call[r].left)
    /\ \A t \in Threads : call[t].remuxer = r /\ call[t].pc = "unlisten" =>
          \A e \in Events : r \in listeners[e] => e \in ToSet(call[t].left)
    /\ dispatch.adding = r => dispatch.track \in Sources(own[r])

SinksOK(r) ==
    \A x \in Tracks : r \in sinks[x] /\ x \notin raced[r] =>
        /\ x \in Sources(own[r])
        /\ \A t \in Threads : call[t].remuxer = r =>
              /\ call[t].pc = "unsink" => x \in ToSet(call[t].left)
              /\ call[t].pc # "unlisten"

AttachedOK(r) ==
    readyState[r] # "inactive" /\ call[r].pc \notin {"metadata", "tracks"} =>
        \A x \in TracksOf(stream) : Wants(r, x) =>
            \/ r \in sinks[x] \/ x \in raced[r] \/ x \in Attaching(r)
            \/ Pending(r, x) \/ (dispatch.adding = r /\ dispatch.track = x)

HeaderComes(r, x) ==
    /\ dispatch.pc = "packet" /\ dispatch.packet = "header"
    /\ dispatch.track = x /\ r \in dispatch.todo

HeardOK(r) ==
    /\ readyState[r] # "inactive" => \A x \in Sources(own[r]) \cap infoframe :
          x \in heard[r] \cup unheard[r] \/ HeaderComes(r, x)
    /\ tag[r] # NoTag /\ tag[r].first = tag[r].track =>
          tag[r].track \in heard[r] \cup unheard[r]

SoundOK(r) == ListensOK(r) /\ SinksOK(r) /\ AttachedOK(r) /\ HeardOK(r)

RemuxOK(r) ==
    /\ BrokenOK(r) /\ (Crippled(r) \/ SoundOK(r))
    /\ r \in panics => raced[r] # {}

RemuxTypes ==
    /\ source \in [Remuxers -> BOOLEAN]
    /\ heard \in [Remuxers -> SUBSET Tracks] /\ unheard \in [Remuxers -> SUBSET Tracks]
    /\ raced \in [Remuxers -> SUBSET Tracks] /\ panics \subseteq Remuxers

RemuxInv == RemuxTypes /\ \A r \in Remuxers : RemuxOK(r)


-----------------------------------------------------------------------------
(* Sequences and streams.                                                  *)

LEMMA FirstMatches ==
    ASSUME NEW ms \in MediaStreams, NEW P, P \subseteq DOMAIN ms.tracks, P # {}
    PROVE  First(P) \in P
<1>1. P \in SUBSET Nat
    BY DEF MediaStreams
<1>2. \E m \in P : \A k \in P : m <= k
    BY <1>1, HasLeast
<1> QED
    BY <1>2 DEF First

LEMMA SetOf ==
    ASSUME NEW S, NEW s \in Seq(S)
    PROVE  ToSet(s) \in SUBSET S /\ (ToSet(s) = {} <=> s = <<>>)
<1>1. s \in [1..Len(s) -> S] /\ DOMAIN s = 1..Len(s) /\ Len(s) \in Nat
    OBVIOUS
<1>2. s = <<>> <=> Len(s) = 0
    OBVIOUS
<1>3. ToSet(s) \in SUBSET S
    BY <1>1 DEF ToSet
<1>4. ASSUME Len(s) # 0 PROVE ToSet(s) # {}
    <2>1. 1 \in DOMAIN s
        BY <1>1, <1>4
    <2> QED
        BY <2>1 DEF ToSet
<1>5. ASSUME Len(s) = 0 PROVE ToSet(s) = {}
    <2>1. DOMAIN s = {}
        BY <1>1, <1>5
    <2> QED
        BY <2>1 DEF ToSet
<1> QED
    BY <1>2, <1>3, <1>4, <1>5

\* What a goroutine does next, and what it has left after that.
LEMMA HeadAndTail ==
    ASSUME NEW S, NEW s \in Seq(S), s # <<>>
    PROVE  /\ Head(s) \in S /\ Head(s) \in ToSet(s)
           /\ Tail(s) \in Seq(S)
           /\ ToSet(Tail(s)) \subseteq ToSet(s)
           /\ \A x \in ToSet(s) : x = Head(s) \/ x \in ToSet(Tail(s))
           /\ Len(s) = 1 <=> Tail(s) = <<>>
<1>1. Len(s) \in Nat /\ Len(s) # 0 /\ DOMAIN s = 1..Len(s) /\ \A i \in 1..Len(s) : s[i] \in S
    OBVIOUS
<1>2. /\ Tail(s) \in Seq(S) /\ Len(Tail(s)) = Len(s) - 1 /\ DOMAIN Tail(s) = 1..(Len(s) - 1)
      /\ \A i \in 1..(Len(s) - 1) : Tail(s)[i] = s[i + 1]
    OBVIOUS
<1>3. Head(s) = s[1]
    OBVIOUS
<1>4. Len(s) = 1 <=> Tail(s) = <<>>
    <2>1. Tail(s) = <<>> <=> Len(Tail(s)) = 0
        BY <1>2, EmptySeq
    <2> QED
        BY <1>1, <1>2, <2>1
<1>5. ASSUME NEW x \in ToSet(s) PROVE x = Head(s) \/ x \in ToSet(Tail(s))
    <2>1. PICK i \in 1..Len(s) : x = s[i]
        BY <1>1, <1>5 DEF ToSet
    <2>2. CASE i = 1
        BY <1>3, <2>1, <2>2
    <2>3. CASE i # 1
        <3>1. i - 1 \in 1..(Len(s) - 1) /\ Tail(s)[i - 1] = x
            BY <1>1, <1>2, <2>1, <2>3
        <3> QED
            BY <1>2, <3>1 DEF ToSet
    <2> QED
        BY <2>2, <2>3
<1>6. ASSUME NEW x \in ToSet(Tail(s)) PROVE x \in ToSet(s)
    <2>1. PICK i \in 1..(Len(s) - 1) : x = Tail(s)[i]
        BY <1>2, <1>6 DEF ToSet
    <2>2. i + 1 \in 1..Len(s) /\ s[i + 1] = x
        BY <1>1, <1>2, <2>1
    <2> QED
        BY <1>1, <2>2 DEF ToSet
<1>7. Head(s) \in S /\ Head(s) \in ToSet(s)
    BY <1>1, <1>3 DEF ToSet
<1> QED
    BY <1>2, <1>4, <1>5, <1>6, <1>7

\* The entries of a stream.
LEMMA StreamShape ==
    ASSUME NEW ms \in MediaStreams
    PROVE  /\ ms.index \in Nat /\ ms.tracks \in Seq(Entry) /\ Len(ms.tracks) \in Nat
           /\ DOMAIN ms.tracks = 1..Len(ms.tracks)
           /\ \A i \in DOMAIN ms.tracks :
                /\ ms.tracks[i].track \in Tracks /\ ms.tracks[i].id \in Nat
                /\ ms.tracks[i].source \in Tracks \cup {NoSource}
           /\ Sources(ms) \subseteq Tracks \cup {NoSource} /\ TracksOf(ms) \subseteq Tracks
<1>1. ms.index \in Nat /\ ms.tracks \in Seq(Entry)
    BY DEF MediaStreams
<1>2. Len(ms.tracks) \in Nat /\ DOMAIN ms.tracks = 1..Len(ms.tracks)
    BY <1>1
<1>3. ASSUME NEW i \in DOMAIN ms.tracks
      PROVE  /\ ms.tracks[i].track \in Tracks /\ ms.tracks[i].id \in Nat
             /\ ms.tracks[i].source \in Tracks \cup {NoSource}
    <2>1. ms.tracks[i] \in Entry
        BY <1>1, <1>2, <1>3
    <2> QED
        BY <2>1 DEF Entry
<1> QED
    BY <1>1, <1>2, <1>3 DEF Sources, TracksOf

LEMMA EmptyFacts ==
    /\ EmptyStream \in MediaStreams /\ IdsOK(EmptyStream) /\ OneEach(EmptyStream)
    /\ ClonesOK(EmptyStream) /\ Sources(EmptyStream) = {} /\ TracksOf(EmptyStream) = {}
<1>1. EmptyStream.index = 1 /\ EmptyStream.tracks = <<>> /\ DOMAIN EmptyStream.tracks = {}
    BY DEF EmptyStream
<1>2. EmptyStream \in MediaStreams
    BY DEF EmptyStream, MediaStreams
<1>3. IdsOK(EmptyStream) /\ OneEach(EmptyStream) /\ ClonesOK(EmptyStream)
    BY <1>1 DEF IdsOK, OneEach, ClonesOK
<1>4. Sources(EmptyStream) = {} /\ TracksOf(EmptyStream) = {}
    BY <1>1 DEF Sources, TracksOf
<1> QED
    BY <1>2, <1>3, <1>4

\* A track that is added comes last.
LEMMA NewTrackIs ==
    ASSUME NEW ms \in MediaStreams, NEW t \in Tracks, NEW s \in Tracks \cup {NoSource},
           NEW new, new = NewTrack(ms, t, s)
    PROVE  /\ new \in MediaStreams /\ new.index = ms.index + 1
           /\ DOMAIN ms.tracks = 1..Len(ms.tracks) /\ DOMAIN new.tracks = 1..(Len(ms.tracks) + 1)
           /\ Len(new.tracks) = Len(ms.tracks) + 1
           /\ \A i \in 1..Len(ms.tracks) : new.tracks[i] = ms.tracks[i]
           /\ new.tracks[Len(ms.tracks) + 1].track = t /\ new.tracks[Len(ms.tracks) + 1].source = s
           /\ new.tracks[Len(ms.tracks) + 1].id = ms.index
           /\ ms.index \in Nat /\ Len(ms.tracks) \in Nat
<1> DEFINE n == Len(ms.tracks)
           entry == [track |-> t, id |-> ms.index, source |-> s]
<1>1. /\ ms.index \in Nat /\ ms.tracks \in Seq(Entry) /\ n \in Nat /\ DOMAIN ms.tracks = 1..n
    BY StreamShape
<1>2. entry \in Entry
    BY <1>1 DEF Entry
<1>3. new.index = ms.index + 1 /\ new.tracks = Append(ms.tracks, entry)
    BY DEF NewTrack
<1> HIDE DEF entry
<1>4. /\ Append(ms.tracks, entry) \in Seq(Entry) /\ Len(Append(ms.tracks, entry)) = n + 1
      /\ \A i \in 1..n : Append(ms.tracks, entry)[i] = ms.tracks[i]
      /\ Append(ms.tracks, entry)[n + 1] = entry
    BY <1>1, <1>2, AppendProperties
<1>5. new \in MediaStreams
    BY <1>1, <1>3, <1>4 DEF MediaStreams, NewTrack, entry
<1>6. /\ DOMAIN new.tracks = 1..(n + 1) /\ Len(new.tracks) = n + 1
      /\ \A i \in 1..n : new.tracks[i] = ms.tracks[i]
      /\ new.tracks[n + 1] = entry
    BY <1>1, <1>3, <1>4, <1>5, StreamShape
<1>7. entry.track = t /\ entry.id = ms.index /\ entry.source = s
    BY DEF entry
<1> QED
    BY <1>1, <1>3, <1>5, <1>6, <1>7

LEMMA NewTrackSets ==
    ASSUME NEW ms \in MediaStreams, NEW t \in Tracks, NEW s \in Tracks \cup {NoSource},
           NEW new, new = NewTrack(ms, t, s)
    PROVE  Sources(new) = Sources(ms) \cup {s} /\ TracksOf(new) = TracksOf(ms) \cup {t}
<1> DEFINE n == Len(ms.tracks)
<1>1. /\ DOMAIN ms.tracks = 1..n /\ DOMAIN new.tracks = 1..(n + 1) /\ n \in Nat
      /\ \A i \in 1..n : new.tracks[i] = ms.tracks[i]
      /\ new.tracks[n + 1].track = t /\ new.tracks[n + 1].source = s
    BY NewTrackIs
<1> HIDE DEF n
<1>2. \A i \in 1..(n + 1) : i \in 1..n \/ i = n + 1
    BY <1>1
<1>3. n + 1 \in 1..(n + 1) /\ \A i \in 1..n : i \in 1..(n + 1)
    BY <1>1
<1> QED
    BY <1>1, <1>2, <1>3 DEF Sources, TracksOf

LEMMA NewTrackFacts ==
    ASSUME NEW ms \in MediaStreams, NEW t \in Tracks, NEW s \in Tracks \cup {NoSource},
           NEW new, new = NewTrack(ms, t, s)
    PROVE  /\ new \in MediaStreams /\ new.index = ms.index + 1
           /\ IdsOK(ms) => IdsOK(new)
           /\ ClonesOK(ms) /\ s \in {t, NoSource} => ClonesOK(new)
           /\ OneEach(ms) /\ t \notin TracksOf(ms) => OneEach(new)
<1> DEFINE n == Len(ms.tracks)
<1>1. /\ DOMAIN ms.tracks = 1..n /\ DOMAIN new.tracks = 1..(n + 1) /\ n \in Nat /\ ms.index \in Nat
      /\ \A i \in 1..n : new.tracks[i] = ms.tracks[i]
      /\ new.tracks[n + 1].track = t /\ new.tracks[n + 1].source = s
    BY NewTrackIs
<1>7. new \in MediaStreams /\ new.index = ms.index + 1 /\ new.tracks[n + 1].id = ms.index
    BY NewTrackIs
<1>2. \A i \in 1..n : ms.tracks[i].id \in Nat
    BY <1>1, StreamShape
<1> HIDE DEF n
<1>3. \A i \in 1..(n + 1) : i \in 1..n \/ i = n + 1
    BY <1>1
<1>4. ASSUME IdsOK(ms) PROVE IdsOK(new)
    <2>1. \A i \in 1..(n + 1) : new.tracks[i].id # 0 /\ new.tracks[i].id < ms.index + 1
        <3> TAKE i \in 1..(n + 1)
        <3>1. CASE i \in 1..n
            <4>1. ms.tracks[i].id # 0 /\ ms.tracks[i].id < ms.index /\ ms.tracks[i].id \in Nat
                BY <1>1, <1>2, <1>4, <3>1 DEF IdsOK
            <4>2. new.tracks[i] = ms.tracks[i]
                BY <1>1, <3>1
            <4> QED
                BY <1>1, <4>1, <4>2
        <3>2. CASE i = n + 1
            <4>1. new.tracks[i].id = ms.index /\ ms.index # 0
                BY <1>1, <1>4, <1>7, <3>2 DEF IdsOK
            <4> QED
                BY <1>1, <4>1
        <3> QED
            BY <1>3, <3>1, <3>2
    <2>2. ASSUME NEW i \in 1..(n + 1), NEW j \in 1..(n + 1), new.tracks[i].id = new.tracks[j].id
          PROVE  i = j
        <3>1. \A k \in 1..n : new.tracks[k].id < ms.index /\ new.tracks[k].id \in Nat
            BY <1>1, <1>2, <1>4 DEF IdsOK
        <3>2. CASE i \in 1..n /\ j \in 1..n
            BY <1>1, <1>4, <2>2, <3>2 DEF IdsOK
        <3> QED
            BY <1>1, <1>3, <1>7, <2>2, <3>1, <3>2
    <2> QED
        BY <1>1, <1>7, <2>1, <2>2 DEF IdsOK
<1>5. ASSUME ClonesOK(ms), s \in {t, NoSource} PROVE ClonesOK(new)
    BY <1>1, <1>3, <1>5 DEF ClonesOK
<1>6. ASSUME OneEach(ms), t \notin TracksOf(ms) PROVE OneEach(new)
    BY <1>1, <1>3, <1>6 DEF OneEach, TracksOf
<1> QED
    BY <1>4, <1>5, <1>6, <1>7

\* What a track that is removed changes.
LEMMA RemoveTrackFacts ==
    ASSUME NEW ms \in MediaStreams, NEW i \in DOMAIN ms.tracks,
           NEW new, new = RemoveTrack(ms, i)
    PROVE  /\ new \in MediaStreams /\ new.index = ms.index
           /\ \A j \in DOMAIN new.tracks : \E k \in DOMAIN ms.tracks : new.tracks[j] = ms.tracks[k]
           /\ Sources(new) \subseteq Sources(ms) /\ TracksOf(new) \subseteq TracksOf(ms)
           /\ Sources(ms) \subseteq Sources(new) \cup {ms.tracks[i].source}
           /\ OneEach(ms) => OneEach(new) /\ ms.tracks[i].track \notin TracksOf(new)
           /\ IdsOK(ms) => IdsOK(new)
           /\ ClonesOK(ms) => ClonesOK(new)
<1> DEFINE n == Len(ms.tracks)
           s == ms.tracks
           a == SubSeq(s, 1, i - 1)
           b == SubSeq(s, i + 1, n)
           u == a \o b
<1>1. s \in Seq(Entry) /\ n \in Nat /\ DOMAIN s = 1..n /\ i \in 1..n
    BY StreamShape
<1>2. a \in Seq(Entry) /\ Len(a) = i - 1 /\ \A j \in 1..(i - 1) : a[j] = s[j]
    BY <1>1, SubSeqProperties
<1>3. b \in Seq(Entry) /\ Len(b) = n - i /\ \A j \in 1..(n - i) : b[j] = s[i + j]
    <2>1. /\ b \in Seq(Entry) /\ Len(b) = IF i + 1 <= n THEN n - (i + 1) + 1 ELSE 0
          /\ \A j \in 1..(n - (i + 1) + 1) : b[j] = s[(i + 1) + j - 1]
        BY <1>1, SubSeqProperties
    <2> QED
        BY <1>1, <2>1
<1>4. new.tracks = u /\ new.index = ms.index /\ new = [index |-> ms.index, tracks |-> u]
    BY DEF RemoveTrack, RemoveAt, MediaStreams
<1> HIDE DEF a, b, s
<1>5. /\ u \in Seq(Entry) /\ Len(u) = (i - 1) + (n - i)
      /\ \A j \in 1..((i - 1) + (n - i)) : u[j] = IF j <= i - 1 THEN a[j] ELSE b[j - (i - 1)]
    BY <1>2, <1>3, ConcatProperties
<1> HIDE DEF u, n
<1>6. Len(u) = n - 1 /\ DOMAIN u = 1..(n - 1)
    BY <1>1, <1>5
<1>7. \A j \in 1..(n - 1) : u[j] = IF j < i THEN s[j] ELSE s[j + 1]
    <2> TAKE j \in 1..(n - 1)
    <2>1. CASE j < i
        BY <1>1, <1>2, <1>5, <2>1
    <2>2. CASE j >= i
        <3>1. j - (i - 1) \in 1..(n - i) /\ i + (j - (i - 1)) = j + 1
            BY <1>1, <2>2
        <3> QED
            BY <1>1, <1>3, <1>5, <2>2, <3>1
    <2> QED
        BY <1>1, <2>1, <2>2
<1>8. new \in MediaStreams
    BY <1>4, <1>5, StreamShape DEF MediaStreams
<1> DEFINE k(j) == IF j < i THEN j ELSE j + 1
<1>9. /\ \A j \in 1..(n - 1) : k(j) \in 1..n /\ k(j) # i /\ u[j] = s[k(j)]
      /\ \A j, l \in 1..(n - 1) : k(j) = k(l) => j = l
      /\ \A m \in 1..n : m = i \/ \E j \in 1..(n - 1) : k(j) = m
    <2>1. \A j \in 1..(n - 1) : k(j) \in 1..n /\ k(j) # i /\ u[j] = s[k(j)]
        BY <1>1, <1>7
    <2>2. \A j, l \in 1..(n - 1) : k(j) = k(l) => j = l
        BY <1>1
    <2>3. ASSUME NEW m \in 1..n, m # i PROVE \E j \in 1..(n - 1) : k(j) = m
        <3>1. CASE m < i
            <4>1. m \in 1..(n - 1) /\ k(m) = m
                BY <1>1, <3>1
            <4> QED
                BY <4>1
        <3>2. CASE m > i
            <4>1. m - 1 \in 1..(n - 1) /\ k(m - 1) = m
                BY <1>1, <3>2
            <4> QED
                BY <4>1
        <3> QED
            BY <1>1, <2>3, <3>1, <3>2
    <2> QED
        BY <2>1, <2>2, <2>3
<1> HIDE DEF k
<1>10. \A j \in DOMAIN new.tracks : \E m \in DOMAIN s : new.tracks[j] = s[m]
    BY <1>1, <1>4, <1>6, <1>9
<1>11. Sources(new) \subseteq Sources(ms) /\ TracksOf(new) \subseteq TracksOf(ms)
    <2>1. \A j \in DOMAIN new.tracks : \E m \in DOMAIN ms.tracks : new.tracks[j] = ms.tracks[m]
        BY <1>10 DEF s
    <2> QED
        BY <2>1 DEF Sources, TracksOf
<1>12. Sources(ms) \subseteq Sources(new) \cup {ms.tracks[i].source}
    <2>1. ASSUME NEW m \in DOMAIN ms.tracks, m # i PROVE ms.tracks[m].source \in Sources(new)
        <3>1. PICK j \in 1..(n - 1) : k(j) = m
            BY <1>1, <1>9, <2>1 DEF s
        <3>2. j \in DOMAIN new.tracks /\ new.tracks[j] = ms.tracks[m]
            BY <1>4, <1>6, <1>9, <3>1 DEF s
        <3> QED
            BY <3>2 DEF Sources
    <2> QED
        BY <2>1 DEF Sources
<1>13. ASSUME OneEach(ms) PROVE OneEach(new) /\ ms.tracks[i].track \notin TracksOf(new)
    <2>1. \A j \in DOMAIN new.tracks :
             k(j) \in DOMAIN ms.tracks /\ k(j) # i /\ new.tracks[j] = ms.tracks[k(j)]
        BY <1>1, <1>4, <1>6, <1>9 DEF s
    <2>2. \A j, l \in DOMAIN new.tracks : k(j) = k(l) => j = l
        BY <1>4, <1>6, <1>9
    <2>3. OneEach(new)
        BY <1>13, <2>1, <2>2 DEF OneEach
    <2>4. ms.tracks[i].track \notin TracksOf(new)
        BY <1>13, <2>1 DEF OneEach, TracksOf
    <2> QED
        BY <2>3, <2>4
<1>14. ASSUME IdsOK(ms) PROVE IdsOK(new)
    <2>1. \A j \in DOMAIN new.tracks :
             k(j) \in DOMAIN ms.tracks /\ new.tracks[j] = ms.tracks[k(j)]
        BY <1>1, <1>4, <1>6, <1>9 DEF s
    <2>2. \A j, l \in DOMAIN new.tracks : k(j) = k(l) => j = l
        BY <1>4, <1>6, <1>9
    <2> QED
        BY <1>4, <1>14, <2>1, <2>2 DEF IdsOK
<1>15. ASSUME ClonesOK(ms) PROVE ClonesOK(new)
    BY <1>1, <1>4, <1>6, <1>9, <1>15 DEF ClonesOK, s
<1> QED
    BY <1>4, <1>8, <1>10, <1>11, <1>12, <1>13, <1>14, <1>15 DEF s

\* What a track that is stopped changes: no more than its source.
LEMMA StopTrackFacts ==
    ASSUME NEW ms \in MediaStreams, NEW t, NEW new, new = StopTrack(ms, t)
    PROVE  /\ new \in MediaStreams /\ TracksOf(new) = TracksOf(ms)
           /\ OneEach(ms) => OneEach(new)
           /\ IdsOK(ms) => IdsOK(new)
           /\ new.index = ms.index /\ DOMAIN new.tracks = DOMAIN ms.tracks
           /\ \A i \in DOMAIN ms.tracks :
                new.tracks[i].id = ms.tracks[i].id /\ new.tracks[i].track = ms.tracks[i].track
<1> DEFINE s == ms.tracks
           u == [i \in DOMAIN s |-> IF s[i].track = t THEN [s[i] EXCEPT !.source = NoSource] ELSE s[i]]
<1>1. new.tracks = u /\ new.index = ms.index /\ new = [index |-> ms.index, tracks |-> u]
    BY DEF StopTrack, MediaStreams
<1>2. s \in Seq(Entry) /\ Len(s) \in Nat /\ DOMAIN s = 1..Len(s) /\ \A i \in DOMAIN s : s[i] \in Entry
    BY StreamShape
<1>3. \A i \in DOMAIN s : u[i] \in Entry /\ u[i].id = s[i].id /\ u[i].track = s[i].track
    <2> TAKE i \in DOMAIN s
    <2>1. s[i] \in [track : Tracks, id : Nat, source : Tracks \cup {NoSource}]
        BY <1>2 DEF Entry
    <2>2. u[i] = IF s[i].track = t THEN [s[i] EXCEPT !.source = NoSource] ELSE s[i]
        OBVIOUS
    <2> HIDE DEF u, s
    <2> QED
        BY <2>1, <2>2 DEF Entry
<1>4. DOMAIN u = DOMAIN s /\ u \in [1..Len(s) -> Entry]
    BY <1>2, <1>3
<1>5. u \in Seq(Entry)
    <2> HIDE DEF u, s
    <2> QED
        BY <1>2, <1>4, SeqDef
<1> HIDE DEF u
<1>6. new \in MediaStreams
    BY <1>1, <1>5, StreamShape DEF MediaStreams
<1>7. TracksOf(new) = TracksOf(ms)
    BY <1>1, <1>3, <1>4 DEF TracksOf
<1>8. OneEach(ms) => OneEach(new)
    BY <1>1, <1>3, <1>4 DEF OneEach
<1>9. IdsOK(ms) => IdsOK(new)
    BY <1>1, <1>3, <1>4 DEF IdsOK
<1> QED
    BY <1>1, <1>3, <1>4, <1>6, <1>7, <1>8, <1>9

LEMMA EventsAre ==
    /\ Events = {"addtrack", "removetrack", "packet", "error", "close"}
    /\ StreamEvents \in Seq(Events) /\ StreamEvents # <<>>
    /\ ToSet(StreamEvents) = Events
<1>1. DOMAIN StreamEvents = 1..5
    BY DEF StreamEvents
<1>2. /\ StreamEvents[1] = "addtrack" /\ StreamEvents[2] = "removetrack"
      /\ StreamEvents[3] = "packet" /\ StreamEvents[4] = "error" /\ StreamEvents[5] = "close"
    BY DEF StreamEvents
<1>3. Events = {"addtrack", "removetrack", "packet", "error", "close"}
    <2>1. \A i \in 1..5 : i = 1 \/ i = 2 \/ i = 3 \/ i = 4 \/ i = 5
        OBVIOUS
    <2>2. 1 \in 1..5 /\ 2 \in 1..5 /\ 3 \in 1..5 /\ 4 \in 1..5 /\ 5 \in 1..5
        OBVIOUS
    <2> QED
        BY <1>1, <1>2, <2>1, <2>2 DEF Events, ToSet
<1>4. StreamEvents \in Seq({"addtrack", "removetrack", "packet", "error", "close"}) /\ StreamEvents # <<>>
    BY DEF StreamEvents
<1> QED
    BY <1>3, <1>4 DEF Events

-----------------------------------------------------------------------------
(* The calls.                                                              *)

\* A record of a call of which two fields change.
LEMMA TwoFields ==
    ASSUME NEW k \in Call, NEW pc, NEW left
    PROVE  [[k EXCEPT !.pc = pc] EXCEPT !.left = left]
               = [pc |-> pc, remuxer |-> k.remuxer, left |-> left]
<1> DEFINE m == [k EXCEPT !.pc = pc]
<1>1. \E B, C : m \in [pc : {pc}, remuxer : B, left : C] /\ m.remuxer = k.remuxer
    <2>1. PICK A, B, C : k \in [pc : A, remuxer : B, left : C]
        BY Zenon DEF Call
    <2>2. m \in [pc : {pc}, remuxer : B, left : C] /\ m.remuxer = k.remuxer
        BY <2>1
    <2> QED
        BY <2>2, Zenon
<1> HIDE DEF m
<1>2. [m EXCEPT !.left = left] = [pc |-> pc, remuxer |-> k.remuxer, left |-> left]
    BY <1>1
<1> QED
    BY <1>2 DEF m

\* A call that goes on keeps its remuxer.
LEMMA GotoIs ==
    ASSUME CallsOK, NEW t \in Threads, NEW pc, NEW left, Goto(t, pc, left)
    PROVE  /\ call' = [call EXCEPT ![t] = [pc |-> pc, remuxer |-> call[t].remuxer, left |-> left]]
           /\ call'[t] = [pc |-> pc, remuxer |-> call[t].remuxer, left |-> left]
           /\ \A u \in Threads : u # t => call'[u] = call[u]
<1> DEFINE c == call[t]
           d == [pc |-> pc, remuxer |-> c.remuxer, left |-> left]
<1>1. call \in [Threads -> Call] /\ c \in Call
    BY DEF CallsOK
<1>2. call' = [[call EXCEPT ![t] = [@ EXCEPT !.pc = pc]] EXCEPT ![t] = [@ EXCEPT !.left = left]]
    BY DEF Goto
<1>3. call' = [call EXCEPT ![t] = [[c EXCEPT !.pc = pc] EXCEPT !.left = left]]
    BY <1>1, <1>2
<1>4. [[c EXCEPT !.pc = pc] EXCEPT !.left = left] = d
    <2> HIDE DEF c
    <2> QED
        BY <1>1, TwoFields
<1>5. call' = [call EXCEPT ![t] = d]
    BY <1>3, <1>4
<1> QED
    BY <1>1, <1>5

\* What SourceTracks and SourceSink go on with.
LEMMA AttachToIs ==
    ASSUME CallsOK, NEW t \in Threads, NEW left \in Seq(Tracks), NEW r \in Remuxers, r = t,
           AttachTo(r, left)
    PROVE  \/ /\ Goto(t, "listen", StreamEvents)
              /\ \A x \in ToSet(left) : ~Wants(r, x)
           \/ \E rest \in Seq(Tracks) :
                /\ rest # <<>> /\ Goto(t, "attach", rest)
                /\ ToSet(rest) \subseteq ToSet(left)
                /\ \A x \in ToSet(left) : Wants(r, x) => x \in ToSet(rest)
<1> DEFINE wanted == {i \in DOMAIN left : Wants(r, left[i])}
           n == Len(left)
<1>1. n \in Nat /\ DOMAIN left = 1..n /\ \A i \in 1..n : left[i] \in Tracks
    OBVIOUS
<1>2. CASE wanted = {}
    <2>1. Goto(t, "listen", StreamEvents)
        BY <1>2 DEF AttachTo
    <2>2. \A x \in ToSet(left) : ~Wants(r, x)
        BY <1>2 DEF ToSet
    <2> QED
        BY <2>1, <2>2
<1>3. CASE wanted # {}
    <2> DEFINE f == First(wanted)
               rest == SubSeq(left, f, n)
    <2>1. f \in wanted /\ \A j \in wanted : f <= j
        <3>1. wanted \in SUBSET Nat
            BY <1>1
        <3> HIDE DEF wanted
        <3>2. \E m \in wanted : \A k \in wanted : m <= k
            BY <1>3, <3>1, HasLeast
        <3> QED
            BY <3>2 DEF First
    <2>2. f \in 1..n /\ f \in Int
        BY <1>1, <2>1
    <2>3. Goto(t, "attach", rest)
        BY <1>3 DEF AttachTo
    <2> HIDE DEF f
    <2>4. /\ rest \in Seq(Tracks) /\ Len(rest) = n - f + 1
          /\ \A i \in 1..(n - f + 1) : rest[i] = left[f + i - 1]
        BY <1>1, <2>2, SubSeqProperties
    <2> HIDE DEF rest
    <2>5. rest # <<>> /\ DOMAIN rest = 1..(n - f + 1)
        BY <1>1, <2>2, <2>4
    <2>6. ToSet(rest) \subseteq ToSet(left)
        <3>1. \A i \in 1..(n - f + 1) : f + i - 1 \in 1..n
            BY <1>1, <2>2
        <3> QED
            BY <1>1, <2>4, <2>5, <3>1 DEF ToSet
    <2>7. ASSUME NEW x \in ToSet(left), Wants(r, x) PROVE x \in ToSet(rest)
        <3>1. PICK i \in 1..n : x = left[i]
            BY <1>1, <2>7 DEF ToSet
        <3>2. i \in wanted
            BY <1>1, <2>7, <3>1
        <3>3. i - f + 1 \in 1..(n - f + 1) /\ f + (i - f + 1) - 1 = i
            BY <1>1, <2>1, <2>2, <3>1, <3>2
        <3>4. rest[i - f + 1] = x
            BY <2>4, <3>1, <3>3
        <3> QED
            BY <2>5, <3>3, <3>4 DEF ToSet
    <2> QED
        BY <2>3, <2>4, <2>5, <2>6, <2>7
<1> QED
    BY <1>2, <1>3

\* One goroutine moves: it leaves the mutex it held, or holds the one of its
\* new remuxer.
LEMMA CallMoves ==
    ASSUME CallsOK, NEW t \in Threads, NEW c \in Call, call' = [call EXCEPT ![t] = c],
           CallOK(t)',
           using' \subseteq Remuxers, \A u \in Remuxers : u # t => (u \in using <=> u \in using'),
           mtx' \in [Remuxers -> Threads \cup {Nobody}],
           \A r \in Remuxers : mtx'[r] = IF c.remuxer = r /\ c.pc \in InSource \cup InClose THEN t
                                         ELSE IF mtx[r] = t THEN Nobody ELSE mtx[r],
           \A r \in Remuxers : c.remuxer = r /\ c.pc \in InSource \cup InClose
                               => mtx[r] \in {Nobody, t}
    PROVE  CallsOK'
<1>1. Nobody \notin Threads /\ t # Nobody
    BY RemuxerAssumption
<1>2. call' \in [Threads -> Call] /\ call'[t] = c /\ \A u \in Threads : u # t => call'[u] = call[u]
    BY DEF CallsOK
<1>3. ASSUME NEW u \in Threads PROVE CallOK(u)'
    <2>1. CASE u = t
        BY <2>1
    <2>2. CASE u # t
        <3>1. call'[u] = call[u] /\ CallOK(u)
            BY <1>2, <2>2 DEF CallsOK
        <3>2. u \in Remuxers => (u \in using <=> u \in using')
            BY <2>2
        <3>3. CallOK(u)' <=> CallOK(u)
            <4>1. LeftOK(u)' <=> LeftOK(u)
                BY <3>1 DEF LeftOK
            <4>2. call[u].pc \in InSource /\ call[u].remuxer = u /\ CallOK(u) => u \in Remuxers
                BY DEF CallsOK, CallOK
            <4> QED
                BY <3>1, <3>2, <4>1, <4>2 DEF CallOK, CallsOK, InSource, InClose
        <3> QED
            BY <3>1, <3>3
    <2> QED
        BY <2>1, <2>2
<1>4. ASSUME NEW r \in Remuxers, NEW u \in Threads
      PROVE  mtx'[r] = u <=> call'[u].remuxer = r /\ Busy(u)'
    <2>1. mtx[r] = u <=> call[u].remuxer = r /\ call[u].pc \in InSource \cup InClose
        BY DEF CallsOK, Busy
    <2>2. mtx[r] = t <=> call[t].remuxer = r /\ call[t].pc \in InSource \cup InClose
        BY DEF CallsOK, Busy
    <2>3. Busy(u)' <=> call'[u].pc \in InSource \cup InClose
        BY DEF Busy
    <2>4. u # Nobody
        BY <1>1
    <2>5. CASE u = t
        BY <1>1, <1>2, <2>1, <2>3, <2>4, <2>5
    <2>6. CASE u # t
        BY <1>1, <1>2, <2>1, <2>2, <2>3, <2>4, <2>6
    <2> QED
        BY <2>5, <2>6
<1> QED
    BY <1>2, <1>3, <1>4 DEF CallsOK

\* The tracks of a stream, and their sources, in order.
LEMMA TracksSeq ==
    ASSUME NEW ms \in MediaStreams
    PROVE  LET s == [i \in DOMAIN ms.tracks |-> ms.tracks[i].track]
           IN  s \in Seq(Tracks) /\ ToSet(s) = TracksOf(ms)
<1> DEFINE s == [i \in DOMAIN ms.tracks |-> ms.tracks[i].track]
<1>1. /\ Len(ms.tracks) \in Nat /\ DOMAIN ms.tracks = 1..Len(ms.tracks)
      /\ \A i \in DOMAIN ms.tracks : ms.tracks[i].track \in Tracks
    BY StreamShape
<1>2. s \in [1..Len(ms.tracks) -> Tracks]
    BY <1>1
<1>3. s \in Seq(Tracks)
    BY <1>1, <1>2, SeqDef
<1>4. ToSet(s) = TracksOf(ms)
    BY DEF ToSet, TracksOf
<1> QED
    BY <1>3, <1>4

LEMMA SourcesSeq ==
    ASSUME NEW ms \in MediaStreams
    PROVE  LET s == [i \in DOMAIN ms.tracks |-> ms.tracks[i].source]
           IN  s \in Seq(Tracks \cup {NoSource}) /\ ToSet(s) = Sources(ms)
<1> DEFINE s == [i \in DOMAIN ms.tracks |-> ms.tracks[i].source]
           S == Tracks \cup {NoSource}
<1>1. /\ Len(ms.tracks) \in Nat /\ DOMAIN ms.tracks = 1..Len(ms.tracks)
      /\ \A i \in DOMAIN ms.tracks : ms.tracks[i].source \in S
    BY StreamShape
<1>2. s \in [1..Len(ms.tracks) -> S]
    BY <1>1
<1>3. s \in Seq(S)
    BY <1>1, <1>2, SeqDef
<1>4. ToSet(s) = Sources(ms)
    BY DEF ToSet, Sources
<1> QED
    BY <1>3, <1>4

\* What a goroutine holds and has left after its step.
LEMMA CallsStep ==
    ASSUME CallsOK, own \in [Remuxers -> MediaStreams], stream \in MediaStreams, Next
    PROVE  CallsOK'
<1> USE DEF At
<1>1. /\ Nobody \notin Threads /\ Publisher \notin Remuxers /\ Remuxers \subseteq Threads
      /\ Publisher \in Threads /\ Nobody \notin Remuxers
    BY RemuxerAssumption DEF Threads
<1>2. /\ call \in [Threads -> Call] /\ mtx \in [Remuxers -> Threads \cup {Nobody}]
      /\ using \subseteq Remuxers
      /\ \A t \in Threads : CallOK(t)
      /\ \A r \in Remuxers, t \in Threads :
            mtx[r] = t <=> call[t].remuxer = r /\ call[t].pc \in InSource \cup InClose
    BY DEF CallsOK, Busy
<1>3. \A t \in Threads : call[t].pc # "idle" => call[t].remuxer \in Remuxers
    BY <1>2 DEF CallOK, Call
<1>4. ASSUME UNCHANGED <<call, mtx, using>> PROVE CallsOK'
    BY <1>4 DEF CallsOK, CallOK, LeftOK, Busy
<1>5. Idle \in Call /\ Idle.pc = "idle" /\ Idle.remuxer = Nobody
    BY DEF Idle, Call
\* The rest of a call that keeps the mutex it holds.
<1>6. ASSUME NEW t \in Threads, NEW c \in Call, call' = [call EXCEPT ![t] = c],
             CallOK(t)', c.remuxer = call[t].remuxer,
             call[t].pc \in InSource \cup InClose, c.pc \in InSource \cup InClose,
             UNCHANGED <<mtx, using>>
      PROVE  CallsOK'
    <2>1. \A r \in Remuxers : mtx[r] = t <=> c.remuxer = r
        BY <1>2, <1>6
    <2>2. using' \subseteq Remuxers /\ \A u \in Remuxers : u # t => (u \in using <=> u \in using')
        BY <1>2, <1>6
    <2>3. mtx' \in [Remuxers -> Threads \cup {Nobody}]
        BY <1>2, <1>6
    <2>4. \A r \in Remuxers : mtx'[r] = IF c.remuxer = r /\ c.pc \in InSource \cup InClose THEN t
                                        ELSE IF mtx[r] = t THEN Nobody ELSE mtx[r]
        BY <1>6, <2>1
    <2>5. \A r \in Remuxers : c.remuxer = r /\ c.pc \in InSource \cup InClose => mtx[r] \in {Nobody, t}
        BY <2>1
    <2> QED
        BY <1>6, <2>2, <2>3, <2>4, <2>5, CallMoves
\* The end of a call, which frees the mutex it holds.
<1>7. ASSUME NEW t \in Threads, Return(t), call[t].remuxer \in Remuxers,
             mtx' = [mtx EXCEPT ![call[t].remuxer] = Nobody],
             mtx[call[t].remuxer] \in {Nobody, t},
             UNCHANGED using
      PROVE  CallsOK'
    <2> DEFINE r == call[t].remuxer
    <2>1. call' = [call EXCEPT ![t] = Idle] /\ call'[t] = Idle
        BY <1>2, <1>7 DEF Return
    <2>2. CallOK(t)'
        BY <1>5, <2>1 DEF CallOK, LeftOK, InSource, InClose
    <2>3. using' \subseteq Remuxers /\ \A u \in Remuxers : u # t => (u \in using <=> u \in using')
        BY <1>2, <1>7
    <2>4. mtx' \in [Remuxers -> Threads \cup {Nobody}]
        BY <1>2, <1>7
    <2>5. Idle.pc \notin InSource \cup InClose
        BY <1>5 DEF InSource, InClose
    <2>6. \A q \in Remuxers : mtx[q] = t => q = r
        BY <1>2
    <2>7. \A q \in Remuxers : mtx'[q] = IF Idle.remuxer = q /\ Idle.pc \in InSource \cup InClose THEN t
                                        ELSE IF mtx[q] = t THEN Nobody ELSE mtx[q]
        BY <1>1, <1>2, <1>7, <2>5, <2>6
    <2>8. \A q \in Remuxers : Idle.remuxer = q /\ Idle.pc \in InSource \cup InClose => mtx[q] \in {Nobody, t}
        BY <2>5
    <2> QED
        BY <1>5, <2>1, <2>2, <2>3, <2>4, <2>7, <2>8, CallMoves
\* A call that goes on, and holds the mutex from now on or did already.
<1>8. ASSUME NEW t \in Threads, NEW pc, NEW left, Goto(t, pc, left),
             call[t].remuxer \in Remuxers, [pc |-> pc, remuxer |-> call[t].remuxer, left |-> left] \in Call,
             pc \in InSource \cup InClose, CallOK(t)',
             mtx' = [mtx EXCEPT ![call[t].remuxer] = t],
             mtx[call[t].remuxer] \in {Nobody, t},
             UNCHANGED using
      PROVE  CallsOK'
    <2> DEFINE r == call[t].remuxer
               c == [pc |-> pc, remuxer |-> r, left |-> left]
    <2>1. call' = [call EXCEPT ![t] = c]
        BY <1>8, GotoIs
    <2>2. c \in Call /\ c.remuxer = r /\ c.pc = pc
        BY <1>8
    <2> HIDE DEF c
    <2>3. using' \subseteq Remuxers /\ \A u \in Remuxers : u # t => (u \in using <=> u \in using')
        BY <1>2, <1>8
    <2>4. mtx' \in [Remuxers -> Threads \cup {Nobody}]
        BY <1>2, <1>8
    <2>5. \A q \in Remuxers : mtx[q] = t => q = r
        BY <1>2
    <2>6. \A q \in Remuxers : mtx'[q] = IF c.remuxer = q /\ c.pc \in InSource \cup InClose THEN t
                                        ELSE IF mtx[q] = t THEN Nobody ELSE mtx[q]
        BY <1>2, <1>8, <2>2, <2>5
    <2>7. \A q \in Remuxers : c.remuxer = q /\ c.pc \in InSource \cup InClose => mtx[q] \in {Nobody, t}
        BY <1>8, <2>2
    <2> QED
        BY <1>8, <2>1, <2>2, <2>3, <2>4, <2>6, <2>7, CallMoves
\* A call of Source that goes on.
<1>9. ASSUME NEW r \in Remuxers, NEW pc, NEW left, Goto(r, pc, left), call[r].pc \in InSource,
             \/ pc = "tracks" /\ left \in Seq(Tracks)
             \/ pc \in {"attach", "sink"} /\ left \in Seq(Tracks) /\ left # <<>>
             \/ pc = "listen" /\ left \in Seq(Events) /\ left # <<>>,
             UNCHANGED <<mtx, using>>
      PROVE  CallsOK'
    <2> DEFINE c == [pc |-> pc, remuxer |-> call[r].remuxer, left |-> left]
    <2>1. call' = [call EXCEPT ![r] = c] /\ call'[r] = c
        BY <1>1, <1>9, GotoIs
    <2>2. call[r].remuxer = r /\ r \in using
        BY <1>1, <1>2, <1>9 DEF CallOK
    <2>3. left \in Seq(Tracks \cup {NoSource} \cup ToSet(StreamEvents))
        <3>1. left \in Seq(Tracks) \/ left \in Seq(Events)
            BY <1>9
        <3> QED
            BY <3>1 DEF Events
    <2>4. pc \in InSource
        BY <1>9 DEF InSource
    <2>5. c \in Call
        BY <1>1, <2>2, <2>3, <2>4 DEF Call, InSource
    <2>6. CallOK(r)'
        <3>1. call'[r].pc = pc /\ call'[r].remuxer = r /\ call'[r].left = left
            BY <2>1, <2>2
        <3>2. LeftOK(r)'
            BY <1>9, <3>1 DEF LeftOK
        <3>3. pc # "idle" /\ pc \notin InClose \cup {"lock"}
            BY <2>4 DEF InSource, InClose
        <3> QED
            BY <1>1, <1>9, <2>2, <3>1, <3>2, <3>3 DEF CallOK
    <2> QED
        BY <1>1, <1>6, <1>9, <2>1, <2>2, <2>4, <2>5, <2>6
<1>10. ASSUME NEW r \in Remuxers, Source(r) PROVE CallsOK'
    <2> DEFINE c == [pc |-> "metadata", remuxer |-> r, left |-> <<>>]
    <2>1. /\ call' = [call EXCEPT ![r] = c] /\ mtx' = [mtx EXCEPT ![r] = r]
          /\ mtx[r] = Nobody /\ using' = using \cup {r} /\ call[r].pc = "idle"
        BY <1>10 DEF Source
    <2>2. c \in Call /\ c.pc = "metadata" /\ c.remuxer = r
        BY DEF Call
    <2> HIDE DEF c
    <2>3. call'[r] = c
        BY <1>1, <1>2, <2>1
    <2>4. CallOK(r)'
        <3>1. call'[r].pc = "metadata" /\ call'[r].remuxer = r /\ r \in using'
            BY <2>1, <2>2, <2>3
        <3>2. LeftOK(r)'
            BY <3>1 DEF LeftOK
        <3>3. r # Nobody
            BY <1>1
        <3> QED
            BY <3>1, <3>2, <3>3 DEF CallOK, InClose
    <2>5. using' \subseteq Remuxers /\ \A u \in Remuxers : u # r => (u \in using <=> u \in using')
        BY <1>2, <2>1
    <2>6. mtx' \in [Remuxers -> Threads \cup {Nobody}]
        BY <1>1, <1>2, <2>1
    <2>7. "metadata" \in InSource \cup InClose
        BY DEF InSource
    <2>8. \A q \in Remuxers : mtx[q] # r
        <3>1. call[r].pc \notin InSource \cup InClose
            BY <2>1 DEF InSource, InClose
        <3> QED
            BY <1>1, <1>2, <3>1
    <2>9. \A q \in Remuxers : mtx'[q] = IF c.remuxer = q /\ c.pc \in InSource \cup InClose THEN r
                                        ELSE IF mtx[q] = r THEN Nobody ELSE mtx[q]
        BY <1>2, <2>1, <2>2, <2>7, <2>8
    <2>10. \A q \in Remuxers : c.remuxer = q /\ c.pc \in InSource \cup InClose => mtx[q] \in {Nobody, r}
        BY <2>1, <2>2
    <2> QED
        BY <1>1, <2>1, <2>2, <2>4, <2>5, <2>6, <2>9, <2>10, CallMoves
<1>11. ASSUME NEW r \in Remuxers, SourceMetadata(r) PROVE CallsOK'
    <2>1. Goto(r, "tracks", <<>>) /\ call[r].pc \in InSource /\ UNCHANGED <<mtx, using>>
        BY <1>11 DEF SourceMetadata, InSource
    <2>2. <<>> \in Seq(Tracks)
        OBVIOUS
    <2> QED
        BY <1>9, <2>1, <2>2
\* Source goes on to attach, or to listen.
<1>12. ASSUME NEW r \in Remuxers, NEW left \in Seq(Tracks), AttachTo(r, left),
              call[r].pc \in InSource, UNCHANGED <<mtx, using>>
       PROVE  CallsOK'
    <2>1. \/ Goto(r, "listen", StreamEvents)
          \/ \E rest \in Seq(Tracks) : rest # <<>> /\ Goto(r, "attach", rest)
        BY <1>1, <1>12, AttachToIs
    <2> QED
        BY <1>9, <1>12, <2>1, EventsAre
<1>13. ASSUME NEW r \in Remuxers, SourceTracks(r), stream \in MediaStreams PROVE CallsOK'
    <2> DEFINE left == [i \in DOMAIN stream.tracks |-> stream.tracks[i].track]
    <2>1. left \in Seq(Tracks)
        BY <1>13, TracksSeq
    <2>2. AttachTo(r, left) /\ call[r].pc \in InSource /\ UNCHANGED <<mtx, using>>
        BY <1>13 DEF SourceTracks, InSource, remuxVars
    <2> HIDE DEF left
    <2> QED
        BY <1>12, <2>1, <2>2
<1>14. ASSUME NEW r \in Remuxers, SourceAttach(r) PROVE CallsOK'
    <2>1. /\ Goto(r, "sink", call[r].left) /\ call[r].pc \in InSource /\ call[r].pc = "attach"
          /\ UNCHANGED <<mtx, using>>
        BY <1>14 DEF SourceAttach, InSource
    <2>2. call[r].left \in Seq(Tracks) /\ call[r].left # <<>>
        BY <1>1, <1>2, <2>1 DEF CallOK, LeftOK
    <2> QED
        BY <1>9, <2>1, <2>2
<1>15. ASSUME NEW r \in Remuxers, SourceAttachStopped(r) PROVE CallsOK'
    <2>1. /\ Return(r) /\ call[r].pc = "attach" /\ mtx' = [mtx EXCEPT ![r] = Nobody]
          /\ UNCHANGED using
        BY <1>15 DEF SourceAttachStopped
    <2>2. call[r].remuxer = r /\ mtx[r] = r
        BY <1>1, <1>2, <2>1 DEF CallOK, InSource
    <2> QED
        BY <1>1, <1>7, <2>1, <2>2
<1>16. ASSUME NEW r \in Remuxers, SourceSink(r) PROVE CallsOK'
    <2>1. /\ AttachTo(r, Tail(call[r].left)) /\ call[r].pc \in InSource /\ call[r].pc = "sink"
          /\ UNCHANGED <<mtx, using>>
        BY <1>16 DEF SourceSink, InSource, remuxVars
    <2>2. Tail(call[r].left) \in Seq(Tracks)
        BY <1>1, <1>2, <2>1, HeadAndTail DEF CallOK, LeftOK
    <2> QED
        BY <1>12, <2>1, <2>2
<1>17. ASSUME NEW r \in Remuxers, SourceListen(r) PROVE CallsOK'
    <2>1. call[r].pc = "listen" /\ call[r].pc \in InSource /\ UNCHANGED using
        BY <1>17 DEF SourceListen, InSource
    <2>2. call[r].left \in Seq(Events) /\ call[r].left # <<>> /\ call[r].remuxer = r /\ mtx[r] = r
        BY <1>1, <1>2, <2>1 DEF CallOK, LeftOK
    <2>3. CASE Len(call[r].left) = 1
        <3>1. Return(r) /\ mtx' = [mtx EXCEPT ![r] = Nobody]
            BY <1>17, <2>3 DEF SourceListen
        <3> QED
            BY <1>1, <1>7, <2>1, <2>2, <3>1
    <2>4. CASE Len(call[r].left) # 1
        <3>1. Goto(r, "listen", Tail(call[r].left)) /\ UNCHANGED mtx
            BY <1>17, <2>4 DEF SourceListen
        <3>2. Tail(call[r].left) \in Seq(Events) /\ Tail(call[r].left) # <<>>
            BY <2>2, <2>4, HeadAndTail
        <3> QED
            BY <1>9, <2>1, <3>1, <3>2
    <2> QED
        BY <2>3, <2>4
\* A call of Close begins.
<1>18. ASSUME NEW t \in Threads, NEW r \in Remuxers, BeginClose(t, r), call[t].pc = "idle",
              t \in Remuxers => r = t /\ t \notin using',
              using' \subseteq using, \A u \in Remuxers : u # t => (u \in using <=> u \in using'),
              UNCHANGED mtx
       PROVE  CallsOK'
    <2> DEFINE l == [pc |-> "lock", remuxer |-> r, left |-> <<>>]
               c == IF readyState[r] = "inactive" THEN Idle ELSE l
    <2>1. call' = [call EXCEPT ![t] = c]
        BY <1>18 DEF BeginClose
    <2>2. l \in Call /\ l.pc = "lock" /\ l.remuxer = r
        BY DEF Call
    <2> HIDE DEF l
    <2>3. c \in Call /\ (c = Idle \/ (c.pc = "lock" /\ c.remuxer = r))
        BY <1>5, <2>2
    <2>4. c.pc \notin InSource \cup InClose
        BY <1>5, <2>3 DEF InSource, InClose
    <2> HIDE DEF c
    <2>5. call'[t] = c
        BY <1>2, <2>1
    <2>6. CallOK(t)'
        <3>1. LeftOK(t)'
            BY <1>5, <2>3, <2>5 DEF LeftOK
        <3> QED
            BY <1>1, <1>5, <1>18, <2>3, <2>4, <2>5, <3>1 DEF CallOK
    <2>7. \A q \in Remuxers : mtx[q] # t
        <3>1. call[t].pc \notin InSource \cup InClose
            BY <1>18 DEF InSource, InClose
        <3> QED
            BY <1>1, <1>2, <3>1
    <2>8. mtx' \in [Remuxers -> Threads \cup {Nobody}]
        BY <1>2, <1>18
    <2>9. \A q \in Remuxers : mtx'[q] = IF c.remuxer = q /\ c.pc \in InSource \cup InClose THEN t
                                        ELSE IF mtx[q] = t THEN Nobody ELSE mtx[q]
        BY <1>18, <2>4, <2>7
    <2>10. \A q \in Remuxers : c.remuxer = q /\ c.pc \in InSource \cup InClose => mtx[q] \in {Nobody, t}
        BY <2>4
    <2>11. using' \subseteq Remuxers
        BY <1>2, <1>18
    <2> QED
        BY <1>18, <2>1, <2>3, <2>6, <2>8, <2>9, <2>10, <2>11, CallMoves
<1>19. ASSUME NEW r \in Remuxers, CallClose(r) PROVE CallsOK'
    <2>1. /\ BeginClose(r, r) /\ call[r].pc = "idle" /\ using' = using \ {r} /\ UNCHANGED mtx
        BY <1>19 DEF CallClose, remuxVars
    <2> QED
        BY <1>1, <1>2, <1>18, <2>1
<1>20. ASSUME NEW r \in Remuxers, OnEnd(r) PROVE CallsOK'
    <2>1. BeginClose(Publisher, r) /\ call[Publisher].pc = "idle" /\ UNCHANGED <<mtx, using>>
        BY <1>20 DEF OnEnd, Running, remuxVars
    <2> QED
        BY <1>1, <1>2, <1>18, <2>1
\* Close goes on, or returns.
<1>21. ASSUME NEW t \in Threads, NEW left \in Seq(Tracks \cup {NoSource}), Detach(t, call[t].remuxer, left),
              call[t].pc \in InClose \cup {"lock"},
              mtx[call[t].remuxer] \in {Nobody, t}, UNCHANGED using
       PROVE  CallsOK'
    <2> DEFINE r == call[t].remuxer
    <2>1. r \in Remuxers /\ (t \in Remuxers => r = t /\ t \notin using)
        BY <1>2, <1>3, <1>21 DEF CallOK, InClose
    <2>2. CASE Finish(t, r)
        <3>1. Return(t) /\ mtx' = [mtx EXCEPT ![r] = Nobody]
            BY <2>2 DEF Finish
        <3> QED
            BY <1>7, <1>21, <2>1, <3>1
    <2>3. ASSUME NEW pc, NEW todo, Goto(t, pc, todo), mtx' = [mtx EXCEPT ![r] = t],
                 \/ pc = "unsink" /\ todo \in Seq(Tracks \cup {NoSource}) /\ todo # <<>>
                 \/ pc = "unlisten" /\ todo \in Seq(Events) /\ todo # <<>>
          PROVE  CallsOK'
        <3> DEFINE c == [pc |-> pc, remuxer |-> r, left |-> todo]
        <3>1. pc \in InSource \cup InClose /\ pc \in InClose
            BY <2>3 DEF InClose
        <3>2. todo \in Seq(Tracks \cup {NoSource} \cup ToSet(StreamEvents))
            BY <2>3 DEF Events
        <3>3. c \in Call
            BY <2>1, <3>1, <3>2 DEF Call, InClose
        <3>4. call'[t] = c
            BY <2>3, GotoIs
        <3>5. CallOK(t)'
            <4>1. call'[t].pc = pc /\ call'[t].remuxer = r /\ call'[t].left = todo
                BY <3>4
            <4>2. LeftOK(t)'
                BY <2>3, <4>1 DEF LeftOK
            <4>3. pc \notin InSource \cup {"idle"}
                BY <2>3 DEF InSource
            <4> QED
                BY <1>1, <1>21, <2>1, <4>1, <4>2, <4>3 DEF CallOK
        <3> HIDE DEF c
        <3> QED
            BY <1>8, <1>21, <2>1, <2>3, <3>1, <3>3, <3>5 DEF c
    <2>4. CASE left # <<>> \/ source[r]
        <3>1. /\ mtx' = [mtx EXCEPT ![r] = t]
              /\ IF left # <<>> THEN Goto(t, "unsink", left) ELSE Goto(t, "unlisten", StreamEvents)
            BY <1>21, <2>4 DEF Detach
        <3> QED
            BY <2>3, <3>1, EventsAre
    <2> QED
        BY <1>21, <2>2, <2>4 DEF Detach
<1>22. ASSUME NEW t \in Threads, CloseLock(t) PROVE CallsOK'
    <2> DEFINE r == call[t].remuxer
               left == [i \in DOMAIN own[r].tracks |-> own[r].tracks[i].source]
    <2>1. call[t].pc = "lock" /\ mtx[r] = Nobody /\ UNCHANGED using /\ Detach(t, r, left)
        BY <1>22 DEF CloseLock
    <2>2. left \in Seq(Tracks \cup {NoSource})
        BY <1>3, <2>1, SourcesSeq
    <2> HIDE DEF left
    <2> QED
        BY <1>21, <2>1, <2>2
<1>23. ASSUME NEW t \in Threads, CloseUnsink(t) PROVE CallsOK'
    <2>1. call[t].pc = "unsink" /\ UNCHANGED using /\ Detach(t, call[t].remuxer, Tail(call[t].left))
        BY <1>23 DEF CloseUnsink
    <2>2. Tail(call[t].left) \in Seq(Tracks \cup {NoSource})
        BY <1>2, <2>1, HeadAndTail DEF CallOK, LeftOK
    <2>3. mtx[call[t].remuxer] = t /\ call[t].pc \in InClose
        BY <1>2, <1>3, <2>1 DEF InClose
    <2> QED
        BY <1>21, <2>1, <2>2, <2>3
<1>24. ASSUME NEW t \in Threads, CloseUnsinkStopped(t) PROVE CallsOK'
    <2>1. /\ call[t].pc = "unsink" /\ UNCHANGED using /\ Return(t)
          /\ mtx' = [mtx EXCEPT ![call[t].remuxer] = Nobody]
        BY <1>24 DEF CloseUnsinkStopped
    <2>2. mtx[call[t].remuxer] = t /\ call[t].remuxer \in Remuxers
        BY <1>2, <1>3, <2>1 DEF InClose
    <2> QED
        BY <1>7, <2>1, <2>2
<1>25. ASSUME NEW t \in Threads, CloseUnlisten(t) PROVE CallsOK'
    <2> DEFINE r == call[t].remuxer
               left == call[t].left
    <2>1. call[t].pc = "unlisten" /\ UNCHANGED using
        BY <1>25 DEF CloseUnlisten
    <2>2. mtx[r] = t /\ r \in Remuxers /\ left \in Seq(Events) /\ left # <<>> /\ call[t].pc \in InClose
        BY <1>2, <1>3, <2>1 DEF InClose, CallOK, LeftOK
    <2>3. CASE Len(left) = 1
        <3>1. Return(t) /\ mtx' = [mtx EXCEPT ![r] = Nobody]
            BY <1>25, <2>3 DEF CloseUnlisten, Finish
        <3> QED
            BY <1>7, <2>1, <2>2, <3>1
    <2>4. CASE Len(left) # 1
        <3>1. Goto(t, "unlisten", Tail(left)) /\ UNCHANGED mtx
            BY <1>25, <2>4 DEF CloseUnlisten
        <3>2. Tail(left) \in Seq(Events) /\ Tail(left) # <<>>
            BY <2>2, <2>4, HeadAndTail
        <3>3. ASSUME NEW todo \in Seq(Events), todo # <<>>, Goto(t, "unlisten", todo)
              PROVE  CallsOK'
            <4> DEFINE c == [pc |-> "unlisten", remuxer |-> r, left |-> todo]
            <4>1. todo \in Seq(Tracks \cup {NoSource} \cup ToSet(StreamEvents))
                BY <3>3 DEF Events
            <4>2. c \in Call
                BY <2>2, <4>1 DEF Call
            <4>3. call' = [call EXCEPT ![t] = c] /\ call'[t] = c
                BY <3>3, GotoIs
            <4>4. CallOK(t)'
                <5>1. call'[t].pc = "unlisten" /\ call'[t].remuxer = r /\ call'[t].left = todo
                    BY <4>3
                <5>2. LeftOK(t)'
                    BY <3>3, <5>1 DEF LeftOK
                <5>3. t \in Remuxers => r = t /\ t \notin using
                    BY <1>2, <2>1 DEF CallOK, InClose
                <5> QED
                    BY <1>1, <2>1, <2>2, <5>1, <5>2, <5>3 DEF CallOK, InSource
            <4>5. c.pc \in InSource \cup InClose /\ c.remuxer = r
                BY DEF InClose
            <4> HIDE DEF c
            <4> QED
                BY <1>6, <2>1, <2>2, <3>1, <4>2, <4>3, <4>4, <4>5
        <3> QED
            BY <3>1, <3>2, <3>3
    <2> QED
        BY <2>3, <2>4
<1>26. ASSUME \/ \E x \in Tracks : StreamAddTrack(x) \/ StreamRemoveTrack(x)
              \/ \E e \in {"error", "close"} : StreamEnds(e)
              \/ StreamClose \/ StreamData
              \/ \E x \in Tracks : \E type \in Types(x) : \E pts \in 1 .. MaxActs :
                   SinkPacket(x, type, pts)
       PROVE  UNCHANGED <<call, mtx, using>>
    BY <1>26 DEF StreamAddTrack, StreamRemoveTrack, StreamEnds, StreamClose, StreamData, SinkPacket,
                 remuxVars
<1>27. ASSUME \/ StreamStopTrack \/ StreamClosed \/ StreamLock \/ OnAddTrackSink
              \/ StreamUnlock \/ SourceUnlock
              \/ \E r \in Remuxers : \/ OnAddTrack(r) \/ OnRemoveTrack(r) \/ OnRemoveTrackPanic(r)
                                     \/ OnData(r) \/ OnPacketPanic(r) \/ OnPacket(r)
       PROVE  UNCHANGED <<call, mtx, using>>
    BY <1>27 DEF StreamStopTrack, StreamClosed, StreamLock, OnAddTrackSink, StreamUnlock, SourceUnlock,
                 OnAddTrack, OnRemoveTrack, OnRemoveTrackPanic, OnData, OnPacketPanic, OnPacket,
                 remuxVars
<1> QED
    BY <1>4, <1>10, <1>11, <1>13, <1>14, <1>15, <1>16, <1>17, <1>19, <1>20, <1>22, <1>23, <1>24, <1>25,
       <1>26, <1>27
    DEF Next, Calls, DispatchSteps, SourceSteps, CloseSteps

-----------------------------------------------------------------------------
(* Who moves, and how.                                                     *)

LEMMA Actors ==
    /\ Nobody \notin Threads /\ Publisher \notin Remuxers /\ Remuxers \subseteq Threads
    /\ Publisher \in Threads /\ Nobody \notin Remuxers /\ Publisher # Nobody
    /\ \A t \in Threads : t \in Remuxers \/ t = Publisher
    /\ NoSource \notin Tracks
BY RemuxerAssumption, MediaStreamAssumption DEF Threads

LEMMA CallFacts ==
    ASSUME CallsOK
    PROVE  /\ call \in [Threads -> Call] /\ mtx \in [Remuxers -> Threads \cup {Nobody}]
           /\ using \subseteq Remuxers
           /\ \A t \in Threads : CallOK(t)
           /\ \A t \in Threads : call[t].pc # "idle" => call[t].remuxer \in Remuxers
           /\ \A r \in Remuxers, t \in Threads :
                 mtx[r] = t <=> call[t].remuxer = r /\ call[t].pc \in InSource \cup InClose
BY DEF CallsOK, Busy, CallOK, Call

LEMMA ReturnIs ==
    ASSUME CallsOK, NEW t \in Threads, Return(t)
    PROVE  /\ call'[t] = Idle /\ call'[t].pc = "idle" /\ call'[t].remuxer = Nobody
           /\ \A u \in Threads : u # t => call'[u] = call[u]
<1>1. call'[t] = Idle /\ \A u \in Threads : u # t => call'[u] = call[u]
    BY DEF CallsOK, Return
<1>2. Idle.pc = "idle" /\ Idle.remuxer = Nobody
    BY DEF Idle
<1> QED
    BY <1>1, <1>2

\* What GotoIs says of the fields.
LEMMA GotoFields ==
    ASSUME CallsOK, NEW t \in Threads, NEW pc, NEW left, Goto(t, pc, left)
    PROVE  /\ call'[t].pc = pc /\ call'[t].remuxer = call[t].remuxer /\ call'[t].left = left
           /\ \A u \in Threads : u # t => call'[u] = call[u]
<1>1. /\ call'[t] = [pc |-> pc, remuxer |-> call[t].remuxer, left |-> left]
      /\ \A u \in Threads : u # t => call'[u] = call[u]
    BY GotoIs, Zenon
<1> QED
    BY <1>1

\* Close goes on to detach, or returns.
LEMMA DetachIs ==
    ASSUME CallsOK, NEW t \in Threads, NEW left \in Seq(Tracks \cup {NoSource}),
           NEW r \in Remuxers, r = call[t].remuxer, Detach(t, r, left)
    PROVE  /\ \A u \in Threads : u # t => call'[u] = call[u]
           /\ \/ left = <<>> /\ ~source[r] /\ Finish(t, r) /\ call'[t] = Idle
              \/ /\ left # <<>> /\ call'[t].pc = "unsink" /\ call'[t].remuxer = r
                 /\ call'[t].left = left
                 /\ mtx' = [mtx EXCEPT ![r] = t] /\ UNCHANGED <<own, source>>
              \/ /\ left = <<>> /\ source[r] /\ call'[t].pc = "unlisten" /\ call'[t].remuxer = r
                 /\ call'[t].left = StreamEvents
                 /\ mtx' = [mtx EXCEPT ![r] = t] /\ UNCHANGED <<own, source>>
<1>1. CASE left = <<>> /\ ~source[r]
    <2>1. Finish(t, r)
        BY <1>1, Zenon DEF Detach
    <2>2. call'[t] = Idle /\ \A u \in Threads : u # t => call'[u] = call[u]
        BY <2>1, ReturnIs DEF Finish
    <2> QED
        BY <1>1, <2>1, <2>2, Zenon
<1>2. CASE left # <<>>
    <2>1. Goto(t, "unsink", left) /\ mtx' = [mtx EXCEPT ![r] = t] /\ UNCHANGED <<own, source>>
        BY <1>2, Zenon DEF Detach
    <2>2. /\ call'[t].pc = "unsink" /\ call'[t].remuxer = r /\ call'[t].left = left
          /\ \A u \in Threads : u # t => call'[u] = call[u]
        BY <2>1, GotoFields, Zenon
    <2> QED
        BY <1>2, <2>1, <2>2, Zenon
<1>3. CASE left = <<>> /\ source[r]
    <2>1. Goto(t, "unlisten", StreamEvents) /\ mtx' = [mtx EXCEPT ![r] = t] /\ UNCHANGED <<own, source>>
        BY <1>3, Zenon DEF Detach
    <2>2. /\ call'[t].pc = "unlisten" /\ call'[t].remuxer = r /\ call'[t].left = StreamEvents
          /\ \A u \in Threads : u # t => call'[u] = call[u]
        BY <2>1, GotoFields, Zenon
    <2> QED
        BY <1>3, <2>1, <2>2, Zenon
<1> QED
    BY <1>1, <1>2, <1>3, Zenon

\* A player in Source moves alone.
LEMMA SourceMoves ==
    ASSUME CallsOK, stream \in MediaStreams, NEW r \in Remuxers, Source(r) \/ SourceSteps(r) \/ CallClose(r)
    PROVE  \A u \in Threads : u # r => call'[u] = call[u]
<1>1. r \in Threads /\ call \in [Threads -> Call]
    BY Actors, CallFacts
<1>2. ASSUME NEW pc, NEW left, Goto(r, pc, left) PROVE \A u \in Threads : u # r => call'[u] = call[u]
    BY <1>1, <1>2, GotoFields
<1>3. ASSUME NEW left, AttachTo(r, left) PROVE \A u \in Threads : u # r => call'[u] = call[u]
    BY <1>2, <1>3 DEF AttachTo
<1>4. CASE Source(r)
    BY <1>1, <1>4 DEF Source
<1>5. CASE SourceMetadata(r)
    BY <1>2, <1>5 DEF SourceMetadata
<1>6. CASE SourceTracks(r)
    BY <1>3, <1>6 DEF SourceTracks
<1>7. CASE SourceAttach(r)
    BY <1>2, <1>7 DEF SourceAttach
<1>8. CASE SourceAttachStopped(r)
    BY <1>1, <1>8, ReturnIs DEF SourceAttachStopped
<1>9. CASE SourceSink(r)
    BY <1>3, <1>9 DEF SourceSink
<1>10. CASE SourceListen(r)
    BY <1>1, <1>2, <1>10, ReturnIs DEF SourceListen
<1>11. CASE CallClose(r)
    BY <1>1, <1>11 DEF CallClose, BeginClose
<1> QED
    BY <1>4, <1>5, <1>6, <1>7, <1>8, <1>9, <1>10, <1>11 DEF SourceSteps

\* So does a goroutine in Close, which goes on with the same remuxer or returns.
LEMMA CloseMoves ==
    ASSUME CallsOK, own \in [Remuxers -> MediaStreams], NEW t \in Threads, CloseSteps(t)
    PROVE  /\ \A u \in Threads : u # t => call'[u] = call[u]
           /\ call[t].pc \in InClose \cup {"lock"} /\ call[t].remuxer \in Remuxers
           /\ \/ call'[t] = Idle
              \/ call'[t].pc \in InClose /\ call'[t].remuxer = call[t].remuxer
<1> USE DEF At
<1>1. /\ call \in [Threads -> Call] /\ CallOK(t)
      /\ call[t].pc # "idle" => call[t].remuxer \in Remuxers
    BY CallFacts
<1>2. ASSUME NEW left \in Seq(Tracks \cup {NoSource}), Detach(t, call[t].remuxer, left),
             call[t].remuxer \in Remuxers
      PROVE  /\ \A u \in Threads : u # t => call'[u] = call[u]
             /\ \/ call'[t] = Idle
                \/ call'[t].pc \in InClose /\ call'[t].remuxer = call[t].remuxer
    BY <1>2, DetachIs DEF InClose
<1>3. CASE CloseLock(t)
    <2>1. call[t].pc = "lock" /\ call[t].remuxer \in Remuxers
        BY <1>1, <1>3 DEF CloseLock
    <2> DEFINE left == [i \in DOMAIN own[call[t].remuxer].tracks |-> own[call[t].remuxer].tracks[i].source]
    <2>2. left \in Seq(Tracks \cup {NoSource})
        BY <2>1, SourcesSeq
    <2>3. Detach(t, call[t].remuxer, left)
        BY <1>3 DEF CloseLock
    <2> HIDE DEF left
    <2> QED
        BY <1>2, <2>1, <2>2, <2>3
<1>4. CASE CloseUnsink(t)
    <2>1. call[t].pc = "unsink" /\ call[t].remuxer \in Remuxers /\ Detach(t, call[t].remuxer, Tail(call[t].left))
        BY <1>1, <1>4 DEF CloseUnsink
    <2>2. Tail(call[t].left) \in Seq(Tracks \cup {NoSource})
        BY <1>1, <2>1, HeadAndTail DEF CallOK, LeftOK
    <2> QED
        BY <1>2, <2>1, <2>2 DEF InClose
<1>5. CASE CloseUnsinkStopped(t)
    BY <1>1, <1>5, ReturnIs DEF CloseUnsinkStopped, InClose
<1>6. CASE CloseUnlisten(t)
    BY <1>1, <1>6, ReturnIs, GotoFields DEF CloseUnlisten, Finish, InClose
<1> QED
    BY <1>3, <1>4, <1>5, <1>6 DEF CloseSteps

-----------------------------------------------------------------------------
(* The dispatch.                                                           *)

LEMMA DispatchFields ==
    ASSUME NEW d \in Dispatch
    PROVE  /\ d.pc \in {"idle", "lock", "run", "stop", "packet"}
           /\ d.event \in Events \cup {"none"} /\ d.track \in Tracks \cup {NoSource}
           /\ d.todo \in SUBSET Remuxers /\ d.adding \in Remuxers \cup {Nobody}
           /\ d.closing \in Seq(Tracks) /\ d.packet \in {"none", "header", "key", "inter", "raw"}
           /\ d.pts \in Nat
BY DEF Dispatch, Events

LEMMA QuietIs ==
    /\ Quiet \in Dispatch /\ Quiet.pc = "idle" /\ Quiet.event = "none" /\ Quiet.track = NoSource
    /\ Quiet.todo = {} /\ Quiet.adding = Nobody /\ Quiet.pts = 0 /\ Quiet.packet = "none"
<1>1. <<>> \in Seq(Tracks)
    OBVIOUS
<1> QED
    BY <1>1 DEF Quiet, Dispatch

\* A dispatch of which one field changes.
LEMMA WithTodo ==
    ASSUME NEW d \in Dispatch, NEW todo \in SUBSET Remuxers, NEW e, e = [d EXCEPT !.todo = todo]
    PROVE  /\ e \in Dispatch /\ e.todo = todo /\ e.pc = d.pc /\ e.event = d.event /\ e.track = d.track
           /\ e.adding = d.adding /\ e.closing = d.closing /\ e.packet = d.packet /\ e.pts = d.pts
BY DEF Dispatch

LEMMA NoneLeft ==
    ASSUME NEW d \in Dispatch, NEW e, e = [d EXCEPT !.todo = {}]
    PROVE  /\ e \in Dispatch /\ e.todo = {} /\ e.pc = d.pc /\ e.event = d.event /\ e.track = d.track
           /\ e.adding = d.adding /\ e.closing = d.closing /\ e.packet = d.packet /\ e.pts = d.pts
BY DEF Dispatch

LEMMA WithAdding ==
    ASSUME NEW d \in Dispatch, NEW r \in Remuxers \cup {Nobody}, NEW e, e = [d EXCEPT !.adding = r]
    PROVE  /\ e \in Dispatch /\ e.todo = d.todo /\ e.pc = d.pc /\ e.event = d.event /\ e.track = d.track
           /\ e.adding = r /\ e.closing = d.closing /\ e.packet = d.packet /\ e.pts = d.pts
BY DEF Dispatch

LEMMA WithPc ==
    ASSUME NEW d \in Dispatch, NEW pc \in {"idle", "lock", "run", "stop", "packet"},
           NEW e, e = [d EXCEPT !.pc = pc]
    PROVE  /\ e \in Dispatch /\ e.todo = d.todo /\ e.pc = pc /\ e.event = d.event /\ e.track = d.track
           /\ e.adding = d.adding /\ e.closing = d.closing /\ e.packet = d.packet /\ e.pts = d.pts
BY DEF Dispatch

\* The next remuxer was told.
LEMMA RanIs ==
    ASSUME dispatch \in Dispatch, NEW r, NEW e, e = Ran(r)
    PROVE  /\ e \in Dispatch /\ e.todo = dispatch.todo \ {r} /\ e.pc = dispatch.pc
           /\ e.event = dispatch.event /\ e.track = dispatch.track /\ e.adding = dispatch.adding
           /\ e.closing = dispatch.closing /\ e.packet = dispatch.packet /\ e.pts = dispatch.pts
<1>1. dispatch.todo \ {r} \in SUBSET Remuxers
    BY DispatchFields
<1>2. e = [dispatch EXCEPT !.todo = dispatch.todo \ {r}]
    BY DEF Ran
<1> QED
    BY <1>1, <1>2, WithTodo

\* The listeners of an event of the stream are about to run.
LEMMA RunIs ==
    ASSUME dispatch \in Dispatch, StreamLock, listeners[dispatch.event] \in SUBSET Remuxers,
           listeners[dispatch.event] # {}
    PROVE  /\ dispatch' \in Dispatch /\ dispatch'.todo = listeners[dispatch.event]
           /\ dispatch'.pc = "run" /\ dispatch'.event = dispatch.event
           /\ dispatch'.track = dispatch.track /\ dispatch'.adding = dispatch.adding
           /\ dispatch'.closing = dispatch.closing
<1> DEFINE d == [dispatch EXCEPT !.pc = "run"]
<1>1. /\ d \in Dispatch /\ d.event = dispatch.event /\ d.track = dispatch.track
      /\ d.adding = dispatch.adding /\ d.closing = dispatch.closing /\ d.pc = "run"
    BY WithPc
<1>2. dispatch' = [d EXCEPT !.todo = listeners[dispatch.event]]
    BY DEF StreamLock
<1> HIDE DEF d
<1> QED
    BY <1>1, <1>2, WithTodo

\* A new track is being attached.
LEMMA AddingIs ==
    ASSUME dispatch \in Dispatch, NEW r \in Remuxers, dispatch' = [Ran(r) EXCEPT !.adding = r]
    PROVE  /\ dispatch' \in Dispatch /\ dispatch'.todo = dispatch.todo \ {r} /\ dispatch'.pc = dispatch.pc
           /\ dispatch'.event = dispatch.event /\ dispatch'.track = dispatch.track
           /\ dispatch'.adding = r /\ dispatch'.closing = dispatch.closing
           /\ dispatch'.packet = dispatch.packet /\ dispatch'.pts = dispatch.pts
BY RanIs, WithAdding

\* A call or event of the publisher begins.
LEMMA BeginIs ==
    ASSUME NEW pc \in {"lock", "stop"}, NEW event \in Events, NEW track \in Tracks \cup {NoSource},
           NEW closing \in Seq(Tracks), Begin(pc, event, track, closing)
    PROVE  /\ dispatch' \in Dispatch /\ dispatch'.pc = pc /\ dispatch'.event = event
           /\ dispatch'.track = track /\ dispatch'.closing = closing
           /\ dispatch'.todo = {} /\ dispatch'.adding = Nobody
           /\ dispatch = Quiet
<1>1. dispatch = Quiet /\ dispatch' = [Quiet EXCEPT !.pc = pc, !.event = event, !.track = track,
                                                    !.closing = closing]
    BY DEF Begin, PublisherIdle
<1>2. dispatch' = [pc |-> pc, event |-> event, track |-> track, todo |-> {},
                   adding |-> Nobody, closing |-> closing, packet |-> "none", pts |-> 0]
    BY <1>1 DEF Quiet
<1>3. /\ pc \in {"idle", "lock", "run", "stop", "packet"} /\ event \in Events \cup {"none"}
      /\ {} \in SUBSET Remuxers /\ Nobody \in Remuxers \cup {Nobody}
      /\ "none" \in {"none", "header", "key", "inter", "raw"} /\ 0 \in Nat
    OBVIOUS
<1>4. dispatch = Quiet
    BY <1>1
<1>5. dispatch' \in Dispatch
    BY <1>2, <1>3 DEF Dispatch, Events
<1>6. /\ dispatch'.pc = pc /\ dispatch'.event = event /\ dispatch'.track = track
      /\ dispatch'.closing = closing /\ dispatch'.todo = {} /\ dispatch'.adding = Nobody
    BY <1>2
<1> QED
    BY <1>4, <1>5, <1>6

LEMMA BeginDispatch ==
    ASSUME NEW event \in Events, NEW track \in Tracks \cup {NoSource}, Begin("lock", event, track, <<>>)
    PROVE  /\ dispatch' \in Dispatch /\ dispatch'.pc = "lock" /\ dispatch'.event = event
           /\ dispatch'.track = track /\ ToSet(dispatch'.closing) = {}
           /\ dispatch'.todo = {} /\ dispatch'.adding = Nobody
           /\ dispatch = Quiet
<1>1. PICK closing \in Seq(Tracks) : ToSet(closing) = {} /\ Begin("lock", event, track, closing)
    <2>1. <<>> \in Seq(Tracks)
        OBVIOUS
    <2>2. ToSet(<<>>) = {}
        BY DEF ToSet
    <2> QED
        BY <2>1, <2>2
<1>2. "lock" \in {"lock", "stop"}
    OBVIOUS
<1> QED
    BY <1>1, <1>2, BeginIs

\* The next track of a stream that is closed.
LEMMA StopIs ==
    ASSUME dispatch \in Dispatch, StreamStopTrack
    PROVE  /\ dispatch' \in Dispatch /\ dispatch'.pc = "lock" /\ dispatch'.event = dispatch.event
           /\ dispatch'.track = Head(dispatch.closing) /\ dispatch'.track \in Tracks
           /\ dispatch'.closing = Tail(dispatch.closing)
           /\ dispatch'.todo = dispatch.todo /\ dispatch'.adding = dispatch.adding
<1> DEFINE x == Head(dispatch.closing)
           rest == Tail(dispatch.closing)
<1>1. x \in Tracks /\ rest \in Seq(Tracks)
    BY DispatchFields, HeadAndTail DEF StreamStopTrack
<1>2. dispatch' = [dispatch EXCEPT !.pc = "lock", !.track = x, !.closing = rest]
    BY DEF StreamStopTrack
<1> HIDE DEF x, rest
<1> DEFINE d == [dispatch EXCEPT !.pc = "lock"]
           e == [d EXCEPT !.track = x]
<1>3. dispatch' = [e EXCEPT !.closing = rest]
    BY <1>2
<1>4. /\ d \in Dispatch /\ d.pc = "lock" /\ d.event = dispatch.event /\ d.todo = dispatch.todo
      /\ d.adding = dispatch.adding
    BY WithPc
<1> HIDE DEF d
<1>5. /\ e \in Dispatch /\ e.pc = d.pc /\ e.event = d.event /\ e.todo = d.todo /\ e.adding = d.adding
      /\ e.track = x
    BY <1>1, <1>4 DEF Dispatch
<1> HIDE DEF e
<1>6. /\ dispatch' \in Dispatch /\ dispatch'.pc = e.pc /\ dispatch'.event = e.event
      /\ dispatch'.todo = e.todo /\ dispatch'.adding = e.adding /\ dispatch'.track = e.track
      /\ dispatch'.closing = rest
    BY <1>1, <1>3, <1>5 DEF Dispatch
<1> QED
    BY <1>1, <1>4, <1>5, <1>6 DEF x, rest

\* A packet that some remuxer listens to.
LEMMA SinkIs ==
    ASSUME NEW x \in Tracks, NEW type \in Types(x), NEW pts \in Nat, sinks[x] \in SUBSET Remuxers,
           SinkPacket(x, type, pts), sinks[x] # {}
    PROVE  /\ dispatch' \in Dispatch /\ dispatch'.pc = "packet" /\ dispatch'.track = x
           /\ dispatch'.todo = sinks[x] /\ dispatch'.packet = type /\ dispatch'.pts = pts
           /\ dispatch'.adding = Nobody /\ ToSet(dispatch'.closing) = {}
<1>1. dispatch' = [pc |-> "packet", event |-> "none", track |-> x, todo |-> sinks[x],
                   adding |-> Nobody, closing |-> <<>>, packet |-> type, pts |-> pts]
    BY DEF Quiet, SinkPacket
<1>2. type \in {"none", "header", "key", "inter", "raw"}
    BY Zenon DEF Types
<1>3. <<>> \in Seq(Tracks) /\ Nobody \in Remuxers \cup {Nobody}
    OBVIOUS
<1>4. "none" \in Events \cup {"none"} /\ x \in Tracks \cup {NoSource}
    OBVIOUS
<1>5. dispatch' \in Dispatch
    BY <1>1, <1>2, <1>3, <1>4 DEF Dispatch, Events
<1>6. /\ dispatch'.pc = "packet" /\ dispatch'.track = x /\ dispatch'.todo = sinks[x]
      /\ dispatch'.packet = type /\ dispatch'.pts = pts /\ dispatch'.adding = Nobody
    BY <1>1
<1>7. ToSet(dispatch'.closing) = {}
    <2>1. ToSet(<<>>) = {} /\ dispatch'.closing = <<>>
        BY <1>1 DEF ToSet
    <2> QED
        BY <2>1
<1> QED
    BY <1>5, <1>6, <1>7

\* Remuxers come and go, but not while they are being told.
LEMMA RegistersKeep ==
    ASSUME DispatchOK, UNCHANGED <<dispatch, streamDisp, sourceDisp>>,
           call'[Publisher] = call[Publisher],
           listeners' \in [Events -> SUBSET Remuxers], sinks' \in [Tracks -> SUBSET Remuxers],
           streamDisp = Publisher => listeners' = listeners,
           \A x \in Tracks : sourceDisp[x] = Publisher => sinks'[x] = sinks[x]
    PROVE  DispatchOK'
<1>1. Publisher # Nobody
    BY Actors
<1>2. PhaseOK' /\ LocksOK'
    BY DEF DispatchOK, PhaseOK, LocksOK, Dispatching
<1>3. dispatch.pc = "run" => listeners' = listeners
    BY <1>1 DEF DispatchOK, LocksOK
<1>4. dispatch.pc = "packet" => sinks'[dispatch.track] = sinks[dispatch.track]
    BY DEF DispatchOK, LocksOK, PhaseOK
<1>5. TodoOK'
    BY <1>3, <1>4 DEF DispatchOK, TodoOK
<1> QED
    BY <1>2, <1>5 DEF DispatchOK

\* The listeners of an event of the stream run one by one.
LEMMA RunningKeeps ==
    ASSUME DispatchOK, dispatch.pc = "run",
           dispatch' \in Dispatch, dispatch'.pc = dispatch.pc, dispatch'.event = dispatch.event,
           dispatch'.track = dispatch.track, dispatch'.todo \subseteq dispatch.todo,
           UNCHANGED <<listeners, streamDisp, sourceDisp>>, sinks' \in [Tracks -> SUBSET Remuxers],
           dispatch'.adding # Nobody =>
              dispatch.event = "addtrack" /\ dispatch'.adding \in listeners["addtrack"] \ dispatch'.todo,
           call'[Publisher].pc # "idle" =>
              dispatch.event \in {"error", "close"} /\ call'[Publisher].remuxer \notin dispatch'.todo
    PROVE  DispatchOK'
<1>1. PhaseOK'
    BY DEF DispatchOK, PhaseOK, Dispatching
<1>2. LocksOK'
    BY DEF DispatchOK, LocksOK
<1>3. TodoOK'
    BY DEF DispatchOK, TodoOK
<1> QED
    BY <1>1, <1>2, <1>3 DEF DispatchOK

\* The publisher does something else.
LEMMA PhaseKeeps ==
    ASSUME DispatchOK, dispatch' \in Dispatch, PhaseOK', LocksOK',
           call[Publisher].pc = "idle", UNCHANGED call,
           dispatch'.adding = Nobody, UNCHANGED <<listeners, sinks>>,
           dispatch'.pc = "run" => dispatch'.todo \subseteq listeners[dispatch'.event],
           dispatch'.pc = "packet" => dispatch'.todo \subseteq sinks[dispatch'.track]
    PROVE  DispatchOK'
<1>1. TodoOK'
    BY DEF DispatchOK, TodoOK
<1> QED
    BY <1>1 DEF DispatchOK

\* The publisher dispatches nothing, or the next event of a stream it closes.
LEMMA Unlocked ==
    ASSUME DispatchOK, dispatch' = Quiet \/ dispatch'.pc \in {"lock", "stop"},
           dispatch.pc \notin {"run", "packet"} /\ UNCHANGED <<streamDisp, sourceDisp>>
    PROVE  LocksOK'
<1>1. dispatch'.pc \in {"idle", "lock", "stop"}
    BY QuietIs
<1> QED
    BY <1>1 DEF DispatchOK, LocksOK

\* What the publisher is doing, and who is registered where.
LEMMA DispatchStep ==
    ASSUME CallsOK, DispatchOK, own \in [Remuxers -> MediaStreams], stream \in MediaStreams,
           stopped \subseteq Tracks, Dispatching("addtrack") => dispatch.track \notin stopped,
           Next
    PROVE  DispatchOK'
<1> USE DEF At
<1>1. /\ dispatch \in Dispatch /\ PhaseOK /\ TodoOK /\ LocksOK
      /\ listeners \in [Events -> SUBSET Remuxers] /\ sinks \in [Tracks -> SUBSET Remuxers]
    BY DEF DispatchOK
<1>2. call[Publisher].pc # "idle" =>
         dispatch.pc = "run" /\ dispatch.event \in {"error", "close"} /\ dispatch.adding = Nobody
    BY <1>1 DEF TodoOK
<1>3. dispatch.pc # "run" => dispatch.adding = Nobody /\ call[Publisher].pc = "idle"
    BY <1>1 DEF TodoOK
<1>4. /\ streamDisp \in {Publisher, Nobody} /\ \A x \in Tracks : sourceDisp[x] \in {Publisher, Nobody}
      /\ dispatch.pc = "run" <=> streamDisp = Publisher
      /\ \A x \in Tracks : sourceDisp[x] = Publisher => dispatch.pc = "packet"
    BY <1>1, Actors DEF LocksOK
\* The players.
<1>5. ASSUME NEW r \in Remuxers, Source(r) \/ SourceSteps(r) \/ CallClose(r) PROVE DispatchOK'
    <2>1. call'[Publisher] = call[Publisher]
        BY <1>5, SourceMoves, Actors
    <2>2. UNCHANGED <<dispatch, streamDisp, sourceDisp>>
        BY <1>5 DEF Source, SourceSteps, SourceMetadata, SourceTracks, SourceAttach, SourceAttachStopped,
                    SourceSink, SourceListen, CallClose, lockVars
    <2>3. CASE SourceSink(r)
        <3> DEFINE x == Head(call[r].left)
        <3>1. UNCHANGED listeners /\ sinks' = [sinks EXCEPT ![x] = @ \cup {r}] /\ sourceDisp[x] = Nobody
            BY <2>3 DEF SourceSink
        <3> HIDE DEF x
        <3>2. /\ sinks' \in [Tracks -> SUBSET Remuxers]
              /\ \A y \in Tracks : sourceDisp[y] = Publisher => sinks'[y] = sinks[y]
            BY <1>1, <3>1, Actors
        <3> QED
            BY <1>1, <2>1, <2>2, <3>1, <3>2, RegistersKeep
    <2>4. CASE SourceListen(r)
        <3> DEFINE e == Head(call[r].left)
        <3>1. UNCHANGED sinks /\ listeners' = [listeners EXCEPT ![e] = @ \cup {r}] /\ streamDisp = Nobody
            BY <2>4 DEF SourceListen
        <3> HIDE DEF e
        <3>2. listeners' \in [Events -> SUBSET Remuxers]
            BY <1>1, <3>1
        <3> QED
            BY <1>1, <2>1, <2>2, <3>1, <3>2, RegistersKeep, Actors
    <2>5. ASSUME ~SourceSink(r), ~SourceListen(r) PROVE UNCHANGED <<listeners, sinks>>
        BY <1>5, <2>5 DEF Source, SourceSteps, SourceMetadata, SourceTracks, SourceAttach, SourceAttachStopped,
                    CallClose, tableVars
    <2>6. CASE ~SourceSink(r) /\ ~SourceListen(r)
        BY <1>1, <2>1, <2>2, <2>5, <2>6, RegistersKeep
    <2> QED
        BY <2>3, <2>4, <2>6
\* Close, by the player or by the publisher.
<1>6. ASSUME NEW t \in Threads, CloseSteps(t) PROVE DispatchOK'
    <2> DEFINE r == call[t].remuxer
    <2>1. /\ \A u \in Threads : u # t => call'[u] = call[u]
          /\ call[t].pc \in InClose \cup {"lock"} /\ r \in Remuxers
          /\ call'[t] = Idle \/ (call'[t].pc \in InClose /\ call'[t].remuxer = r)
        BY <1>6, CloseMoves
    <2>2. UNCHANGED <<streamDisp, sourceDisp>>
        BY <1>6 DEF CloseSteps, CloseLock, CloseUnsink, CloseUnsinkStopped, CloseUnlisten, lockVars
    <2> HIDE DEF r
    <2>3. /\ listeners' \in [Events -> SUBSET Remuxers]
          /\ \A e \in Events : listeners[e] \ {r} \subseteq listeners'[e] /\ listeners'[e] \subseteq listeners[e]
          /\ ~Free(streamDisp, t) => listeners' = listeners
        <3>1. CASE CloseUnlisten(t)
            <4> DEFINE e == Head(call[t].left)
            <4>1. listeners' = [listeners EXCEPT ![e] = @ \ {r}] /\ Free(streamDisp, t)
                BY <3>1 DEF CloseUnlisten, r
            <4> HIDE DEF e
            <4> QED
                BY <1>1, <4>1
        <3>2. CASE CloseLock(t) \/ CloseUnsink(t) \/ CloseUnsinkStopped(t)
            <4>1. UNCHANGED listeners
                BY <3>2 DEF CloseLock, CloseUnsink, CloseUnsinkStopped, tableVars
            <4> QED
                BY <1>1, <4>1
        <3> QED
            BY <1>6, <3>1, <3>2 DEF CloseSteps
    <2>4. /\ sinks' \in [Tracks -> SUBSET Remuxers]
          /\ \A x \in Tracks : ~Free(sourceDisp[x], t) => sinks'[x] = sinks[x]
        <3>1. CASE CloseUnsink(t)
            <4> DEFINE x == Head(call[t].left)
            <4>1. sinks' = [sinks EXCEPT ![x] = @ \ {r}] /\ Free(sourceDisp[x], t)
                BY <3>1 DEF CloseUnsink, r
            <4> HIDE DEF x
            <4> QED
                BY <1>1, <4>1
        <3>2. CASE CloseLock(t) \/ CloseUnlisten(t) \/ CloseUnsinkStopped(t)
            <4>1. UNCHANGED sinks
                BY <3>2 DEF CloseLock, CloseUnlisten, CloseUnsinkStopped, tableVars
            <4> QED
                BY <1>1, <4>1
        <3> QED
            BY <1>6, <3>1, <3>2 DEF CloseSteps
    <2>5. CASE t # Publisher
        <3>1. call'[Publisher] = call[Publisher]
            BY <2>1, <2>5, Actors
        <3>2. UNCHANGED dispatch
            BY <1>6, <2>5 DEF CloseSteps, CloseLock, CloseUnsink, CloseUnsinkStopped, CloseUnlisten
        <3>3. streamDisp = Publisher => ~Free(streamDisp, t)
            BY <2>5, Actors DEF Free
        <3>4. \A x \in Tracks : sourceDisp[x] = Publisher => ~Free(sourceDisp[x], t)
            BY <2>5, Actors DEF Free
        <3> QED
            BY <2>2, <2>3, <2>4, <3>1, <3>2, <3>3, <3>4, RegistersKeep
    <2>6. CASE t = Publisher
        <3>1. /\ dispatch.pc = "run" /\ dispatch.event \in {"error", "close"} /\ dispatch.adding = Nobody
              /\ r \notin dispatch.todo
            <4>1. call[Publisher].pc # "idle"
                BY <2>1, <2>6 DEF InClose
            <4> QED
                BY <1>1, <1>2, <2>6, <4>1 DEF TodoOK, r
        <3>2. /\ dispatch' \in Dispatch /\ dispatch'.pc = dispatch.pc /\ dispatch'.event = dispatch.event
              /\ dispatch'.track = dispatch.track /\ dispatch'.todo \subseteq dispatch.todo
              /\ dispatch'.adding = Nobody /\ dispatch'.packet = dispatch.packet
            <4>1. CASE UNCHANGED dispatch
                BY <1>1, <3>1, <4>1
            <4>2. CASE CloseUnsinkStopped(t)
                <5>1. dispatch' = [dispatch EXCEPT !.todo = {}]
                    BY <2>6, <4>2 DEF CloseUnsinkStopped
                <5> QED
                    BY <1>1, <3>1, <5>1, NoneLeft
            <4>3. CASE CloseLock(t) \/ CloseUnsink(t) \/ CloseUnlisten(t)
                BY <4>1, <4>3 DEF CloseLock, CloseUnsink, CloseUnlisten
            <4> QED
                BY <1>6, <4>2, <4>3 DEF CloseSteps
        <3>3. PhaseOK'
            BY <1>1, <3>1, <3>2 DEF PhaseOK, Dispatching
        <3>4. LocksOK'
            BY <1>1, <2>2, <3>2 DEF LocksOK
        <3>5. dispatch'.todo \subseteq listeners'[dispatch'.event]
            <4>1. dispatch.todo \subseteq listeners[dispatch.event] /\ dispatch.event \in Events
                BY <1>1, <3>1 DEF TodoOK, PhaseOK
            <4> QED
                BY <2>3, <3>1, <3>2, <4>1
        <3>6. call'[Publisher].pc # "idle" =>
                  call'[Publisher].remuxer = r /\ dispatch'.event \in {"error", "close"}
            BY <2>1, <2>6, <3>1, <3>2 DEF Idle
        <3>7. TodoOK'
            BY <3>1, <3>2, <3>5, <3>6 DEF TodoOK
        <3> QED
            BY <2>3, <2>4, <3>2, <3>3, <3>4, <3>7 DEF DispatchOK
    <2> QED
        BY <2>5, <2>6
\* The publisher begins a call.
<1>7. ASSUME NEW pc \in {"lock", "stop"}, NEW event \in Events, NEW track \in Tracks \cup {NoSource},
             NEW closing \in Seq(Tracks), Begin(pc, event, track, closing),
             UNCHANGED <<listeners, sinks, streamDisp, sourceDisp, call>>,
             \/ pc = "lock" /\ event \in {"addtrack", "removetrack"} /\ track \in Tracks
             \/ pc = "lock" /\ event \in {"packet", "error", "close"} /\ track = NoSource
             \/ pc = "stop" /\ event = "removetrack"
      PROVE  DispatchOK'
    <2>1. /\ dispatch' \in Dispatch /\ dispatch'.pc = pc /\ dispatch'.event = event
          /\ dispatch'.track = track /\ dispatch'.adding = Nobody /\ dispatch = Quiet
        BY <1>7, BeginIs
    <2>2. PhaseOK'
        BY <1>7, <2>1 DEF PhaseOK, Dispatching
    <2>3. LocksOK'
        BY <1>7, <2>1, QuietIs, Unlocked
    <2>4. call[Publisher].pc = "idle"
        BY <1>3, <2>1, QuietIs
    <2> QED
        BY <1>1, <1>7, <2>1, <2>2, <2>3, <2>4, PhaseKeeps
<1>8. ASSUME NEW x \in Tracks, StreamAddTrack(x) \/ StreamRemoveTrack(x) PROVE DispatchOK'
    <2>1. PICK e \in {"addtrack", "removetrack"} : Begin("lock", e, x, <<>>)
        BY <1>8 DEF StreamAddTrack, StreamRemoveTrack
    <2>2. UNCHANGED <<listeners, sinks, streamDisp, sourceDisp, call>>
        BY <1>8 DEF StreamAddTrack, StreamRemoveTrack, tableVars
    <2>3. <<>> \in Seq(Tracks) /\ e \in Events
        BY EventsAre
    <2> QED
        BY <1>7, <2>1, <2>2, <2>3
<1>9. ASSUME StreamClose PROVE DispatchOK'
    <2> DEFINE closing == [i \in DOMAIN stream.tracks |-> stream.tracks[i].track]
    <2>1. Begin("stop", "removetrack", NoSource, closing)
        BY <1>9 DEF StreamClose
    <2>2. closing \in Seq(Tracks)
        BY TracksSeq
    <2> HIDE DEF closing
    <2>3. UNCHANGED <<listeners, sinks, streamDisp, sourceDisp, call>>
        BY <1>9 DEF StreamClose, tableVars
    <2> QED
        BY <1>7, <2>1, <2>2, <2>3, EventsAre
<1>10. ASSUME StreamData \/ \E e \in {"error", "close"} : StreamEnds(e) PROVE DispatchOK'
    <2>1. PICK e \in {"packet", "error", "close"} : Begin("lock", e, NoSource, <<>>)
        BY <1>10 DEF StreamData, StreamEnds
    <2>2. UNCHANGED <<listeners, sinks, streamDisp, sourceDisp, call>>
        BY <1>10 DEF StreamData, StreamEnds, tableVars, lockVars
    <2>3. <<>> \in Seq(Tracks) /\ e \in Events
        BY EventsAre
    <2> QED
        BY <1>7, <2>1, <2>2, <2>3
\* It goes on with the next track, or has closed the stream.
<1>11. ASSUME StreamStopTrack PROVE DispatchOK'
    <2>1. /\ dispatch' \in Dispatch /\ dispatch'.pc = "lock" /\ dispatch'.event = dispatch.event
          /\ dispatch'.track \in Tracks /\ dispatch'.adding = dispatch.adding
        BY <1>1, <1>11, StopIs
    <2>2. dispatch.pc = "stop" /\ UNCHANGED <<listeners, sinks, streamDisp, sourceDisp, call>>
        BY <1>11 DEF StreamStopTrack, tableVars, lockVars
    <2>3. dispatch.event = "removetrack"
        BY <1>1, <2>2 DEF PhaseOK
    <2>4. PhaseOK'
        BY <2>1, <2>3, EventsAre DEF PhaseOK, Dispatching
    <2>5. LocksOK'
        BY <2>1, <2>2, Unlocked
    <2> QED
        BY <1>1, <1>3, <2>1, <2>2, <2>4, <2>5, PhaseKeeps
<1>12. ASSUME dispatch' = Quiet, LocksOK', UNCHANGED <<listeners, sinks, call>>, call[Publisher].pc = "idle"
       PROVE  DispatchOK'
    <2>1. PhaseOK'
        BY <1>12, QuietIs DEF PhaseOK, Dispatching
    <2> QED
        BY <1>1, <1>12, <2>1, QuietIs, PhaseKeeps
<1>13. ASSUME StreamClosed PROVE DispatchOK'
    <2>1. /\ dispatch.pc = "stop" /\ dispatch' = Quiet
          /\ UNCHANGED <<listeners, sinks, streamDisp, sourceDisp, call>>
        BY <1>13 DEF StreamClosed, tableVars
    <2>2. LocksOK'
        BY <2>1, Unlocked
    <2> QED
        BY <1>3, <1>12, <2>1, <2>2
\* The dispatch on the stream is over.
<1>14. ASSUME Dispatched, dispatch.pc \in {"lock", "run"}, dispatch.adding = Nobody, LocksOK',
              UNCHANGED <<listeners, sinks, call>>, call[Publisher].pc = "idle"
       PROVE  DispatchOK'
    <2>1. CASE dispatch.track \in stopped
        <3>1. dispatch' = [dispatch EXCEPT !.pc = "stop"]
            BY <1>14, <2>1 DEF Dispatched
        <3>2. /\ dispatch' \in Dispatch /\ dispatch'.pc = "stop" /\ dispatch'.event = dispatch.event
              /\ dispatch'.track = dispatch.track /\ dispatch'.adding = dispatch.adding
            BY <1>1, <3>1, WithPc
        <3>3. dispatch.event = "removetrack"
            BY <1>1, <1>14, <2>1, EventsAre, Actors DEF PhaseOK, Dispatching
        <3>4. PhaseOK'
            BY <3>2, <3>3 DEF PhaseOK, Dispatching
        <3> QED
            BY <1>1, <1>14, <3>2, <3>4, PhaseKeeps
    <2>2. CASE dispatch.track \notin stopped
        BY <1>12, <1>14, <2>2 DEF Dispatched
    <2> QED
        BY <2>1, <2>2
<1>15. ASSUME StreamLock PROVE DispatchOK'
    <2>1. /\ dispatch.pc = "lock" /\ UNCHANGED <<listeners, sinks, sourceDisp, call>>
        BY <1>15 DEF StreamLock, tableVars
    <2>2. dispatch.event \in Events /\ dispatch.adding = Nobody /\ call[Publisher].pc = "idle"
        BY <1>1, <1>3, <2>1 DEF PhaseOK
    <2>3. CASE listeners[dispatch.event] = {}
        <3>1. Dispatched /\ UNCHANGED streamDisp
            BY <1>15, <2>3 DEF StreamLock
        <3>2. dispatch' = Quiet \/ dispatch'.pc \in {"lock", "stop"}
            BY <1>1, <3>1, WithPc DEF Dispatched
        <3>3. LocksOK'
            BY <2>1, <3>1, <3>2, Unlocked
        <3> QED
            BY <1>14, <2>1, <2>2, <3>1, <3>3
    <2>4. CASE listeners[dispatch.event] # {}
        <3>1. /\ dispatch' \in Dispatch /\ dispatch'.todo = listeners[dispatch.event]
              /\ dispatch'.pc = "run" /\ dispatch'.event = dispatch.event
              /\ dispatch'.track = dispatch.track /\ dispatch'.adding = dispatch.adding
            BY <1>1, <1>15, <2>2, <2>4, RunIs
        <3>2. streamDisp' = Publisher
            BY <1>15, <2>4 DEF StreamLock
        <3>3. PhaseOK'
            BY <1>1, <2>1, <3>1 DEF PhaseOK, Dispatching
        <3>4. LocksOK'
            BY <1>1, <2>1, <3>1, <3>2 DEF LocksOK
        <3> QED
            BY <1>1, <2>1, <2>2, <3>1, <3>3, <3>4, PhaseKeeps
    <2> QED
        BY <2>3, <2>4
<1>16. ASSUME StreamUnlock PROVE DispatchOK'
    <2>1. /\ dispatch.pc = "run" /\ dispatch.adding = Nobody /\ call[Publisher].pc = "idle"
          /\ streamDisp' = Nobody /\ Dispatched /\ UNCHANGED <<listeners, sinks, sourceDisp, call>>
        BY <1>16 DEF StreamUnlock, tableVars
    <2>2. dispatch'.pc \in {"idle", "stop"}
        BY <1>1, <2>1, WithPc, QuietIs DEF Dispatched
    <2>3. LocksOK'
        BY <1>1, <2>1, <2>2 DEF LocksOK
    <2> QED
        BY <1>14, <2>1, <2>3
\* The listeners run.
<1>17. ASSUME NEW r \in Remuxers, OnAddTrack(r) PROVE DispatchOK'
    <2>1. /\ dispatch.pc = "run" /\ dispatch.event = "addtrack" /\ call[Publisher].pc = "idle"
          /\ dispatch.adding = Nobody /\ r \in dispatch.todo
          /\ UNCHANGED <<listeners, sinks, streamDisp, sourceDisp, call>>
        BY <1>17 DEF OnAddTrack, Running, tableVars, lockVars
    <2>2. dispatch' = Ran(r) \/ dispatch' = [Ran(r) EXCEPT !.adding = r]
        BY <1>17 DEF OnAddTrack
    <2>3. /\ dispatch' \in Dispatch /\ dispatch'.todo = dispatch.todo \ {r} /\ dispatch'.pc = dispatch.pc
          /\ dispatch'.event = dispatch.event /\ dispatch'.track = dispatch.track
          /\ dispatch'.adding \in {r, Nobody}
        BY <1>1, <2>1, <2>2, RanIs, AddingIs
    <2>4. r \in listeners["addtrack"]
        BY <1>1, <2>1 DEF TodoOK
    <2> QED
        BY <1>1, <2>1, <2>3, <2>4, RunningKeeps
<1>18. ASSUME OnAddTrackSink PROVE DispatchOK'
    <2> DEFINE x == dispatch.track
               r == dispatch.adding
    <2>1. /\ r # Nobody /\ sinks' = [sinks EXCEPT ![x] = @ \cup {r}]
          /\ dispatch' = [dispatch EXCEPT !.adding = Nobody]
          /\ UNCHANGED <<listeners, streamDisp, sourceDisp, call>>
        BY <1>18 DEF OnAddTrackSink, lockVars
    <2>2. dispatch.pc = "run" /\ dispatch.event = "addtrack" /\ r \in Remuxers
        BY <1>1, <2>1, DispatchFields DEF TodoOK
    <2>3. sinks' \in [Tracks -> SUBSET Remuxers]
        BY <1>1, <2>1, <2>2
    <2>4. /\ dispatch' \in Dispatch /\ dispatch'.todo = dispatch.todo /\ dispatch'.pc = dispatch.pc
          /\ dispatch'.event = dispatch.event /\ dispatch'.track = dispatch.track
          /\ dispatch'.adding = Nobody
        BY <1>1, <2>1, WithAdding
    <2>5. call'[Publisher].pc = "idle"
        BY <1>2, <2>1, <2>2
    <2> QED
        BY <1>1, <2>1, <2>2, <2>3, <2>4, <2>5, RunningKeeps
<1>19. ASSUME NEW r \in Remuxers, OnRemoveTrack(r) \/ OnData(r) PROVE DispatchOK'
    <2>1. /\ dispatch.pc = "run" /\ call[Publisher].pc = "idle" /\ dispatch.adding = Nobody
          /\ dispatch' = Ran(r) /\ UNCHANGED <<listeners, streamDisp, sourceDisp, call>>
        BY <1>19 DEF OnRemoveTrack, OnData, Running, tableVars, lockVars
    <2>2. sinks' \in [Tracks -> SUBSET Remuxers]
        <3>1. CASE UNCHANGED sinks
            BY <1>1, <3>1
        <3>2. CASE sinks' = [sinks EXCEPT ![Removed] = @ \ {r}]
            BY <1>1, <3>2
        <3> QED
            BY <1>19, <3>1, <3>2 DEF OnRemoveTrack, OnData, tableVars
    <2>3. /\ dispatch' \in Dispatch /\ dispatch'.todo = dispatch.todo \ {r} /\ dispatch'.pc = dispatch.pc
          /\ dispatch'.event = dispatch.event /\ dispatch'.track = dispatch.track
          /\ dispatch'.adding = Nobody
        BY <1>1, <2>1, RanIs
    <2> QED
        BY <1>1, <2>1, <2>2, <2>3, RunningKeeps
<1>20. ASSUME NEW r \in Remuxers, OnRemoveTrackPanic(r) PROVE DispatchOK'
    <2>1. /\ dispatch.pc = "run" /\ call[Publisher].pc = "idle" /\ dispatch.adding = Nobody
          /\ dispatch' = [dispatch EXCEPT !.todo = {}]
          /\ UNCHANGED <<listeners, sinks, streamDisp, sourceDisp, call>>
        BY <1>20 DEF OnRemoveTrackPanic, Running, tableVars, lockVars
    <2>3. /\ dispatch' \in Dispatch /\ dispatch'.todo = {} /\ dispatch'.pc = dispatch.pc
          /\ dispatch'.event = dispatch.event /\ dispatch'.track = dispatch.track
          /\ dispatch'.adding = Nobody
        BY <1>1, <2>1, NoneLeft
    <2> QED
        BY <1>1, <2>1, <2>3, RunningKeeps
<1>21. ASSUME NEW r \in Remuxers, OnEnd(r) PROVE DispatchOK'
    <2>1. /\ dispatch.pc = "run" /\ dispatch.event \in {"error", "close"} /\ dispatch.adding = Nobody
          /\ dispatch' = Ran(r) /\ UNCHANGED <<listeners, sinks, streamDisp, sourceDisp>>
          /\ BeginClose(Publisher, r)
        BY <1>21 DEF OnEnd, Running, tableVars, lockVars
    <2>2. /\ dispatch' \in Dispatch /\ dispatch'.todo = dispatch.todo \ {r} /\ dispatch'.pc = dispatch.pc
          /\ dispatch'.event = dispatch.event /\ dispatch'.track = dispatch.track
          /\ dispatch'.adding = Nobody
        BY <1>1, <2>1, RanIs
    <2>3. call'[Publisher].pc # "idle" => call'[Publisher].remuxer = r
        BY <2>1, CallFacts, Actors DEF BeginClose, Idle
    <2> QED
        BY <1>1, <2>1, <2>2, <2>3, RunningKeeps
\* Packets.
<1>22. ASSUME NEW x \in Tracks, NEW type \in Types(x), NEW pts \in 1 .. MaxActs, SinkPacket(x, type, pts)
       PROVE  DispatchOK'
    <2>1. /\ dispatch = Quiet /\ sourceDisp[x] = Nobody /\ UNCHANGED <<listeners, sinks, streamDisp, call>>
        BY <1>22 DEF SinkPacket, PublisherIdle, tableVars
    <2>2. CASE sinks[x] = {}
        <3>1. UNCHANGED <<dispatch, sourceDisp>>
            BY <1>22, <2>2 DEF SinkPacket
        <3> QED
            BY <1>1, <2>1, <3>1, RegistersKeep
    <2>3. CASE sinks[x] # {}
        <3>1. sourceDisp' = [sourceDisp EXCEPT ![x] = Publisher]
            BY <1>22, <2>3 DEF SinkPacket
        <3>2. /\ dispatch' \in Dispatch /\ dispatch'.pc = "packet" /\ dispatch'.track = x
              /\ dispatch'.todo = sinks[x] /\ dispatch'.packet = type /\ dispatch'.adding = Nobody
            <4>1. pts \in Nat /\ sinks[x] \in SUBSET Remuxers
                BY <1>1
            <4> QED
                BY <1>22, <2>3, <4>1, SinkIs
        <3>3. PhaseOK'
            BY <3>2 DEF PhaseOK, Dispatching
        <3>4. \A y \in Tracks : sourceDisp[y] # Publisher
            BY <1>4, <2>1, QuietIs
        <3>5. LocksOK'
            BY <1>1, <2>1, <3>1, <3>2, <3>4, QuietIs DEF LocksOK
        <3>6. call[Publisher].pc = "idle"
            BY <1>3, <2>1, QuietIs
        <3> QED
            BY <1>1, <2>1, <3>2, <3>3, <3>5, <3>6, PhaseKeeps
    <2> QED
        BY <2>2, <2>3
<1>23. ASSUME NEW r \in Remuxers, OnPacketPanic(r) \/ OnPacket(r) PROVE DispatchOK'
    <2>1. /\ dispatch.pc = "packet" /\ UNCHANGED <<listeners, sinks, streamDisp, sourceDisp, call>>
          /\ dispatch' = Ran(r) \/ dispatch' = [dispatch EXCEPT !.todo = {}]
        BY <1>23 DEF OnPacketPanic, OnPacket, Taking, tableVars, lockVars
    <2>3. /\ dispatch' \in Dispatch /\ dispatch'.todo \subseteq dispatch.todo /\ dispatch'.pc = dispatch.pc
          /\ dispatch'.event = dispatch.event /\ dispatch'.track = dispatch.track
          /\ dispatch'.adding = dispatch.adding /\ dispatch'.packet = dispatch.packet
        BY <1>1, <2>1, RanIs, NoneLeft
    <2>4. PhaseOK'
        BY <1>1, <2>1, <2>3 DEF PhaseOK, Dispatching
    <2>5. LocksOK'
        BY <1>1, <2>1, <2>3 DEF LocksOK
    <2>6. dispatch.todo \subseteq sinks[dispatch.track] /\ dispatch.adding = Nobody /\ call[Publisher].pc = "idle"
        BY <1>1, <1>3, <2>1 DEF TodoOK
    <2> QED
        BY <1>1, <2>1, <2>3, <2>4, <2>5, <2>6, PhaseKeeps
<1>24. ASSUME SourceUnlock PROVE DispatchOK'
    <2>1. /\ dispatch.pc = "packet" /\ dispatch' = Quiet
          /\ sourceDisp' = [sourceDisp EXCEPT ![dispatch.track] = Nobody]
          /\ UNCHANGED <<listeners, sinks, streamDisp, call>>
        BY <1>24 DEF SourceUnlock, tableVars
    <2>2. LocksOK'
        BY <1>1, <2>1, QuietIs, Actors DEF LocksOK
    <2> QED
        BY <1>3, <1>12, <2>1, <2>2
<1> QED
    BY <1>5, <1>6, <1>8, <1>9, <1>10, <1>11, <1>13, <1>15, <1>16, <1>17, <1>18, <1>19, <1>20, <1>21,
       <1>22, <1>23, <1>24
    DEF Next, Calls, DispatchSteps

-----------------------------------------------------------------------------
(* The stream and the ids.                                                 *)

\* The steps that leave the publisher where it is, one remuxer told at most.
Onwards ==
    \/ \E r \in Remuxers : \/ Source(r) \/ SourceSteps(r) \/ CallClose(r)
                           \/ OnAddTrack(r) \/ OnRemoveTrack(r) \/ OnRemoveTrackPanic(r)
                           \/ OnData(r) \/ OnEnd(r) \/ OnPacketPanic(r) \/ OnPacket(r)
    \/ OnAddTrackSink
    \/ \E t \in Threads : CloseSteps(t)

LEMMA OnwardsIs ==
    ASSUME dispatch \in Dispatch, Onwards
    PROVE  /\ dispatch' \in Dispatch /\ dispatch'.pc = dispatch.pc /\ dispatch'.event = dispatch.event
           /\ dispatch'.track = dispatch.track /\ dispatch'.closing = dispatch.closing
           /\ dispatch'.packet = dispatch.packet /\ dispatch'.pts = dispatch.pts
           /\ dispatch'.todo \subseteq dispatch.todo
           /\ UNCHANGED <<stream, stopped, closed, infoframe, streamMtx, ids, acts>>
<1> DEFINE Conclusion ==
           /\ dispatch' \in Dispatch /\ dispatch'.pc = dispatch.pc /\ dispatch'.event = dispatch.event
           /\ dispatch'.track = dispatch.track /\ dispatch'.closing = dispatch.closing
           /\ dispatch'.packet = dispatch.packet /\ dispatch'.pts = dispatch.pts
           /\ dispatch'.todo \subseteq dispatch.todo
<1>1. ASSUME UNCHANGED dispatch PROVE Conclusion
    BY <1>1
<1>2. ASSUME NEW r \in Remuxers, dispatch' = Ran(r) PROVE Conclusion
    BY <1>2, RanIs
<1>3. ASSUME dispatch' = [dispatch EXCEPT !.todo = {}] PROVE Conclusion
    BY <1>3, NoneLeft
<1>4. ASSUME NEW r \in Remuxers, dispatch' = [Ran(r) EXCEPT !.adding = r] PROVE Conclusion
    BY <1>4, AddingIs
<1>5. ASSUME dispatch' = [dispatch EXCEPT !.adding = Nobody] PROVE Conclusion
    BY <1>5, WithAdding
<1> HIDE DEF Conclusion
<1>6. ASSUME NEW r \in Remuxers, Source(r) \/ SourceSteps(r) \/ CallClose(r)
      PROVE  UNCHANGED <<dispatch, stream, stopped, closed, infoframe, streamMtx, ids, acts>>
    BY <1>6 DEF Source, SourceSteps, SourceMetadata, SourceTracks, SourceAttach, SourceAttachStopped,
                SourceSink, SourceListen, CallClose, lockVars, streamVars, boundVars, historyVars
<1>7. ASSUME NEW r \in Remuxers, OnAddTrack(r) \/ OnRemoveTrack(r) \/ OnRemoveTrackPanic(r)
                                 \/ OnData(r) \/ OnEnd(r) \/ OnPacketPanic(r) \/ OnPacket(r)
      PROVE  /\ UNCHANGED <<stream, stopped, closed, infoframe, streamMtx, ids, acts>>
             /\ \/ dispatch' = Ran(r) \/ dispatch' = [dispatch EXCEPT !.todo = {}]
                \/ dispatch' = [Ran(r) EXCEPT !.adding = r]
    BY <1>7 DEF OnAddTrack, OnRemoveTrack, OnRemoveTrackPanic, OnData, OnEnd, OnPacketPanic, OnPacket,
                lockVars, streamVars, boundVars, historyVars
<1>8. ASSUME OnAddTrackSink
      PROVE  /\ UNCHANGED <<stream, stopped, closed, infoframe, streamMtx, ids, acts>>
             /\ dispatch' = [dispatch EXCEPT !.adding = Nobody]
    BY <1>8 DEF OnAddTrackSink, lockVars, streamVars, boundVars
<1>9. ASSUME NEW t \in Threads, CloseSteps(t)
      PROVE  /\ UNCHANGED <<stream, stopped, closed, infoframe, streamMtx, ids, acts>>
             /\ UNCHANGED dispatch \/ dispatch' = [dispatch EXCEPT !.todo = {}]
    <2>1. UNCHANGED <<stream, stopped, closed, infoframe, streamMtx, ids, acts>>
        BY <1>9 DEF CloseSteps, CloseLock, CloseUnsink, CloseUnsinkStopped, CloseUnlisten,
                    lockVars, streamVars, boundVars, historyVars
    <2>2. UNCHANGED dispatch \/ dispatch' = [dispatch EXCEPT !.todo = {}]
        BY <1>9 DEF CloseSteps, CloseLock, CloseUnsink, CloseUnsinkStopped, CloseUnlisten
    <2> QED
        BY <2>1, <2>2
<1>10. UNCHANGED <<stream, stopped, closed, infoframe, streamMtx, ids, acts>>
    BY <1>6, <1>7, <1>8, <1>9 DEF Onwards
<1>11. Conclusion
    BY <1>1, <1>2, <1>3, <1>4, <1>5, <1>6, <1>7, <1>8, <1>9 DEF Onwards
<1> QED
    BY <1>10, <1>11 DEF Conclusion

\* A track that the stream holds is at its first position.
LEMMA RemovedIs ==
    ASSUME stream \in MediaStreams, NEW x \in Tracks, StreamRemoveTrack(x)
    PROVE  \E i \in DOMAIN stream.tracks :
              stream.tracks[i].track = x /\ stream' = RemoveTrack(stream, i)
<1> DEFINE P == PositionsOf(stream, x)
<1>1. P \subseteq DOMAIN stream.tracks /\ \A i \in P : stream.tracks[i].track = x
    BY DEF PositionsOf
<1>2. P # {}
    BY DEF StreamRemoveTrack, Holds, Entries, PositionsOf
<1>3. stream' = RemoveTrack(stream, First(P))
    BY DEF StreamRemoveTrack
<1> HIDE DEF P
<1>4. First(P) \in P
    BY <1>1, <1>2, FirstMatches
<1> QED
    BY <1>1, <1>3, <1>4

\* A track that nobody knows is new to the stream.
LEMMA AddedIs ==
    ASSUME stream \in MediaStreams, FreshOK, NEW x \in Tracks, StreamAddTrack(x)
    PROVE  /\ x \notin TracksOf(stream) \cup infoframe \cup stopped
           /\ stream' = NewTrack(stream, x, x) /\ ids' = [ids EXCEPT ![x] = stream.index]
<1>1. x \notin TracksOf(stream) \cup infoframe \cup stopped
    BY DEF StreamAddTrack, FreshOK, Known
<1>2. ~Holds(stream, x)
    BY <1>1 DEF Holds, Entries, TracksOf
<1>3. stream' = NewTrack(stream, x, x)
    BY <1>2 DEF StreamAddTrack, AddTrack
<1>4. \A new : new = NewTrack(stream, x, x) => new.tracks[Len(new.tracks)].id = stream.index
    BY NewTrackIs
<1>5. stream'.tracks[Len(stream'.tracks)].id = stream.index
    BY <1>3, <1>4
<1>6. ids' = [ids EXCEPT ![x] = stream.index]
    BY <1>5 DEF StreamAddTrack
<1> QED
    BY <1>1, <1>3, <1>6

\* Where the publisher holds the mutex of the stream.
Occupied == dispatch.pc = "stop" \/ Dispatching("addtrack") \/ Dispatching("removetrack")

\* The tracks of the stream, those stopped, and the mutex.
LEMMA StreamStep ==
    ASSUME DispatchOK, StreamOK, FreshOK, Next
    PROVE  StreamOK'
<1>1. /\ stream \in MediaStreams /\ OneEach(stream) /\ stopped \subseteq Tracks
      /\ streamMtx = IF Occupied THEN Publisher ELSE Nobody
      /\ TracksOf(stream) \cap stopped # {} => Closing
      /\ Dispatching("removetrack") /\ ~Closing => dispatch.track \notin TracksOf(stream)
      /\ Dispatching("addtrack") => dispatch.track \notin stopped
    BY DEF StreamOK, Occupied
<1>2. dispatch \in Dispatch /\ PhaseOK
    BY DEF DispatchOK
<1>3. dispatch = Quiet => ~Occupied /\ ~Closing
    BY QuietIs DEF Occupied, Closing, Dispatching
<1>4. CASE Onwards
    <2>1. /\ dispatch'.pc = dispatch.pc /\ dispatch'.event = dispatch.event
          /\ dispatch'.track = dispatch.track /\ UNCHANGED <<stream, stopped, streamMtx>>
        BY <1>2, <1>4, OnwardsIs
    <2> QED
        BY <2>1 DEF StreamOK, Closing, Dispatching
<1>5. ASSUME NEW x \in Tracks, StreamAddTrack(x) PROVE StreamOK'
    <2>1. Begin("lock", "addtrack", x, <<>>) /\ streamMtx' = Publisher /\ UNCHANGED stopped
        BY <1>5 DEF StreamAddTrack
    <2>2. "addtrack" \in Events /\ x \in Tracks \cup {NoSource} /\ stream \in MediaStreams
        BY <1>1, EventsAre
    <2>3. dispatch'.pc = "lock" /\ dispatch'.event = "addtrack" /\ dispatch'.track = x /\ dispatch = Quiet
        BY <2>1, <2>2, BeginDispatch
    <2>4. x \notin TracksOf(stream) \cup stopped /\ stream' = NewTrack(stream, x, x)
        BY <1>5, <2>2, AddedIs
    <2>5. stream' \in MediaStreams /\ OneEach(stream') /\ TracksOf(stream') = TracksOf(stream) \cup {x}
        <3>1. OneEach(stream) /\ x \notin TracksOf(stream) /\ stream \in MediaStreams
            BY <1>1, <2>4
        <3>2. x \in Tracks /\ x \in Tracks \cup {NoSource} /\ stream' = NewTrack(stream, x, x)
            BY <2>4
        <3> QED
            BY <3>1, <3>2, NewTrackFacts, NewTrackSets
    <2>6. TracksOf(stream') \cap stopped' = {}
        BY <1>1, <1>3, <2>1, <2>3, <2>4, <2>5
    <2> QED
        BY <1>1, <2>1, <2>3, <2>4, <2>5, <2>6 DEF StreamOK, Dispatching
<1>6. ASSUME NEW x \in Tracks, StreamRemoveTrack(x) PROVE StreamOK'
    <2>1. Begin("lock", "removetrack", x, <<>>) /\ streamMtx' = Publisher /\ UNCHANGED stopped
        BY <1>6 DEF StreamRemoveTrack
    <2>2. "removetrack" \in Events /\ x \in Tracks \cup {NoSource}
        BY EventsAre
    <2>3. dispatch'.pc = "lock" /\ dispatch'.event = "removetrack" /\ dispatch'.track = x /\ dispatch = Quiet
        BY <2>1, <2>2, BeginDispatch
    <2>4. PICK i \in DOMAIN stream.tracks :
             stream.tracks[i].track = x /\ stream' = RemoveTrack(stream, i)
        BY <1>1, <1>6, RemovedIs
    <2>5. /\ stream' \in MediaStreams /\ OneEach(stream') /\ TracksOf(stream') \subseteq TracksOf(stream)
          /\ x \notin TracksOf(stream')
        BY <1>1, <2>4, RemoveTrackFacts
    <2>6. TracksOf(stream') \cap stopped' = {}
        BY <1>1, <1>3, <2>1, <2>3, <2>5
    <2> QED
        BY <1>1, <2>1, <2>3, <2>5, <2>6 DEF StreamOK, Dispatching
<1>7. ASSUME StreamClose PROVE StreamOK'
    <2> DEFINE closing == [i \in DOMAIN stream.tracks |-> stream.tracks[i].track]
    <2>1. /\ Begin("stop", "removetrack", NoSource, closing) /\ streamMtx' = Publisher
          /\ UNCHANGED <<stream, stopped>>
        BY <1>7 DEF StreamClose, streamVars
    <2>2. closing \in Seq(Tracks) /\ "removetrack" \in Events
        BY <1>1, TracksSeq, EventsAre
    <2> HIDE DEF closing
    <2>3. dispatch'.pc = "stop"
        BY <2>1, <2>2, BeginIs
    <2> QED
        BY <1>1, <2>1, <2>3 DEF StreamOK, Closing, Dispatching
<1>8. ASSUME StreamStopTrack PROVE StreamOK'
    <2> DEFINE x == Head(dispatch.closing)
    <2>1. /\ dispatch.pc = "stop" /\ stream' = StopTrack(stream, x) /\ stopped' = stopped \cup {x}
          /\ UNCHANGED streamMtx
        BY <1>8 DEF StreamStopTrack, lockVars
    <2>2. /\ dispatch'.pc = "lock" /\ dispatch'.event = "removetrack" /\ dispatch'.track = x /\ x \in Tracks
        BY <1>2, <1>8, <2>1, StopIs DEF PhaseOK
    <2> HIDE DEF x
    <2>3. stream' \in MediaStreams /\ OneEach(stream')
        BY <1>1, <2>1, StopTrackFacts
    <2>4. Closing' /\ Dispatching("removetrack")' /\ ~Dispatching("addtrack")'
        BY <2>1, <2>2 DEF Closing, Dispatching
    <2>5. Occupied
        BY <2>1 DEF Occupied
    <2> QED
        BY <1>1, <2>1, <2>2, <2>3, <2>4, <2>5 DEF StreamOK
<1>9. ASSUME StreamClosed PROVE StreamOK'
    <2>1. /\ stream' = EmptyStream /\ streamMtx' = Nobody /\ dispatch' = Quiet /\ UNCHANGED stopped
        BY <1>9 DEF StreamClosed, Close
    <2>2. TracksOf(stream') = {} /\ OneEach(stream') /\ stream' \in MediaStreams
        BY <2>1, EmptyFacts
    <2> QED
        BY <1>1, <2>1, <2>2, QuietIs DEF StreamOK, Dispatching, Closing
\* The stream is left alone, and the publisher turns to something else.
<1>10. ASSUME UNCHANGED <<stream, stopped, streamMtx>>, ~Occupied,
              dispatch' = Quiet \/ dispatch'.pc = "packet" \/ dispatch'.event \in {"packet", "error", "close"},
              dispatch'.pc # "stop"
       PROVE  StreamOK'
    <2>1. ~Closing
        BY <1>10 DEF Occupied, Closing
    <2> QED
        BY <1>1, <1>10, <2>1, QuietIs DEF StreamOK, Dispatching
<1>11. ASSUME StreamData \/ \E e \in {"error", "close"} : StreamEnds(e) PROVE StreamOK'
    <2>1. PICK e \in {"packet", "error", "close"} : Begin("lock", e, NoSource, <<>>)
        BY <1>11 DEF StreamData, StreamEnds
    <2>2. UNCHANGED <<stream, stopped, streamMtx>>
        BY <1>11 DEF StreamData, StreamEnds, lockVars, streamVars
    <2>3. <<>> \in Seq(Tracks) /\ e \in Events
        BY EventsAre
    <2>4. dispatch'.event = e /\ dispatch'.pc = "lock" /\ dispatch = Quiet
        BY <2>1, <2>3, BeginIs
    <2> QED
        BY <1>3, <1>10, <2>2, <2>4
<1>12. ASSUME NEW x \in Tracks, NEW type \in Types(x), NEW pts \in 1 .. MaxActs, SinkPacket(x, type, pts)
       PROVE  StreamOK'
    <2>1. dispatch = Quiet /\ UNCHANGED <<stream, stopped, streamMtx>>
        BY <1>12 DEF SinkPacket, PublisherIdle
    <2>2. dispatch' = Quiet \/ dispatch'.pc = "packet"
        <3>1. CASE sinks[x] = {}
            BY <1>12, <2>1, <3>1 DEF SinkPacket
        <3>2. CASE sinks[x] # {}
            <4>1. pts \in Nat /\ sinks[x] \in SUBSET Remuxers
                BY DEF DispatchOK
            <4> QED
                BY <1>12, <3>2, <4>1, SinkIs
        <3> QED
            BY <3>1, <3>2
    <2> QED
        BY <1>3, <1>10, <2>1, <2>2, QuietIs
<1>13. ASSUME SourceUnlock PROVE StreamOK'
    <2>1. dispatch.pc = "packet" /\ dispatch' = Quiet /\ UNCHANGED <<stream, stopped, streamMtx>>
        BY <1>13 DEF SourceUnlock, streamVars
    <2>2. ~Occupied
        BY <2>1 DEF Occupied, Dispatching
    <2> QED
        BY <1>10, <2>1, <2>2, QuietIs
\* The dispatch is over.
<1>14. ASSUME Dispatched, dispatch.pc \in {"lock", "run"}, UNCHANGED <<stream, stopped>> PROVE StreamOK'
    <2>1. CASE dispatch.track \in stopped
        <3>1. dispatch' = [dispatch EXCEPT !.pc = "stop"] /\ UNCHANGED streamMtx
            BY <1>14, <2>1 DEF Dispatched
        <3>2. dispatch'.pc = "stop"
            BY <1>2, <3>1, WithPc
        <3>3. Occupied
            BY <1>1, <1>2, <1>14, <2>1, EventsAre, Actors DEF PhaseOK, Occupied, Dispatching
        <3> QED
            BY <1>1, <1>14, <3>1, <3>2, <3>3 DEF StreamOK, Closing, Dispatching
    <2>2. CASE dispatch.track \notin stopped
        <3>1. dispatch' = Quiet /\ streamMtx' = Nobody
            BY <1>14, <2>2 DEF Dispatched
        <3>2. ~Closing
            BY <1>14, <2>2 DEF Closing
        <3> QED
            BY <1>1, <1>14, <3>1, <3>2, QuietIs DEF StreamOK, Dispatching
    <2> QED
        BY <2>1, <2>2
<1>15. ASSUME StreamLock PROVE StreamOK'
    <2>1. dispatch.pc = "lock" /\ UNCHANGED <<stream, stopped>>
        BY <1>15 DEF StreamLock, streamVars
    <2>2. CASE listeners[dispatch.event] = {}
        BY <1>14, <1>15, <2>1, <2>2 DEF StreamLock
    <2>3. CASE listeners[dispatch.event] # {}
        <3>1. listeners[dispatch.event] \in SUBSET Remuxers
            BY <1>2, <2>1 DEF DispatchOK, PhaseOK
        <3>2. /\ dispatch'.pc = "run" /\ dispatch'.event = dispatch.event /\ dispatch'.track = dispatch.track
            BY <1>2, <1>15, <2>3, <3>1, RunIs
        <3>3. UNCHANGED streamMtx
            BY <1>15, <2>3 DEF StreamLock
        <3> QED
            BY <1>1, <2>1, <3>2, <3>3 DEF StreamOK, Closing, Occupied, Dispatching
    <2> QED
        BY <2>2, <2>3
<1>16. ASSUME StreamUnlock PROVE StreamOK'
    BY <1>14, <1>16 DEF StreamUnlock, streamVars
<1> QED
    BY <1>4, <1>5, <1>6, <1>7, <1>8, <1>9, <1>11, <1>12, <1>13, <1>15, <1>16
    DEF Next, Calls, DispatchSteps, Onwards

\* What a remuxer knows of the tracks.
KnownTo(r) == {x \in Tracks : r \in sinks[x]} \cup Sources(own[r]) \cup Attaching(r)

\* What the stream and the publisher know.
KnownHere == TracksOf(stream) \cup infoframe \cup stopped \cup {dispatch.track} \cup ToSet(dispatch.closing)

LEMMA KnownIs ==
    ASSUME NEW x \in Tracks
    PROVE  Known(x) <=> x \in KnownHere \/ \E r \in Remuxers : x \in KnownTo(r)
BY DEF Known, KnownTo, KnownHere

\* A step that tells nobody of a track that nobody knew.
LEMMA NothingNew ==
    ASSUME FreshOK, own' \in [Remuxers -> MediaStreams], infoframe' \subseteq Tracks,
           ids' \in [Tracks -> Nat],
           \A x \in Tracks : ids'[x] = 0 => ids[x] = 0,
           \A x \in KnownHere' \cap Tracks : ids'[x] = 0 => Known(x),
           \A r \in Remuxers : \A x \in KnownTo(r)' \cap Tracks : Known(x)
    PROVE  FreshOK'
<1>1. ASSUME NEW x \in Tracks, ids'[x] = 0 PROVE ~Known(x)'
    <2>1. Known(x)' <=> x \in KnownHere' \/ \E r \in Remuxers : x \in KnownTo(r)'
        BY DEF Known, KnownTo, KnownHere
    <2>2. ~Known(x)
        BY <1>1 DEF FreshOK
    <2> QED
        BY <1>1, <2>1, <2>2
<1> QED
    BY <1>1 DEF FreshOK

LEMMA AttachingIs ==
    ASSUME CallsOK, NEW r \in Remuxers, NEW left \in Seq(Tracks), AttachTo(r, left)
    PROVE  Attaching(r)' \subseteq ToSet(left)
<1>1. r \in Threads
    BY Actors
<1>2. \/ Goto(r, "listen", StreamEvents)
      \/ \E rest \in Seq(Tracks) : Goto(r, "attach", rest) /\ ToSet(rest) \subseteq ToSet(left)
    BY <1>1, AttachToIs
<1>3. CASE Goto(r, "listen", StreamEvents)
    BY <1>1, <1>3, GotoFields DEF Attaching
<1>4. CASE \E rest \in Seq(Tracks) : Goto(r, "attach", rest) /\ ToSet(rest) \subseteq ToSet(left)
    BY <1>1, <1>4, GotoFields DEF Attaching
<1> QED
    BY <1>2, <1>3, <1>4

\* The remuxers learn of no track that was not in the stream.
LEMMA RemuxersLearn ==
    ASSUME CallsOK, DispatchOK, own \in [Remuxers -> MediaStreams], stream \in MediaStreams,
           NEW r \in Remuxers, Next
    PROVE  /\ own'[r] \in MediaStreams
           /\ KnownTo(r)' \cap Tracks \subseteq KnownTo(r) \cup KnownHere
<1> DEFINE Learns == /\ own'[r] \in MediaStreams
                     /\ KnownTo(r)' \cap Tracks \subseteq KnownTo(r) \cup KnownHere
<1> USE DEF At
<1>1. own[r] \in MediaStreams /\ r \in Threads /\ NoSource \notin Tracks
    BY Actors
<1>2. sinks \in [Tracks -> SUBSET Remuxers] /\ call \in [Threads -> Call]
    BY CallFacts DEF DispatchOK
<1>3. ASSUME own'[r] \in MediaStreams,
             Sources(own'[r]) \cap Tracks \subseteq KnownTo(r) \cup KnownHere,
             \A x \in Tracks : r \in sinks'[x] => x \in KnownTo(r) \cup KnownHere,
             Attaching(r)' \subseteq KnownTo(r) \cup KnownHere
      PROVE  Learns
    BY <1>3 DEF KnownTo
<1>4. /\ Sources(own[r]) \subseteq KnownTo(r) /\ Attaching(r) \subseteq KnownTo(r)
      /\ \A x \in Tracks : r \in sinks[x] => x \in KnownTo(r)
      /\ dispatch.track \in KnownHere /\ TracksOf(stream) \subseteq KnownHere
    BY DEF KnownTo, KnownHere
<1>5. call'[r] = call[r] => Attaching(r)' = Attaching(r)
    BY DEF Attaching
<1>6. call'[r].pc \notin {"attach", "sink"} => Attaching(r)' = {}
    BY DEF Attaching
<1> HIDE DEF Learns
\* The other players.
<1>7. ASSUME NEW q \in Remuxers, q # r, Source(q) \/ SourceSteps(q) \/ CallClose(q) PROVE Learns
    <2>1. call'[r] = call[r]
        BY <1>1, <1>7, SourceMoves
    <2>2. own'[r] = own[r]
        BY <1>1, <1>7 DEF Source, SourceSteps, SourceMetadata, SourceTracks, SourceAttach, SourceAttachStopped,
                    SourceSink, SourceListen, CallClose, remuxVars
    <2>3. \A x \in Tracks : r \in sinks'[x] => r \in sinks[x]
        BY <1>2, <1>7 DEF Source, SourceSteps, SourceMetadata, SourceTracks, SourceAttach, SourceAttachStopped,
                    SourceSink, SourceListen, CallClose, tableVars
    <2> QED
        BY <1>1, <1>3, <1>4, <1>5, <2>1, <2>2, <2>3
\* The player.
<1>8. ASSUME Source(r) \/ CallClose(r) \/ SourceMetadata(r) \/ SourceListen(r) PROVE Learns
    <2>1. UNCHANGED <<own, sinks>>
        BY <1>8 DEF Source, CallClose, SourceMetadata, SourceListen, tableVars, remuxVars
    <2>2. call'[r].pc \notin {"attach", "sink"}
        BY <1>1, <1>2, <1>8, GotoFields, ReturnIs
        DEF Source, CallClose, BeginClose, SourceMetadata, SourceListen, Idle
    <2> QED
        BY <1>1, <1>3, <1>4, <1>6, <2>1, <2>2
<1>9. ASSUME SourceTracks(r) PROVE Learns
    <2> DEFINE left == [i \in DOMAIN stream.tracks |-> stream.tracks[i].track]
    <2>1. UNCHANGED <<own, sinks>> /\ AttachTo(r, left)
        BY <1>9 DEF SourceTracks, tableVars, remuxVars
    <2>2. left \in Seq(Tracks) /\ ToSet(left) = TracksOf(stream)
        BY TracksSeq
    <2> HIDE DEF left
    <2>3. Attaching(r)' \subseteq TracksOf(stream)
        BY <2>1, <2>2, AttachingIs
    <2> QED
        BY <1>1, <1>3, <1>4, <2>1, <2>3
\* The track it attaches is one of those it has to attach.
<1>10. ASSUME call[r].pc \in {"attach", "sink"}
       PROVE  /\ call[r].left \in Seq(Tracks) /\ call[r].left # <<>>
              /\ Attaching(r) = ToSet(call[r].left)
              /\ Head(call[r].left) \in Attaching(r) /\ Head(call[r].left) \in Tracks
              /\ Tail(call[r].left) \in Seq(Tracks) /\ ToSet(Tail(call[r].left)) \subseteq Attaching(r)
    <2>1. call[r].left \in Seq(Tracks) /\ call[r].left # <<>>
        BY <1>1, <1>10, CallFacts DEF CallOK, LeftOK
    <2>2. Attaching(r) = ToSet(call[r].left)
        BY <1>10 DEF Attaching
    <2> QED
        BY <2>1, <2>2, HeadAndTail
<1>11. ASSUME NEW x \in Tracks, NEW s \in {x, NoSource}, own'[r] = NewTrack(own[r], x, s)
       PROVE  own'[r] \in MediaStreams /\ Sources(own'[r]) \cap Tracks \subseteq Sources(own[r]) \cup {x}
    <2>1. s \in Tracks \cup {NoSource}
        OBVIOUS
    <2>2. own'[r] \in MediaStreams
        BY <1>1, <1>11, <2>1, NewTrackFacts
    <2>3. Sources(own'[r]) = Sources(own[r]) \cup {s}
        BY <1>1, <1>11, <2>1, NewTrackSets
    <2> QED
        BY <1>1, <2>2, <2>3
<1>12. ASSUME SourceAttach(r) PROVE Learns
    <2> DEFINE x == Head(call[r].left)
    <2>1. /\ call[r].pc = "attach" /\ own'[r] = NewTrack(own[r], x, x) /\ UNCHANGED sinks
          /\ Goto(r, "sink", call[r].left)
        BY <1>12 DEF SourceAttach, tableVars
    <2>2. x \in Attaching(r) /\ x \in Tracks /\ Attaching(r) = ToSet(call[r].left)
        BY <1>10, <2>1
    <2>3. Attaching(r)' = Attaching(r)
        BY <1>1, <2>1, <2>2, GotoFields DEF Attaching
    <2> HIDE DEF x
    <2>4. own'[r] \in MediaStreams /\ Sources(own'[r]) \cap Tracks \subseteq Sources(own[r]) \cup {x}
        BY <1>11, <2>1, <2>2
    <2> QED
        BY <1>3, <1>4, <2>1, <2>2, <2>3, <2>4
<1>13. ASSUME SourceAttachStopped(r) PROVE Learns
    <2> DEFINE x == Head(call[r].left)
    <2>1. /\ call[r].pc = "attach" /\ own'[r] = NewTrack(own[r], x, NoSource) /\ UNCHANGED sinks
          /\ Return(r)
        BY <1>13 DEF SourceAttachStopped, tableVars
    <2>2. x \in Attaching(r) /\ x \in Tracks
        BY <1>10, <2>1
    <2>3. Attaching(r)' = {}
        BY <1>1, <1>6, <2>1, ReturnIs
    <2> HIDE DEF x
    <2>4. own'[r] \in MediaStreams /\ Sources(own'[r]) \cap Tracks \subseteq Sources(own[r]) \cup {x}
        BY <1>11, <2>1, <2>2
    <2> QED
        BY <1>3, <1>4, <2>1, <2>2, <2>3, <2>4
<1>14. ASSUME SourceSink(r) PROVE Learns
    <2> DEFINE x == Head(call[r].left)
    <2>1. /\ call[r].pc = "sink" /\ sinks' = [sinks EXCEPT ![x] = @ \cup {r}] /\ UNCHANGED own
          /\ AttachTo(r, Tail(call[r].left))
        BY <1>14 DEF SourceSink, remuxVars
    <2>2. /\ x \in Attaching(r) /\ x \in Tracks
          /\ Tail(call[r].left) \in Seq(Tracks) /\ ToSet(Tail(call[r].left)) \subseteq Attaching(r)
        BY <1>10, <2>1
    <2>3. Attaching(r)' \subseteq Attaching(r)
        BY <2>1, <2>2, AttachingIs
    <2> HIDE DEF x
    <2>4. \A y \in Tracks : r \in sinks'[y] => y = x \/ r \in sinks[y]
        BY <1>2, <2>1
    <2> QED
        BY <1>1, <1>3, <1>4, <2>1, <2>2, <2>3, <2>4
\* Close only detaches.
<1>15. ASSUME NEW t \in Threads, CloseSteps(t) PROVE Learns
    <2>1. /\ \A u \in Threads : u # t => call'[u] = call[u]
          /\ call'[t] = Idle \/ call'[t].pc \in InClose
          /\ call[t].pc \in InClose \cup {"lock"} /\ call[t].remuxer \in Remuxers
        BY <1>15, CloseMoves
    <2>2. Attaching(r)' \subseteq Attaching(r)
        <3>1. CASE t = r
            <4>1. call'[r].pc \notin {"attach", "sink"}
                BY <2>1, <3>1 DEF Idle, InClose
            <4> QED
                BY <1>6, <4>1
        <3>2. CASE t # r
            BY <1>1, <1>5, <2>1, <3>2
        <3> QED
            BY <3>1, <3>2
    <2>3. \A x \in Tracks : r \in sinks'[x] => r \in sinks[x]
        BY <1>2, <1>15 DEF CloseSteps, CloseLock, CloseUnsink, CloseUnsinkStopped, CloseUnlisten, tableVars
    <2>4. own'[r] \in {own[r], EmptyStream}
        <3>1. UNCHANGED own \/ own' = [own EXCEPT ![call[t].remuxer] = EmptyStream]
            BY <1>15 DEF CloseSteps, CloseLock, CloseUnsink, CloseUnsinkStopped, CloseUnlisten,
                         Detach, Finish, Close, remuxVars
        <3> QED
            BY <2>1, <3>1
    <2>5. own'[r] \in MediaStreams /\ Sources(own'[r]) \subseteq Sources(own[r])
        BY <1>1, <2>4, EmptyFacts
    <2> QED
        BY <1>3, <1>4, <2>2, <2>3, <2>5
\* The publisher.
<1>16. ASSUME NEW q \in Remuxers, OnAddTrack(q) PROVE Learns
    <2> DEFINE x == dispatch.track
    <2>1. /\ dispatch.pc = "run" /\ dispatch.event = "addtrack" /\ UNCHANGED <<sinks, call>>
          /\ UNCHANGED own \/ own' = [own EXCEPT ![q] = NewTrack(@, x, x)]
        BY <1>16 DEF OnAddTrack, Running, tableVars
    <2>2. x \in Tracks
        BY <2>1 DEF DispatchOK, PhaseOK, Dispatching
    <2> HIDE DEF x
    <2>3. own'[r] = own[r] \/ own'[r] = NewTrack(own[r], x, x)
        BY <2>1
    <2>4. own'[r] \in MediaStreams /\ Sources(own'[r]) \cap Tracks \subseteq Sources(own[r]) \cup {x}
        BY <1>1, <1>11, <2>2, <2>3
    <2> QED
        BY <1>3, <1>4, <1>5, <2>1, <2>4 DEF x
<1>17. ASSUME OnAddTrackSink PROVE Learns
    <2>1. UNCHANGED <<own, call>> /\ sinks' = [sinks EXCEPT ![dispatch.track] = @ \cup {dispatch.adding}]
        BY <1>17 DEF OnAddTrackSink, remuxVars
    <2>2. \A y \in Tracks : r \in sinks'[y] => y = dispatch.track \/ r \in sinks[y]
        BY <1>2, <2>1
    <2> QED
        BY <1>1, <1>3, <1>4, <1>5, <2>1, <2>2
<1>18. ASSUME NEW q \in Remuxers, OnRemoveTrack(q) PROVE Learns
    <2> DEFINE clones == Attached(own[q], Removed)
    <2>1. UNCHANGED call
        BY <1>18 DEF OnRemoveTrack
    <2>2. \/ UNCHANGED <<own, sinks>>
          \/ /\ clones # {} /\ own' = [own EXCEPT ![q] = RemoveTrack(@, First(clones))]
             /\ sinks' = [sinks EXCEPT ![Removed] = @ \ {q}]
        BY <1>18 DEF OnRemoveTrack
    <2>3. clones \subseteq DOMAIN own[q].tracks
        BY DEF Attached
    <2> HIDE DEF clones
    <2>4. own'[r] \in MediaStreams /\ Sources(own'[r]) \subseteq Sources(own[r])
        <3>1. CASE own'[r] = own[r]
            BY <1>1, <3>1
        <3>2. CASE clones # {} /\ q = r /\ own' = [own EXCEPT ![q] = RemoveTrack(@, First(clones))]
            <4>1. First(clones) \in DOMAIN own[r].tracks
                BY <1>1, <2>3, <3>2, FirstMatches
            <4>2. own'[r] = RemoveTrack(own[r], First(clones))
                BY <3>2
            <4> QED
                BY <1>1, <4>1, <4>2, RemoveTrackFacts
        <3> QED
            BY <2>2, <3>1, <3>2
    <2>5. \A y \in Tracks : r \in sinks'[y] => r \in sinks[y]
        BY <1>2, <2>2
    <2> QED
        BY <1>3, <1>4, <1>5, <2>1, <2>4, <2>5
<1>19. ASSUME UNCHANGED <<own, sinks>>, call'[r] = call[r] PROVE Learns
    BY <1>1, <1>3, <1>4, <1>5, <1>19
<1>20. ASSUME \/ \E q \in Remuxers : \/ OnRemoveTrackPanic(q) \/ OnData(q) \/ OnEnd(q)
                                     \/ OnPacketPanic(q) \/ OnPacket(q)
              \/ StreamStopTrack \/ StreamClosed \/ StreamLock \/ StreamUnlock \/ SourceUnlock
       PROVE  UNCHANGED <<own, sinks>> /\ call'[r] = call[r]
    <2>1. UNCHANGED <<own, sinks>>
        BY <1>20 DEF OnRemoveTrackPanic, OnData, OnEnd, OnPacketPanic, OnPacket, StreamStopTrack,
                     StreamClosed, StreamLock, StreamUnlock, SourceUnlock, tableVars, remuxVars
    <2>2. call'[r] = call[r]
        <3>1. r # Publisher
            BY Actors
        <3>2. ASSUME NEW q \in Remuxers, OnEnd(q) PROVE call'[r] = call[r]
            <4>1. BeginClose(Publisher, q)
                BY <3>2 DEF OnEnd
            <4> QED
                BY <1>1, <1>2, <3>1, <4>1 DEF BeginClose
        <3>3. ASSUME ~\E q \in Remuxers : OnEnd(q) PROVE UNCHANGED call
            BY <1>20, <3>3 DEF OnRemoveTrackPanic, OnData, OnPacketPanic, OnPacket, StreamStopTrack,
                     StreamClosed, StreamLock, StreamUnlock, SourceUnlock
        <3> QED
            BY <3>2, <3>3
    <2> QED
        BY <2>1, <2>2
<1>21. ASSUME \/ \E x \in Tracks : StreamAddTrack(x) \/ StreamRemoveTrack(x)
              \/ \E e \in {"error", "close"} : StreamEnds(e)
              \/ StreamClose \/ StreamData
              \/ \E x \in Tracks : \E type \in Types(x) : \E pts \in 1 .. MaxActs :
                   SinkPacket(x, type, pts)
       PROVE  UNCHANGED <<own, sinks, call>>
    BY <1>21 DEF StreamAddTrack, StreamRemoveTrack, StreamEnds, StreamClose, StreamData, SinkPacket,
                 tableVars, remuxVars
<1>22. ASSUME NEW q \in Remuxers, Source(q) \/ SourceSteps(q) \/ CallClose(q) PROVE Learns
    BY <1>7, <1>8, <1>9, <1>12, <1>13, <1>14, <1>22 DEF SourceSteps
<1>23. Learns
    BY <1>15, <1>16, <1>17, <1>18, <1>19, <1>20, <1>21, <1>22 DEF Next, Calls, DispatchSteps
<1> QED
    BY <1>23 DEF Learns

\* What the publisher learns of, it tells of.
LEMMA PublisherLearns ==
    ASSUME DispatchOK, StreamOK, FreshOK, IdsInv, Next
    PROVE  /\ infoframe' \subseteq Tracks /\ ids' \in [Tracks -> Nat]
           /\ \A x \in Tracks : ids'[x] = 0 => ids[x] = 0
           /\ \A x \in KnownHere' \cap Tracks : ids'[x] = 0 => x \in KnownHere
<1> DEFINE Learns == /\ infoframe' \subseteq Tracks /\ ids' \in [Tracks -> Nat]
                     /\ \A x \in Tracks : ids'[x] = 0 => ids[x] = 0
                     /\ \A x \in KnownHere' \cap Tracks : ids'[x] = 0 => x \in KnownHere
<1>1. /\ stream \in MediaStreams /\ stopped \subseteq Tracks /\ infoframe \subseteq Tracks
      /\ ids \in [Tracks -> Nat] /\ dispatch \in Dispatch /\ NoSource \notin Tracks
    BY Actors DEF StreamOK, FreshOK, DispatchOK
<1>2. dispatch.closing \in Seq(Tracks)
    BY <1>1, DispatchFields
<1>3. ASSUME infoframe' \subseteq Tracks, UNCHANGED ids,
             TracksOf(stream') \subseteq KnownHere, infoframe' \subseteq KnownHere,
             stopped' \subseteq KnownHere, dispatch'.track \in KnownHere \cup {NoSource},
             ToSet(dispatch'.closing) \subseteq KnownHere
      PROVE  Learns
    BY <1>1, <1>3 DEF KnownHere
<1>4. /\ TracksOf(stream) \subseteq KnownHere /\ infoframe \subseteq KnownHere /\ stopped \subseteq KnownHere
      /\ dispatch.track \in KnownHere /\ ToSet(dispatch.closing) \subseteq KnownHere
    BY DEF KnownHere
<1>5. Quiet.track = NoSource /\ ToSet(Quiet.closing) = {}
    <2>1. ToSet(<<>>) = {}
        BY DEF ToSet
    <2> QED
        BY <2>1 DEF Quiet
<1>6. ASSUME UNCHANGED <<stream, infoframe, stopped, ids>>, dispatch' = Quiet PROVE Learns
    BY <1>1, <1>3, <1>4, <1>5, <1>6
<1>7. ASSUME Onwards PROVE Learns
    <2>1. /\ dispatch'.track = dispatch.track /\ dispatch'.closing = dispatch.closing
          /\ UNCHANGED <<stream, stopped, infoframe, ids>>
        BY <1>1, <1>7, OnwardsIs
    <2> QED
        BY <1>1, <1>3, <1>4, <2>1
<1>8. ASSUME NEW x \in Tracks, StreamAddTrack(x) PROVE Learns
    <2>1. /\ Begin("lock", "addtrack", x, <<>>) /\ UNCHANGED stopped
          /\ infoframe' \in {infoframe, infoframe \cup {x}}
        BY <1>8 DEF StreamAddTrack
    <2>2. "addtrack" \in Events /\ x \in Tracks \cup {NoSource}
        BY EventsAre
    <2>3. dispatch'.track = x /\ ToSet(dispatch'.closing) = {}
        BY <2>1, <2>2, BeginDispatch
    <2>4. stream' = NewTrack(stream, x, x) /\ ids' = [ids EXCEPT ![x] = stream.index]
        BY <1>1, <1>8, AddedIs
    <2>5. TracksOf(stream') = TracksOf(stream) \cup {x}
        BY <1>1, <2>2, <2>4, NewTrackSets
    <2>6. stream.index # 0 /\ stream.index \in Nat
        BY <1>1, StreamShape DEF IdsInv, IdsOK
    <2>7. KnownHere' \subseteq KnownHere \cup {x}
        BY <1>4, <2>1, <2>3, <2>5 DEF KnownHere
    <2>8. ids' \in [Tracks -> Nat] /\ ids'[x] # 0 /\ \A y \in Tracks : y # x => ids'[y] = ids[y]
        BY <1>1, <2>4, <2>6
    <2> QED
        BY <1>1, <2>1, <2>7, <2>8
<1>9. ASSUME NEW x \in Tracks, StreamRemoveTrack(x) PROVE Learns
    <2>1. Begin("lock", "removetrack", x, <<>>) /\ UNCHANGED <<stopped, infoframe, ids>>
        BY <1>9 DEF StreamRemoveTrack, historyVars
    <2>2. "removetrack" \in Events /\ x \in Tracks \cup {NoSource}
        BY EventsAre
    <2>3. dispatch'.track = x /\ ToSet(dispatch'.closing) = {}
        BY <2>1, <2>2, BeginDispatch
    <2>4. PICK i \in DOMAIN stream.tracks :
             stream.tracks[i].track = x /\ stream' = RemoveTrack(stream, i)
        BY <1>1, <1>9, RemovedIs
    <2>5. TracksOf(stream') \subseteq TracksOf(stream)
        BY <1>1, <2>4, RemoveTrackFacts
    <2>6. x \in TracksOf(stream)
        BY <2>4 DEF TracksOf
    <2> QED
        BY <1>1, <1>3, <1>4, <2>1, <2>3, <2>5, <2>6
<1>10. ASSUME StreamClose PROVE Learns
    <2> DEFINE closing == [i \in DOMAIN stream.tracks |-> stream.tracks[i].track]
    <2>1. /\ Begin("stop", "removetrack", NoSource, closing)
          /\ UNCHANGED <<stream, stopped, infoframe, ids>>
        BY <1>10 DEF StreamClose, streamVars, historyVars
    <2>2. closing \in Seq(Tracks) /\ ToSet(closing) = TracksOf(stream) /\ "removetrack" \in Events
        BY <1>1, TracksSeq, EventsAre
    <2> HIDE DEF closing
    <2>3. dispatch'.track = NoSource /\ dispatch'.closing = closing
        BY <2>1, <2>2, BeginIs
    <2> QED
        BY <1>1, <1>3, <1>4, <2>1, <2>2, <2>3
<1>11. ASSUME StreamStopTrack PROVE Learns
    <2> DEFINE x == Head(dispatch.closing)
    <2>1. /\ dispatch.closing # <<>> /\ stream' = StopTrack(stream, x) /\ stopped' = stopped \cup {x}
          /\ UNCHANGED <<infoframe, ids>>
        BY <1>11 DEF StreamStopTrack, historyVars
    <2>2. dispatch'.track = x /\ dispatch'.closing = Tail(dispatch.closing)
        BY <1>1, <1>11, StopIs
    <2>3. x \in ToSet(dispatch.closing) /\ ToSet(Tail(dispatch.closing)) \subseteq ToSet(dispatch.closing)
        BY <1>2, <2>1, HeadAndTail
    <2> HIDE DEF x
    <2>4. TracksOf(stream') = TracksOf(stream)
        BY <1>1, <2>1, StopTrackFacts
    <2> QED
        BY <1>1, <1>3, <1>4, <2>1, <2>2, <2>3, <2>4
<1>12. ASSUME StreamClosed PROVE Learns
    <2>1. stream' = EmptyStream /\ dispatch' = Quiet /\ UNCHANGED <<stopped, infoframe, ids>>
        BY <1>12 DEF StreamClosed, Close, historyVars
    <2>2. TracksOf(stream') = {}
        BY <2>1, EmptyFacts
    <2> QED
        BY <1>1, <1>3, <1>4, <1>5, <2>1, <2>2
<1>13. ASSUME StreamData \/ \E e \in {"error", "close"} : StreamEnds(e) PROVE Learns
    <2>1. PICK e \in {"packet", "error", "close"} : Begin("lock", e, NoSource, <<>>)
        BY <1>13 DEF StreamData, StreamEnds
    <2>2. UNCHANGED <<stream, stopped, infoframe, ids>>
        BY <1>13 DEF StreamData, StreamEnds, streamVars, historyVars
    <2>3. e \in Events
        BY EventsAre
    <2>4. dispatch'.track = NoSource /\ ToSet(dispatch'.closing) = {}
        BY <2>1, <2>3, BeginDispatch
    <2> QED
        BY <1>1, <1>3, <1>4, <2>2, <2>4
<1>14. ASSUME NEW x \in Tracks, NEW type \in Types(x), NEW pts \in 1 .. MaxActs, SinkPacket(x, type, pts)
       PROVE  Learns
    <2>1. /\ dispatch = Quiet /\ UNCHANGED <<stream, stopped, ids>>
          /\ infoframe' \in {infoframe, infoframe \cup {x}} /\ Holds(stream, x)
        BY <1>14 DEF SinkPacket, PublisherIdle
    <2>2. x \in TracksOf(stream)
        BY <2>1 DEF Holds, Entries, TracksOf
    <2>3. dispatch'.track \in {x, NoSource} /\ ToSet(dispatch'.closing) = {}
        <3>1. CASE sinks[x] = {}
            BY <1>5, <1>14, <2>1, <3>1 DEF SinkPacket
        <3>2. CASE sinks[x] # {}
            <4>1. pts \in Nat /\ sinks[x] \in SUBSET Remuxers
                BY DEF DispatchOK
            <4> QED
                BY <1>14, <3>2, <4>1, SinkIs
        <3> QED
            BY <3>1, <3>2
    <2> QED
        BY <1>1, <1>3, <1>4, <2>1, <2>2, <2>3
<1>15. ASSUME Dispatched, UNCHANGED <<stream, infoframe, stopped, ids>> PROVE Learns
    <2>1. CASE dispatch' = Quiet
        BY <1>6, <1>15, <2>1
    <2>2. CASE dispatch' = [dispatch EXCEPT !.pc = "stop"]
        <3>1. dispatch'.track = dispatch.track /\ dispatch'.closing = dispatch.closing
            BY <1>1, <2>2, WithPc
        <3> QED
            BY <1>1, <1>3, <1>4, <1>15, <3>1
    <2> QED
        BY <1>15, <2>1, <2>2 DEF Dispatched
<1>16. ASSUME StreamLock PROVE Learns
    <2>1. dispatch.pc = "lock" /\ UNCHANGED <<stream, infoframe, stopped, ids>>
        BY <1>16 DEF StreamLock, streamVars
    <2>2. CASE listeners[dispatch.event] = {}
        BY <1>15, <1>16, <2>1, <2>2 DEF StreamLock
    <2>3. CASE listeners[dispatch.event] # {}
        <3>1. listeners[dispatch.event] \in SUBSET Remuxers
            BY <2>1 DEF DispatchOK, PhaseOK
        <3>2. dispatch'.track = dispatch.track /\ dispatch'.closing = dispatch.closing
            BY <1>1, <1>16, <2>3, <3>1, RunIs
        <3> QED
            BY <1>1, <1>3, <1>4, <2>1, <3>2
    <2> QED
        BY <2>2, <2>3
<1>17. ASSUME StreamUnlock PROVE Learns
    BY <1>15, <1>17 DEF StreamUnlock, streamVars, historyVars
<1>18. ASSUME SourceUnlock PROVE Learns
    BY <1>6, <1>18 DEF SourceUnlock, streamVars
<1> HIDE DEF Learns
<1>19. Learns
    BY <1>7, <1>8, <1>9, <1>10, <1>11, <1>12, <1>13, <1>14, <1>16, <1>17, <1>18
    DEF Next, Calls, DispatchSteps, Onwards
<1> QED
    BY <1>19 DEF Learns

LEMMA OwnStays ==
    ASSUME own \in [Remuxers -> MediaStreams], Next
    PROVE  own' = [r \in Remuxers |-> own'[r]]
<1>1. ASSUME NEW q, NEW ms, own' = [own EXCEPT ![q] = ms] PROVE own' = [r \in Remuxers |-> own'[r]]
    BY <1>1
<1>2. CASE UNCHANGED own
    BY <1>2
<1>3. ASSUME NEW r \in Remuxers, Source(r) \/ SourceSteps(r) \/ CallClose(r)
      PROVE  UNCHANGED own \/ \E q, ms : own' = [own EXCEPT ![q] = ms]
    BY <1>3 DEF Source, SourceSteps, SourceMetadata, SourceTracks, SourceAttach, SourceAttachStopped,
                SourceSink, SourceListen, CallClose, remuxVars
<1>4. ASSUME NEW t \in Threads, CloseSteps(t)
      PROVE  UNCHANGED own \/ \E q, ms : own' = [own EXCEPT ![q] = ms]
    BY <1>4 DEF CloseSteps, CloseLock, CloseUnsink, CloseUnsinkStopped, CloseUnlisten, Detach, Finish,
                remuxVars
<1>5. ASSUME NEW r \in Remuxers, OnAddTrack(r) \/ OnRemoveTrack(r)
      PROVE  UNCHANGED own \/ \E q, ms : own' = [own EXCEPT ![q] = ms]
    BY <1>5 DEF OnAddTrack, OnRemoveTrack
<1>6. ASSUME \/ \E r \in Remuxers : \/ OnRemoveTrackPanic(r) \/ OnData(r) \/ OnEnd(r)
                                     \/ OnPacketPanic(r) \/ OnPacket(r)
             \/ OnAddTrackSink
             \/ StreamStopTrack \/ StreamClosed \/ StreamLock \/ StreamUnlock \/ SourceUnlock
             \/ \E x \in Tracks : StreamAddTrack(x) \/ StreamRemoveTrack(x)
             \/ \E e \in {"error", "close"} : StreamEnds(e)
             \/ StreamClose \/ StreamData
             \/ \E x \in Tracks : \E type \in Types(x) : \E pts \in 1 .. MaxActs :
                  SinkPacket(x, type, pts)
      PROVE  UNCHANGED own
    BY <1>6 DEF OnRemoveTrackPanic, OnData, OnEnd, OnPacketPanic, OnPacket, OnAddTrackSink, StreamStopTrack,
                StreamClosed, StreamLock, StreamUnlock, SourceUnlock, StreamAddTrack, StreamRemoveTrack,
                StreamEnds, StreamClose, StreamData, SinkPacket, remuxVars
<1> QED
    BY <1>1, <1>2, <1>3, <1>4, <1>5, <1>6 DEF Next, Calls, DispatchSteps

LEMMA FreshStep ==
    ASSUME CallsOK, DispatchOK, StreamOK, FreshOK, IdsInv, Next
    PROVE  FreshOK'
<1>1. own \in [Remuxers -> MediaStreams] /\ stream \in MediaStreams
    BY DEF FreshOK, StreamOK
<1>2. own' \in [Remuxers -> MediaStreams]
    <2>1. DOMAIN own' = Remuxers /\ own' = [r \in Remuxers |-> own'[r]]
        BY <1>1, OwnStays
    <2>2. \A r \in Remuxers : own'[r] \in MediaStreams
        BY <1>1, RemuxersLearn
    <2> QED
        BY <2>1, <2>2
<1>3. /\ infoframe' \subseteq Tracks /\ ids' \in [Tracks -> Nat]
      /\ \A x \in Tracks : ids'[x] = 0 => ids[x] = 0
      /\ \A x \in KnownHere' \cap Tracks : ids'[x] = 0 => Known(x)
    BY PublisherLearns, KnownIs
<1>4. \A r \in Remuxers : \A x \in KnownTo(r)' \cap Tracks : Known(x)
    BY <1>1, RemuxersLearn, KnownIs
<1> QED
    BY <1>2, <1>3, <1>4, NothingNew

\* How the clones of a remuxer change.
LEMMA OwnChanges ==
    ASSUME CallsOK, DispatchOK, own \in [Remuxers -> MediaStreams], NEW r \in Remuxers, Next
    PROVE  \/ own'[r] = own[r] \/ own'[r] = EmptyStream
           \/ \E x \in Tracks : \E s \in {x, NoSource} : own'[r] = NewTrack(own[r], x, s)
           \/ \E i \in DOMAIN own[r].tracks : own'[r] = RemoveTrack(own[r], i)
<1> DEFINE Changes == \/ own'[r] = own[r] \/ own'[r] = EmptyStream
                      \/ \E x \in Tracks : \E s \in {x, NoSource} : own'[r] = NewTrack(own[r], x, s)
                      \/ \E i \in DOMAIN own[r].tracks : own'[r] = RemoveTrack(own[r], i)
<1> USE DEF At
<1>1. ASSUME UNCHANGED own PROVE Changes
    BY <1>1
<1>2. ASSUME NEW q, own' = [own EXCEPT ![q] = EmptyStream] PROVE Changes
    BY <1>2
<1>3. ASSUME NEW q \in Remuxers, NEW x \in Tracks, NEW s \in {x, NoSource},
             own' = [own EXCEPT ![q] = NewTrack(@, x, s)]
      PROVE  Changes
    BY <1>3
<1>4. ASSUME NEW q \in Remuxers, SourceAttach(q) \/ SourceAttachStopped(q) PROVE Changes
    <2> DEFINE x == Head(call[q].left)
    <2>1. \E s \in {x, NoSource} : own' = [own EXCEPT ![q] = NewTrack(@, x, s)]
        BY <1>4 DEF SourceAttach, SourceAttachStopped
    <2>2. call[q].pc = "attach"
        BY <1>4 DEF SourceAttach, SourceAttachStopped
    <2>3. call[q].left \in Seq(Tracks) /\ call[q].left # <<>>
        BY <2>2, CallFacts, Actors DEF CallOK, LeftOK
    <2>4. x \in Tracks
        BY <2>3, HeadAndTail
    <2> HIDE DEF x, Changes
    <2> QED
        BY <1>3, <2>1, <2>4
<1>5. ASSUME NEW q \in Remuxers, OnAddTrack(q) PROVE Changes
    <2> DEFINE x == dispatch.track
    <2>1. /\ dispatch.pc = "run" /\ dispatch.event = "addtrack"
          /\ UNCHANGED own \/ own' = [own EXCEPT ![q] = NewTrack(@, x, x)]
        BY <1>5 DEF OnAddTrack, Running
    <2>2. x \in Tracks /\ x \in {x, NoSource}
        BY <2>1 DEF DispatchOK, PhaseOK, Dispatching
    <2> HIDE DEF x, Changes
    <2> QED
        BY <1>1, <1>3, <2>1, <2>2
<1>6. ASSUME NEW q \in Remuxers, OnRemoveTrack(q) PROVE Changes
    <2> DEFINE clones == Attached(own[q], Removed)
    <2>1. \/ UNCHANGED own
          \/ clones # {} /\ own' = [own EXCEPT ![q] = RemoveTrack(@, First(clones))]
        BY <1>6 DEF OnRemoveTrack
    <2>2. clones \subseteq DOMAIN own[q].tracks
        BY DEF Attached
    <2> HIDE DEF clones
    <2>3. CASE clones # {} /\ own' = [own EXCEPT ![q] = RemoveTrack(@, First(clones))]
        <3>1. First(clones) \in DOMAIN own[q].tracks
            BY <2>2, <2>3, FirstMatches
        <3> QED
            BY <2>3, <3>1
    <2> QED
        BY <1>1, <2>1, <2>3
<1>7. ASSUME NEW t \in Threads, CloseSteps(t) PROVE Changes
    <2>1. UNCHANGED own \/ \E q : own' = [own EXCEPT ![q] = EmptyStream]
        BY <1>7 DEF CloseSteps, CloseLock, CloseUnsink, CloseUnsinkStopped, CloseUnlisten,
                    Detach, Finish, Close, remuxVars
    <2> HIDE DEF Changes
    <2> QED
        BY <1>1, <1>2, <2>1
<1>8. ASSUME NEW q \in Remuxers,
             \/ Source(q) \/ CallClose(q) \/ SourceMetadata(q) \/ SourceTracks(q) \/ SourceSink(q) \/ SourceListen(q)
             \/ OnRemoveTrackPanic(q) \/ OnData(q) \/ OnEnd(q) \/ OnPacketPanic(q) \/ OnPacket(q)
      PROVE  UNCHANGED own
    BY <1>8 DEF Source, CallClose, SourceMetadata, SourceTracks, SourceSink, SourceListen,
                OnRemoveTrackPanic, OnData, OnEnd, OnPacketPanic, OnPacket, remuxVars
<1>9. ASSUME \/ OnAddTrackSink
             \/ StreamStopTrack \/ StreamClosed \/ StreamLock \/ StreamUnlock \/ SourceUnlock
             \/ \E x \in Tracks : StreamAddTrack(x) \/ StreamRemoveTrack(x)
             \/ \E e \in {"error", "close"} : StreamEnds(e)
             \/ StreamClose \/ StreamData
             \/ \E x \in Tracks : \E type \in Types(x) : \E pts \in 1 .. MaxActs :
                  SinkPacket(x, type, pts)
      PROVE  UNCHANGED own
    BY <1>9 DEF OnAddTrackSink, StreamStopTrack, StreamClosed, StreamLock, StreamUnlock, SourceUnlock,
                StreamAddTrack, StreamRemoveTrack, StreamEnds, StreamClose, StreamData, SinkPacket, remuxVars
<1> HIDE DEF Changes
<1>10. Changes
    BY <1>1, <1>4, <1>5, <1>6, <1>7, <1>8, <1>9 DEF Next, Calls, DispatchSteps, SourceSteps
<1> QED
    BY <1>10 DEF Changes

\* The ids given to the tracks.
LEMMA IdsStep ==
    ASSUME CallsOK, DispatchOK, StreamOK, FreshOK, IdsInv, Next
    PROVE  IdsInv'
<1>1. /\ stream \in MediaStreams /\ own \in [Remuxers -> MediaStreams] /\ ids \in [Tracks -> Nat]
      /\ IdsOK(stream) /\ \A r \in Remuxers : IdsOK(own[r])
      /\ \A i \in DOMAIN stream.tracks : stream.tracks[i].id = ids[stream.tracks[i].track]
      /\ dispatch \in Dispatch
    BY DEF StreamOK, FreshOK, IdsInv, DispatchOK
<1>2. ~closed => \A x, y \in Tracks :
         ids[x] < stream.index /\ (ids[x] = ids[y] /\ ids[x] # 0 => x = y)
    BY DEF IdsInv
<1>3. ASSUME NEW r \in Remuxers PROVE IdsOK(own'[r])
    <2>1. own[r] \in MediaStreams /\ IdsOK(own[r])
        BY <1>1
    <2>2. CASE own'[r] = own[r] \/ own'[r] = EmptyStream
        BY <2>1, <2>2, EmptyFacts
    <2>3. ASSUME NEW x \in Tracks, NEW s \in {x, NoSource}, own'[r] = NewTrack(own[r], x, s)
          PROVE  IdsOK(own'[r])
        <3>1. s \in Tracks \cup {NoSource}
            OBVIOUS
        <3> QED
            BY <2>1, <2>3, <3>1, NewTrackFacts
    <2>4. ASSUME NEW i \in DOMAIN own[r].tracks, own'[r] = RemoveTrack(own[r], i) PROVE IdsOK(own'[r])
        BY <2>1, <2>4, RemoveTrackFacts
    <2> QED
        BY <1>1, <2>2, <2>3, <2>4, OwnChanges
<1>4. ASSUME IdsOK(stream'),
             \A i \in DOMAIN stream'.tracks : stream'.tracks[i].id = ids'[stream'.tracks[i].track],
             ~closed' => \A x, y \in Tracks :
                ids'[x] < stream'.index /\ (ids'[x] = ids'[y] /\ ids'[x] # 0 => x = y)
      PROVE  IdsInv'
    BY <1>3, <1>4 DEF IdsInv
<1>5. CASE UNCHANGED <<stream, ids, closed>>
    BY <1>1, <1>2, <1>4, <1>5
<1>6. ASSUME NEW x \in Tracks, StreamAddTrack(x) PROVE IdsInv'
    <2>1. ids[x] = 0 /\ UNCHANGED closed
        BY <1>6 DEF StreamAddTrack
    <2>2. stream' = NewTrack(stream, x, x) /\ ids' = [ids EXCEPT ![x] = stream.index]
          /\ x \notin TracksOf(stream)
        BY <1>1, <1>6, AddedIs
    <2> DEFINE n == Len(stream.tracks)
    <2>3. x \in Tracks \cup {NoSource}
        OBVIOUS
    <2>4. IdsOK(stream')
        BY <1>1, <2>2, <2>3, NewTrackFacts
    <2>5. /\ DOMAIN stream'.tracks = 1..(n + 1) /\ n \in Nat /\ DOMAIN stream.tracks = 1..n
          /\ \A i \in 1..n : stream'.tracks[i] = stream.tracks[i]
          /\ stream'.tracks[n + 1].track = x /\ stream'.tracks[n + 1].id = stream.index
        BY <1>1, <2>2, <2>3, NewTrackIs
    <2>6. stream'.index = stream.index + 1 /\ stream.index \in Nat
        BY <1>1, <2>2, <2>3, NewTrackIs
    <2>7. \A y \in Tracks : ids'[y] = IF y = x THEN stream.index ELSE ids[y]
        BY <1>1, <2>2
    <2> HIDE DEF n
    <2>8. ASSUME NEW i \in DOMAIN stream'.tracks
          PROVE  stream'.tracks[i].id = ids'[stream'.tracks[i].track]
        <3>1. CASE i \in 1..n
            <4>1. stream'.tracks[i] = stream.tracks[i] /\ i \in DOMAIN stream.tracks
                BY <2>5, <3>1
            <4>2. stream.tracks[i].track \in Tracks /\ stream.tracks[i].track # x
                BY <1>1, <2>2, <4>1, StreamShape DEF TracksOf
            <4> QED
                BY <1>1, <2>7, <4>1, <4>2
        <3>2. CASE i = n + 1
            BY <2>5, <2>7, <3>2
        <3> QED
            BY <2>5, <2>8, <3>1, <3>2
    <2>9. ASSUME ~closed', NEW y \in Tracks, NEW z \in Tracks
          PROVE  ids'[y] < stream'.index /\ (ids'[y] = ids'[z] /\ ids'[y] # 0 => y = z)
        <3>1. /\ ids[y] < stream.index /\ (ids[y] = ids[z] /\ ids[y] # 0 => y = z)
              /\ ids[z] < stream.index /\ ids[y] \in Nat /\ ids[z] \in Nat
            BY <1>1, <1>2, <2>1, <2>9
        <3>2. ids'[y] < stream'.index
            BY <2>6, <2>7, <3>1
        <3>3. ids'[y] = ids'[z] /\ ids'[y] # 0 => y = z
            BY <2>6, <2>7, <3>1
        <3> QED
            BY <3>2, <3>3
    <2> QED
        BY <1>4, <2>4, <2>8, <2>9
<1>7. ASSUME NEW x \in Tracks, StreamRemoveTrack(x) PROVE IdsInv'
    <2>1. UNCHANGED <<ids, closed>>
        BY <1>7 DEF StreamRemoveTrack, historyVars
    <2>2. PICK i \in DOMAIN stream.tracks :
             stream.tracks[i].track = x /\ stream' = RemoveTrack(stream, i)
        BY <1>1, <1>7, RemovedIs
    <2>3. /\ IdsOK(stream') /\ stream'.index = stream.index
          /\ \A j \in DOMAIN stream'.tracks : \E k \in DOMAIN stream.tracks : stream'.tracks[j] = stream.tracks[k]
        BY <1>1, <2>2, RemoveTrackFacts
    <2>4. \A j \in DOMAIN stream'.tracks : stream'.tracks[j].id = ids'[stream'.tracks[j].track]
        BY <1>1, <2>1, <2>3
    <2> QED
        BY <1>2, <1>4, <2>1, <2>3, <2>4
<1>8. ASSUME StreamStopTrack PROVE IdsInv'
    <2> DEFINE x == Head(dispatch.closing)
    <2>1. UNCHANGED <<ids, closed>> /\ stream' = StopTrack(stream, x)
        BY <1>8 DEF StreamStopTrack, historyVars
    <2> HIDE DEF x
    <2>2. /\ IdsOK(stream') /\ stream'.index = stream.index
          /\ DOMAIN stream'.tracks = DOMAIN stream.tracks
          /\ \A i \in DOMAIN stream.tracks : stream'.tracks[i].id = stream.tracks[i].id
                                             /\ stream'.tracks[i].track = stream.tracks[i].track
        BY <1>1, <2>1, StopTrackFacts
    <2>3. \A j \in DOMAIN stream'.tracks : stream'.tracks[j].id = ids'[stream'.tracks[j].track]
        BY <1>1, <2>1, <2>2
    <2> QED
        BY <1>2, <1>4, <2>1, <2>2, <2>3
<1>9. ASSUME StreamClosed PROVE IdsInv'
    <2>1. closed' = TRUE /\ stream' = EmptyStream
        BY <1>9 DEF StreamClosed, Close
    <2>2. DOMAIN stream'.tracks = {} /\ IdsOK(stream')
        BY <2>1, EmptyFacts DEF EmptyStream
    <2> QED
        BY <1>4, <2>1, <2>2
<1>10. ASSUME \/ StreamLock \/ StreamUnlock \/ SourceUnlock
              \/ \E e \in {"error", "close"} : StreamEnds(e)
              \/ StreamClose \/ StreamData
              \/ \E x \in Tracks : \E type \in Types(x) : \E pts \in 1 .. MaxActs :
                   SinkPacket(x, type, pts)
       PROVE  UNCHANGED <<stream, ids, closed>>
    BY <1>10 DEF StreamLock, StreamUnlock, SourceUnlock, StreamEnds, StreamClose, StreamData, SinkPacket,
                 streamVars, historyVars
<1>11. Onwards => UNCHANGED <<stream, ids, closed>>
    BY <1>1, OnwardsIs
<1> QED
    BY <1>5, <1>6, <1>7, <1>8, <1>9, <1>10, <1>11 DEF Next, Calls, DispatchSteps, Onwards

-----------------------------------------------------------------------------
(* The ids, proved.                                                        *)

StreamInv == CallsOK /\ DispatchOK /\ StreamOK /\ FreshOK /\ IdsInv

LEMMA StreamInvInit ==
    ASSUME Init
    PROVE  StreamInv
<1>1. /\ call = [t \in Threads |-> Idle] /\ mtx = [r \in Remuxers |-> Nobody] /\ using = {}
      /\ dispatch = Quiet /\ streamDisp = Nobody /\ sourceDisp = [x \in Tracks |-> Nobody]
      /\ listeners = [e \in Events |-> {}] /\ sinks = [x \in Tracks |-> {}]
    BY DEF Init, Events
<1>2. /\ stream = EmptyStream /\ stopped = {} /\ closed = FALSE /\ infoframe = {} /\ streamMtx = Nobody
      /\ ids = [x \in Tracks |-> 0] /\ own = [r \in Remuxers |-> EmptyStream]
    BY DEF Init
<1>3. Idle.pc = "idle" /\ Idle.remuxer = Nobody /\ Idle \in Call
    <2>1. \A left \in Seq(Tracks \cup {NoSource} \cup ToSet(StreamEvents)) :
             [pc |-> "idle", remuxer |-> Nobody, left |-> left] \in Call
        BY DEF Call
    <2>2. <<>> \in Seq(Tracks \cup {NoSource} \cup ToSet(StreamEvents))
        OBVIOUS
    <2> QED
        BY <2>1, <2>2 DEF Idle
<1>4. CallsOK
    <2>1. \A t \in Threads : call[t].pc = "idle" /\ call[t].remuxer = Nobody
        BY <1>1, <1>3
    <2>2. call \in [Threads -> Call] /\ mtx \in [Remuxers -> Threads \cup {Nobody}] /\ using \subseteq Remuxers
        BY <1>1, <1>3
    <2>3. \A t \in Threads : CallOK(t)
        BY <2>1 DEF CallOK, LeftOK, InSource, InClose
    <2>4. \A r \in Remuxers, t \in Threads : mtx[r] = t <=> call[t].remuxer = r /\ Busy(t)
        BY <1>1, <2>1, Actors DEF Busy, InSource, InClose
    <2> QED
        BY <2>2, <2>3, <2>4 DEF CallsOK
<1>5. DispatchOK
    <2>1. PhaseOK
        BY <1>1, QuietIs DEF PhaseOK, Dispatching
    <2>2. TodoOK
        BY <1>1, <1>3, QuietIs, Actors DEF TodoOK
    <2>3. LocksOK
        BY <1>1, QuietIs, Actors DEF LocksOK
    <2>4. listeners \in [Events -> SUBSET Remuxers] /\ sinks \in [Tracks -> SUBSET Remuxers]
        BY <1>1
    <2> QED
        BY <1>1, <2>1, <2>2, <2>3, <2>4, QuietIs DEF DispatchOK
<1>6. stream \in MediaStreams /\ TracksOf(stream) = {} /\ Sources(EmptyStream) = {} /\ IdsOK(EmptyStream)
      /\ EmptyStream \in MediaStreams /\ DOMAIN stream.tracks = {} /\ EmptyStream.index = 1
    BY <1>2, EmptyFacts DEF EmptyStream
<1>7. StreamOK
    BY <1>1, <1>2, <1>6, QuietIs DEF StreamOK, OneEach, Dispatching
<1>8. FreshOK
    <2>1. ASSUME NEW x \in Tracks, NEW r \in Remuxers
          PROVE  r \notin sinks[x] /\ x \notin Sources(own[r]) /\ x \notin Attaching(r)
        <3>1. call[r].pc = "idle"
            BY <1>1, <1>3, Actors
        <3> QED
            BY <1>1, <1>2, <1>6, <3>1 DEF Attaching
    <2>2. ASSUME NEW x \in Tracks
          PROVE x \notin TracksOf(stream) \cup infoframe \cup stopped /\ x # dispatch.track
                /\ x \notin ToSet(dispatch.closing)
        <3>1. ToSet(Quiet.closing) = {}
            BY DEF Quiet, ToSet
        <3> QED
            BY <1>1, <1>2, <1>6, <3>1, QuietIs, Actors
    <2>3. ids \in [Tracks -> Nat] /\ infoframe \subseteq Tracks /\ own \in [Remuxers -> MediaStreams]
        BY <1>2, <1>6
    <2> QED
        BY <2>1, <2>2, <2>3 DEF FreshOK, Known
<1>9. IdsInv
    BY <1>2, <1>6 DEF IdsInv
<1> QED
    BY <1>4, <1>5, <1>7, <1>8, <1>9 DEF StreamInv

LEMMA StreamInvStep ==
    ASSUME StreamInv, [Next]_vars
    PROVE  StreamInv'
<1>1. CASE Next
    <2>1. CallsOK /\ DispatchOK /\ StreamOK /\ FreshOK /\ IdsInv
        BY DEF StreamInv
    <2>2. own \in [Remuxers -> MediaStreams] /\ stream \in MediaStreams
        BY <2>1 DEF FreshOK, StreamOK
    <2>3. CallsOK'
        BY <1>1, <2>1, <2>2, CallsStep
    <2>4. DispatchOK'
        <3>1. stopped \subseteq Tracks /\ (Dispatching("addtrack") => dispatch.track \notin stopped)
            BY <2>1 DEF StreamOK
        <3> QED
            BY <1>1, <2>1, <2>2, <3>1, DispatchStep
    <2>5. StreamOK' /\ FreshOK' /\ IdsInv'
        BY <1>1, <2>1, StreamStep, FreshStep, IdsStep
    <2> QED
        BY <2>3, <2>4, <2>5 DEF StreamInv
<1>2. CASE UNCHANGED vars
    <2> USE <1>2 DEF vars, lockVars, streamVars, tableVars, remuxVars, threadVars, boundVars, historyVars
    <2>1. CallsOK' = CallsOK
        BY DEF CallsOK, CallOK, LeftOK, Busy
    <2>2. DispatchOK' = DispatchOK
        BY DEF DispatchOK, PhaseOK, TodoOK, LocksOK, Dispatching
    <2>3. StreamOK' = StreamOK
        BY DEF StreamOK, Closing, Dispatching
    <2>4. FreshOK' = FreshOK
        BY DEF FreshOK, Known, Attaching
    <2>5. IdsInv' = IdsInv
        BY DEF IdsInv
    <2> QED
        BY <2>1, <2>2, <2>3, <2>4, <2>5 DEF StreamInv
<1> QED
    BY <1>1, <1>2

\* Who holds which lock, what the dispatch is at, which tracks anybody knows and
\* the ids they have: true at any time, whatever the remuxers make of it.
THEOREM StreamInvAlways == Spec => []StreamInv
<1>1. Init => StreamInv
    BY StreamInvInit
<1>2. StreamInv /\ [Next]_vars => StreamInv'
    BY StreamInvStep
<1> QED
    BY <1>1, <1>2, PTL DEF Spec

\* A player tells the tracks of a stream by their ids (GetTrackByID): as long as the stream is
\* open no two of its tracks are ever given the same one, and at no time do two
\* tracks that it holds, or two clones of a remuxer, share one.
THEOREM IdsNeverReused == Spec => []TrackIdsNeverReused
<1>1. ASSUME StreamInv PROVE TrackIdsNeverReused
    <2>1. /\ IdsOK(stream) /\ \A r \in Remuxers : IdsOK(own[r])
          /\ \A i \in DOMAIN stream.tracks : stream.tracks[i].id = ids[stream.tracks[i].track]
          /\ ~closed => \A x, y \in Tracks : ids[x] = ids[y] /\ ids[x] # 0 => x = y
        BY <1>1 DEF StreamInv, IdsInv
    <2> QED
        BY <2>1 DEF TrackIdsNeverReused, IdsOK, Entries
<1> QED
    BY <1>1, StreamInvAlways, PTL

-----------------------------------------------------------------------------
(* The tags.                                                               *)

LEMMA Wrapped ==
    ASSUME NEW k \in Int
    PROVE  /\ k % Modulus \in 0 .. Modulus - 1
           /\ 0 =< k /\ k < Modulus => k % Modulus = k
           /\ k < 0 /\ -Modulus < k => k % Modulus = Modulus + k
<1>1. Modulus \in Nat \ {0}
    BY RemuxerAssumption
<1> QED
    BY <1>1

LEMMA NoTagIs ==
    NoTag.type = "none"
BY DEF NoTag

LEMMA FormatIs ==
    ASSUME NEW x, NEW first, NEW type, NEW pts, NEW base, NEW t, t = format(x, first, type, pts, base)
    PROVE  t.track = x /\ t.first = first /\ t.type = type /\ t.pts = pts /\ t.ts = (pts - base) % Modulus
BY DEF format

LEMMA FormatTag ==
    ASSUME NEW x \in Tracks, NEW first \in Tracks, NEW type \in {"header", "key", "inter", "raw"},
           NEW pts \in Nat, NEW base \in Nat
    PROVE  format(x, first, type, pts, base) \in Tag
<1>1. (pts - base) % Modulus \in 0 .. Modulus - 1
    BY Wrapped
<1> QED
    BY <1>1 DEF format, Tag

\* The players whose tags and times a step leaves alone.
TagSame(r) ==
    /\ readyState'[r] = readyState[r] /\ timeBase'[r] = timeBase[r] /\ started'[r] = started[r]
    /\ tag'[r] = tag[r]
    /\ r \in keyed' <=> r \in keyed
    /\ r \in rebased' <=> r \in rebased
    /\ r \in blind' <=> r \in blind

LEMMA TagStays ==
    ASSUME NEW r \in Remuxers, TagOK(r), TagSame(r),
           tag[r] # NoTag => /\ dispatch'.pc = "packet" /\ dispatch'.track = dispatch.track
                             /\ r \notin dispatch'.todo
    PROVE  TagOK(r)'
BY DEF TagOK, TagSame, Stamped

\* Source and CloseLock: the player begins anew.
LEMMA TagForgets ==
    ASSUME dispatch \in Dispatch, TagInv, NEW r \in Remuxers, NEW state \in {"inactive", "waiting"}, Forget(r),
           readyState' = [readyState EXCEPT ![r] = state], UNCHANGED <<timeBase, dispatch, acts>>
    PROVE  TagInv'
<1>1. TimesOK /\ TagTypes /\ \A q \in Remuxers : TagOK(q)
    BY DEF TagInv
<1>2. /\ tag' = [tag EXCEPT ![r] = NoTag] /\ started' = [started EXCEPT ![r] = 0]
      /\ keyed' = keyed \ {r} /\ rebased' = rebased \ {r} /\ blind' = blind \ {r}
    BY DEF Forget
<1>3. TagTypes'
    BY <1>1, <1>2 DEF TagTypes
<1>4. started' \in [Remuxers -> Nat] /\ started'[r] = 0 /\ \A q \in Remuxers : q # r => started'[q] = started[q]
    BY <1>1, <1>2 DEF TimesOK
<1>5. dispatch' = dispatch /\ acts' = acts /\ timeBase' = timeBase
    OBVIOUS
<1>6. dispatch.pts \in Nat
    BY DispatchFields
<1>7. TimesOK'
    BY <1>1, <1>4, <1>5, <1>6 DEF TimesOK
<1>8. ASSUME NEW q \in Remuxers PROVE TagOK(q)'
    <2>1. CASE q # r
        <3>1. TagSame(q)
            BY <1>1, <1>2, <1>4, <1>5, <2>1 DEF TagSame, TagTypes
        <3> QED
            BY <1>1, <1>5, <3>1, TagStays DEF TagOK
    <2>2. CASE q = r
        <3>1. tag'[q] = NoTag /\ readyState'[q] # "pumping" /\ tag'[q].type # "inter"
            BY <1>1, <1>2, <2>2, NoTagIs DEF TagTypes
        <3> QED
            BY <3>1 DEF TagOK, Stamped
    <2> QED
        BY <2>1, <2>2
<1> QED
    BY <1>3, <1>7, <1>8 DEF TagInv

\* SourceMetadata and onDataPacket: the time base is lost.
LEMMA TagRebases ==
    ASSUME TagInv, NEW r \in Remuxers,
           \/ UNCHANGED <<timeBase, rebased>>
           \/ timeBase' = [timeBase EXCEPT ![r] = 0] /\ rebased' = Rebased(r),
           UNCHANGED <<readyState, started, keyed, blind, tag, acts>>,
           dispatch'.pc = dispatch.pc, dispatch'.track = dispatch.track, dispatch'.pts = dispatch.pts,
           dispatch'.todo \subseteq dispatch.todo
    PROVE  TagInv'
<1>1. TimesOK /\ TagTypes /\ \A q \in Remuxers : TagOK(q)
    BY DEF TagInv
<1>2. TagTypes'
    BY <1>1 DEF TagTypes, Rebased
<1>3. TimesOK'
    BY <1>1 DEF TimesOK
<1>4. ASSUME NEW q \in Remuxers PROVE TagOK(q)'
    <2>1. TagOK(q)
        BY <1>1
    <2>2. CASE q # r \/ UNCHANGED <<timeBase, rebased>>
        <3>1. TagSame(q)
            BY <1>1, <2>2 DEF TagSame, Rebased, TimesOK
        <3> QED
            BY <2>1, <3>1, TagStays DEF TagOK
    <2>3. CASE q = r /\ rebased' = Rebased(r)
        <3>1. /\ readyState[r] = "pumping" => r \in rebased'
              /\ r \notin rebased' => r \notin rebased
            BY <2>3 DEF Rebased
        <3>2. Stamped(q)'
            BY <2>1, <2>3, <3>1 DEF TagOK, Stamped
        <3> QED
            BY <2>1, <2>3, <3>1, <3>2 DEF TagOK
    <2> QED
        BY <2>2, <2>3
<1> QED
    BY <1>2, <1>3, <1>4 DEF TagInv

\* A packet starts the pumping, or not.
LEMMA PumpIs ==
    ASSUME TagInv, dispatch \in Dispatch, NEW r \in Remuxers, Pump(r), dispatch.pc = "packet"
    PROVE  /\ \A q \in Remuxers : q # r => /\ readyState'[q] = readyState[q]
                                           /\ timeBase'[q] = timeBase[q] /\ started'[q] = started[q]
           /\ readyState' \in [Remuxers -> {"inactive", "waiting", "pumping"}]
           /\ timeBase' \in [Remuxers -> Nat] /\ started' \in [Remuxers -> Nat]
           /\ Starts(r) => readyState'[r] = "pumping" /\ timeBase'[r] = dispatch.pts
                           /\ started'[r] = dispatch.pts /\ Keyframe
           /\ ~Starts(r) => readyState'[r] = readyState[r] /\ timeBase'[r] = timeBase[r]
                            /\ started'[r] = started[r]
           /\ \A q \in Remuxers : started'[q] =< acts
           /\ Kind[dispatch.track] = "video" => \A q \in Remuxers : started'[q] =< dispatch.pts
<1>1. TimesOK /\ TagTypes /\ dispatch.pts \in Nat /\ dispatch.pts =< acts
    BY DispatchFields DEF TagInv, TimesOK
<1>2. /\ readyState \in [Remuxers -> {"inactive", "waiting", "pumping"}]
      /\ timeBase \in [Remuxers -> Nat] /\ started \in [Remuxers -> Nat]
      /\ \A q \in Remuxers : started[q] =< acts
      /\ Kind[dispatch.track] = "video" => \A q \in Remuxers : started[q] =< dispatch.pts
    BY <1>1 DEF TimesOK, TagTypes
<1>3. CASE Starts(r)
    <2>1. Keyframe
        BY <1>3 DEF Starts
    <2>2. /\ readyState' = [readyState EXCEPT ![r] = "pumping"]
          /\ timeBase' = [timeBase EXCEPT ![r] = dispatch.pts]
          /\ started' = [started EXCEPT ![r] = dispatch.pts]
        BY <1>3, Zenon DEF Pump
    <2> QED
        BY <1>1, <1>2, <1>3, <2>1, <2>2
<1>4. CASE ~Starts(r)
    <2>1. readyState' = readyState /\ timeBase' = timeBase /\ started' = started
        BY <1>2, <1>4 DEF Pump
    <2> QED
        BY <1>2, <1>4, <2>1
<1> QED
    BY <1>3, <1>4

\* onPacket panics, before or after the pumping started.
LEMMA TagPanics ==
    ASSUME TagInv, dispatch \in Dispatch, NEW r \in Remuxers, OnPacketPanic(r)
    PROVE  TagInv'
<1>1. TimesOK /\ TagTypes /\ \A q \in Remuxers : TagOK(q)
    BY DEF TagInv
<1>2. /\ dispatch.pc = "packet" /\ r \in dispatch.todo /\ Pump(r)
      /\ blind' = IF Starts(r) THEN blind \cup {r} ELSE blind
      /\ dispatch' = [dispatch EXCEPT !.todo = {}]
      /\ UNCHANGED <<acts, tag, keyed, rebased>>
    BY DEF OnPacketPanic, Taking, boundVars
<1>3. dispatch'.todo = {} /\ dispatch'.pc = dispatch.pc /\ dispatch'.track = dispatch.track
      /\ dispatch'.pts = dispatch.pts
    BY <1>2, NoneLeft
<1>4. TagTypes'
    BY <1>1, <1>2, PumpIs DEF TagTypes
<1>5. TimesOK'
    BY <1>1, <1>2, <1>3, PumpIs DEF TimesOK
<1>6. ASSUME NEW q \in Remuxers PROVE TagOK(q)'
    <2>1. TagOK(q)
        BY <1>1
    <2>2. CASE q # r \/ ~Starts(r)
        <3>1. TagSame(q)
            BY <1>1, <1>2, <2>2, PumpIs DEF TagSame
        <3> QED
            BY <1>3, <2>1, <3>1, TagStays DEF TagOK
    <2>3. CASE q = r /\ Starts(r)
        <3>1. tag[q] = NoTag /\ tag'[q] = NoTag
            BY <1>2, <2>1, <2>3 DEF TagOK
        <3>2. timeBase'[q] = started'[q] /\ q \in blind'
            BY <1>2, <2>3, PumpIs
        <3> QED
            BY <3>1, <3>2, NoTagIs DEF TagOK, Stamped
    <2> QED
        BY <2>2, <2>3
<1> QED
    BY <1>4, <1>5, <1>6 DEF TagInv

\* The tag of a packet that is taken.
LEMMA TagMade ==
    ASSUME TagInv, DispatchOK, infoframe \subseteq Tracks, NEW r \in Remuxers, OnPacket(r), Taken(r)
    PROVE  /\ tag'[r] \in Tag /\ tag'[r].track = dispatch.track
           /\ tag'[r].type = "inter" => readyState[r] = "pumping" /\ "keyframe" \notin Mode[r]
           /\ (readyState'[r] = "pumping" /\ r \notin rebased => timeBase'[r] = started'[r])
              => Stamped(r)'
           /\ readyState'[r] = "pumping"
<1>1. TimesOK /\ TagTypes /\ \A q \in Remuxers : TagOK(q)
    BY DEF TagInv
<1>2. /\ dispatch.pc = "packet" /\ Pump(r) /\ UNCHANGED rebased
      /\ tag' = [tag EXCEPT ![r] = format(dispatch.track, FirstSource(r), dispatch.packet, dispatch.pts,
                                          timeBase'[r])]
    BY DEF OnPacket, Taking
<1>3. dispatch \in Dispatch /\ dispatch.pts \in Nat /\ dispatch.pts =< acts /\ acts < Modulus /\ acts \in Nat
    BY <1>1, <1>2, DispatchFields, RemuxerAssumption DEF DispatchOK, TimesOK
<1>4. /\ dispatch.track \in Tracks /\ dispatch.packet \in Types(dispatch.track)
      /\ dispatch.packet \in {"header", "key", "inter", "raw"}
    BY <1>2 DEF DispatchOK, PhaseOK, Types
<1>5. FirstSource(r) \in Tracks
    BY DEF Taken
<1>6. /\ timeBase'[r] \in Nat /\ started'[r] \in Nat /\ started'[r] =< acts
      /\ Kind[dispatch.track] = "video" => started'[r] =< dispatch.pts
    BY <1>2, <1>3, PumpIs
<1>7. tag'[r] = format(dispatch.track, FirstSource(r), dispatch.packet, dispatch.pts, timeBase'[r])
    BY <1>1, <1>2 DEF TagTypes
<1>8. tag'[r] \in Tag
    BY <1>3, <1>4, <1>5, <1>6, <1>7, FormatTag
<1>9. /\ tag'[r].track = dispatch.track /\ tag'[r].type = dispatch.packet /\ tag'[r].pts = dispatch.pts
      /\ tag'[r].ts = (dispatch.pts - timeBase'[r]) % Modulus
    BY <1>7, FormatIs
<1>10. ASSUME dispatch.packet = "inter"
       PROVE  readyState[r] = "pumping" /\ "keyframe" \notin Mode[r]
    <2>1. Kind[dispatch.track] = "video"
        BY <1>4, <1>10 DEF Types
    <2>2. ~Keyframe /\ ~Starts(r)
        BY <1>10 DEF Keyframe, Starts
    <2>3. readyState'[r] = "pumping" /\ "keyframe" \notin Mode[r]
        BY <2>1, <2>2 DEF Taken
    <2> QED
        BY <1>2, <1>3, <2>2, <2>3, PumpIs
<1>11. ASSUME timeBase'[r] = started'[r] PROVE Stamped(r)'
    <2> DEFINE k == dispatch.pts - started'[r]
    <2>1. k \in Int /\ -Modulus < k /\ k < Modulus /\ tag'[r].ts = k % Modulus
        BY <1>3, <1>6, <1>9, <1>11, RemuxerAssumption
    <2>2. CASE 0 =< k
        <3>1. tag'[r].ts = k
            BY <2>1, <2>2, Wrapped
        <3> QED
            BY <1>3, <1>6, <1>9, <2>2, <3>1 DEF Stamped
    <2>3. CASE k < 0
        <3>1. tag'[r].ts = Modulus + k
            BY <2>1, <2>3, Wrapped
        <3>2. Kind[dispatch.track] = "audio"
            BY <1>3, <1>4, <1>6, <2>3, MediaStreamAssumption
        <3>3. Modulus + k = Modulus - (started'[r] - dispatch.pts)
            BY <1>3, <1>6, RemuxerAssumption
        <3>4. dispatch.pts < started'[r]
            BY <1>3, <1>6, <2>3
        <3> QED
            BY <1>9, <3>1, <3>2, <3>3, <3>4 DEF Stamped
    <2> QED
        BY <2>1, <2>2, <2>3
<1>12. readyState'[r] = "pumping"
    BY DEF Taken
<1>13. (readyState'[r] = "pumping" /\ r \notin rebased => timeBase'[r] = started'[r]) => Stamped(r)'
    <2>1. r \in rebased => Stamped(r)'
        BY <1>2 DEF Stamped
    <2> QED
        BY <1>11, <1>12, <2>1
<1> QED
    BY <1>8, <1>9, <1>10, <1>12, <1>13

LEMMA TagTaken ==
    ASSUME TagInv, DispatchOK, infoframe \subseteq Tracks, NEW r \in Remuxers, OnPacket(r)
    PROVE  TagInv'
<1>1. TimesOK /\ TagTypes /\ \A q \in Remuxers : TagOK(q)
    BY DEF TagInv
<1>2. /\ dispatch.pc = "packet" /\ r \in dispatch.todo /\ Pump(r) /\ dispatch' = Ran(r)
      /\ UNCHANGED <<acts, rebased>>
      /\ \/ /\ Taken(r) /\ UNCHANGED blind
            /\ \E t : tag' = [tag EXCEPT ![r] = t]
            /\ keyed' = IF Kind[dispatch.track] = "video" /\ dispatch.packet # "inter"
                        THEN keyed \cup {r} ELSE keyed
         \/ /\ blind' = IF Starts(r) THEN blind \cup {r} ELSE blind
            /\ UNCHANGED <<tag, keyed>>
    BY DEF OnPacket, Taking, boundVars
<1>3. dispatch \in Dispatch
    BY DEF DispatchOK
<1>4. /\ dispatch'.todo = dispatch.todo \ {r} /\ dispatch'.pc = dispatch.pc
      /\ dispatch'.track = dispatch.track /\ dispatch'.pts = dispatch.pts
    BY <1>2, <1>3, RanIs
<1>5. /\ \A q \in Remuxers : q # r => tag'[q] = tag[q]
      /\ tag' \in [Remuxers -> Tag \cup {NoTag}]
    <2>1. CASE UNCHANGED tag
        BY <1>1, <2>1 DEF TagTypes
    <2>2. CASE Taken(r) /\ \E t : tag' = [tag EXCEPT ![r] = t]
        <3>1. tag'[r] \in Tag
            BY <2>2, TagMade
        <3> QED
            BY <1>1, <2>2, <3>1 DEF TagTypes
    <2> QED
        BY <1>2, <2>1, <2>2
<1>6. TagTypes'
    BY <1>1, <1>2, <1>3, <1>5, PumpIs DEF TagTypes
<1>7. TimesOK'
    BY <1>1, <1>2, <1>3, <1>4, PumpIs DEF TimesOK
<1>8. ASSUME NEW q \in Remuxers, q # r PROVE TagOK(q)'
    <2>1. TagSame(q)
        BY <1>2, <1>3, <1>5, <1>8, PumpIs DEF TagSame
    <2> QED
        BY <1>1, <1>4, <2>1, TagStays DEF TagOK
<1>9. TagOK(r)'
    <2>1. TagOK(r) /\ r \notin dispatch'.todo
        BY <1>1, <1>4
    <2>2. readyState'[r] = "pumping" /\ r \notin rebased => timeBase'[r] = started'[r]
        BY <1>2, <1>3, <2>1, PumpIs DEF TagOK
    <2>3. readyState'[r] = "pumping" => r \in keyed' \cup blind'
        <3>1. CASE Starts(r)
            <4>1. Kind[dispatch.track] = "video" /\ dispatch.packet # "inter"
                BY <3>1 DEF Starts, Keyframe
            <4> QED
                BY <1>2, <3>1, <4>1
        <3>2. CASE ~Starts(r)
            BY <1>2, <1>3, <2>1, <3>2, PumpIs DEF TagOK
        <3> QED
            BY <3>1, <3>2
    <2>4. CASE UNCHANGED tag
        <3>1. tag'[r] = NoTag
            BY <1>2, <2>1, <2>4 DEF TagOK
        <3> QED
            BY <1>2, <2>2, <2>3, <3>1, NoTagIs DEF TagOK, Stamped
    <2>5. CASE Taken(r)
        <3>1. /\ tag'[r].track = dispatch.track /\ Stamped(r)'
              /\ tag'[r].type = "inter" => "keyframe" \notin Mode[r] /\ r \in keyed' \cup blind'
            BY <1>2, <2>2, <2>3, <2>5, TagMade
        <3> QED
            BY <1>2, <1>4, <2>1, <2>2, <2>3, <3>1 DEF TagOK
    <2> QED
        BY <1>2, <2>4, <2>5
<1> QED
    BY <1>6, <1>7, <1>8, <1>9 DEF TagInv

\* Nothing is being sunk: there are no tags.
LEMMA NoTags ==
    ASSUME TagInv, dispatch.pc # "packet"
    PROVE  \A r \in Remuxers : tag[r] = NoTag
BY DEF TagInv, TagOK

\* The calls of the publisher, and what it does between the handlers.
LEMMA TagBegins ==
    ASSUME TagInv, NEW n \in {0, 1}, acts' = acts + n, acts' =< MaxActs, dispatch.pc # "packet",
           UNCHANGED <<readyState, timeBase, started, tag, keyed, rebased, blind>>,
           \/ dispatch'.pc # "packet"
           \/ /\ dispatch'.pts =< acts'
              /\ Kind[dispatch'.track] = "video" => dispatch'.pts = acts'
    PROVE  TagInv'
<1>1. TimesOK /\ TagTypes /\ \A q \in Remuxers : TagOK(q)
    BY DEF TagInv
<1>2. acts' \in Nat /\ acts =< acts' /\ acts \in Nat
    BY <1>1 DEF TimesOK
<1>3. /\ timeBase' \in [Remuxers -> Nat] /\ started' \in [Remuxers -> Nat]
      /\ \A r \in Remuxers : started'[r] =< acts /\ started'[r] \in Nat
    BY <1>1 DEF TimesOK
<1>4. \A r \in Remuxers : started'[r] =< acts'
    BY <1>2, <1>3
<1>5. TimesOK'
    BY <1>2, <1>3, <1>4 DEF TimesOK
<1>6. ASSUME NEW r \in Remuxers PROVE TagOK(r)'
    <2>1. tag[r] = NoTag /\ TagSame(r)
        BY NoTags DEF TagSame
    <2> QED
        BY <1>1, <2>1, TagStays
<1> QED
    BY <1>1, <1>5, <1>6 DEF TagInv, TagTypes

LEMMA TagRests ==
    ASSUME TagInv, UNCHANGED <<readyState, timeBase, started, tag, keyed, rebased, blind, acts>>,
           dispatch'.pc = dispatch.pc, dispatch'.track = dispatch.track, dispatch'.pts = dispatch.pts,
           dispatch'.todo \subseteq dispatch.todo
    PROVE  TagInv'
<1>1. TimesOK /\ TagTypes /\ \A q \in Remuxers : TagOK(q)
    BY DEF TagInv
<1>2. TimesOK' /\ TagTypes'
    BY <1>1 DEF TimesOK, TagTypes
<1>3. ASSUME NEW q \in Remuxers PROVE TagOK(q)'
    <2>1. TagSame(q) /\ TagOK(q)
        BY <1>1 DEF TagSame
    <2> QED
        BY <2>1, TagStays DEF TagOK
<1> QED
    BY <1>2, <1>3 DEF TagInv

LEMMA TagStep ==
    ASSUME CallsOK, DispatchOK, StreamOK, FreshOK, TagInv, Next
    PROVE  TagInv'
<1>1. dispatch \in Dispatch /\ PhaseOK /\ infoframe \subseteq Tracks /\ TimesOK /\ TagTypes
    BY DEF DispatchOK, FreshOK, TagInv
<1>2. ASSUME Onwards
      PROVE  /\ dispatch'.pc = dispatch.pc /\ dispatch'.track = dispatch.track /\ dispatch'.pts = dispatch.pts
             /\ dispatch'.todo \subseteq dispatch.todo /\ acts' = acts
    BY <1>1, <1>2, OnwardsIs
<1>3. ASSUME NEW r \in Remuxers, Source(r) PROVE TagInv'
    <2>1. /\ readyState' = [readyState EXCEPT ![r] = "waiting"] /\ Forget(r)
          /\ UNCHANGED <<timeBase, dispatch, acts>>
        BY <1>3 DEF Source
    <2> QED
        BY <1>1, <2>1, TagForgets
<1>4. ASSUME NEW t \in Threads, CloseLock(t) PROVE TagInv'
    <2> DEFINE r == call[t].remuxer
    <2>1. r \in Remuxers
        BY <1>4, CallFacts DEF CloseLock, At
    <2>2. /\ readyState' = [readyState EXCEPT ![r] = "inactive"] /\ Forget(r)
          /\ UNCHANGED <<timeBase, dispatch, acts>>
        BY <1>4 DEF CloseLock, boundVars
    <2> HIDE DEF r
    <2> QED
        BY <1>1, <2>1, <2>2, TagForgets
<1>5. ASSUME NEW r \in Remuxers, SourceMetadata(r) \/ OnData(r) PROVE TagInv'
    <2>1. \/ UNCHANGED <<timeBase, rebased>>
          \/ timeBase' = [timeBase EXCEPT ![r] = 0] /\ rebased' = Rebased(r)
        BY <1>5 DEF SourceMetadata, OnData
    <2>2. UNCHANGED <<readyState, started, keyed, blind, tag, acts>>
        BY <1>5 DEF SourceMetadata, OnData, boundVars
    <2>3. Onwards
        BY <1>5 DEF Onwards, SourceSteps
    <2> QED
        BY <1>2, <2>1, <2>2, <2>3, TagRebases
<1>6. ASSUME NEW r \in Remuxers, OnPacketPanic(r) PROVE TagInv'
    BY <1>1, <1>6, TagPanics
<1>7. ASSUME NEW r \in Remuxers, OnPacket(r) PROVE TagInv'
    BY <1>1, <1>7, TagTaken
<1>8. ASSUME UNCHANGED <<readyState, timeBase, started, tag, keyed, rebased, blind>>, Onwards
      PROVE  TagInv'
    BY <1>2, <1>8, TagRests
<1>9. ASSUME NEW r \in Remuxers,
             \/ CallClose(r) \/ SourceTracks(r) \/ SourceAttach(r) \/ SourceAttachStopped(r)
             \/ SourceSink(r) \/ SourceListen(r)
             \/ OnAddTrack(r) \/ OnRemoveTrack(r) \/ OnRemoveTrackPanic(r) \/ OnEnd(r)
      PROVE  TagInv'
    <2>1. Onwards
        BY <1>9 DEF Onwards, SourceSteps
    <2>2. UNCHANGED <<readyState, timeBase, started, tag, keyed, rebased, blind>>
        BY <1>9 DEF CallClose, SourceTracks, SourceAttach, SourceAttachStopped, SourceSink, SourceListen,
                    OnAddTrack, OnRemoveTrack, OnRemoveTrackPanic, OnEnd, remuxVars, historyVars
    <2> QED
        BY <1>8, <2>1, <2>2
<1>10. ASSUME NEW t \in Threads, CloseUnsink(t) \/ CloseUnsinkStopped(t) \/ CloseUnlisten(t)
       PROVE  TagInv'
    <2>1. Onwards
        BY <1>10 DEF Onwards, CloseSteps
    <2>2. UNCHANGED <<readyState, timeBase, started, tag, keyed, rebased, blind>>
        BY <1>10 DEF CloseUnsink, CloseUnsinkStopped, CloseUnlisten, historyVars
    <2> QED
        BY <1>8, <2>1, <2>2
<1>11. ASSUME OnAddTrackSink PROVE TagInv'
    BY <1>8, <1>11 DEF OnAddTrackSink, Onwards, remuxVars
<1>12. ASSUME SourceUnlock PROVE TagInv'
    <2>1. /\ tag' = [r \in Remuxers |-> NoTag] /\ dispatch' = Quiet
          /\ UNCHANGED <<readyState, timeBase, started, keyed, rebased, blind, acts>>
        BY <1>12 DEF SourceUnlock, remuxVars, boundVars
    <2>2. TagTypes'
        BY <1>1, <2>1 DEF TagTypes
    <2>3. TimesOK'
        BY <1>1, <2>1, QuietIs DEF TimesOK
    <2>4. ASSUME NEW r \in Remuxers PROVE TagOK(r)'
        BY <2>1, NoTagIs DEF TagInv, TagOK, Stamped
    <2> QED
        BY <2>2, <2>3, <2>4 DEF TagInv
<1>13. ASSUME NEW n \in {0, 1}, acts' = acts + n, acts' =< MaxActs, dispatch.pc # "packet",
              UNCHANGED <<readyState, timeBase, started, tag, keyed, rebased, blind>>,
              dispatch'.pc # "packet"
       PROVE  TagInv'
    BY <1>13, TagBegins
<1>14. acts \in Nat /\ acts =< MaxActs /\ MaxActs \in Nat
    BY <1>1, RemuxerAssumption DEF TimesOK
<1>15. ASSUME \/ \E x \in Tracks : StreamAddTrack(x) \/ StreamRemoveTrack(x)
              \/ \E e \in {"error", "close"} : StreamEnds(e)
              \/ StreamClose \/ StreamData
       PROVE  TagInv'
    <2>1. \E pc \in {"lock", "stop"}, event \in Events, track \in Tracks \cup {NoSource},
             closing \in Seq(Tracks) : Begin(pc, event, track, closing)
        <3>1. <<>> \in Seq(Tracks)
            OBVIOUS
        <3>2. StreamClose => \E closing \in Seq(Tracks) : Begin("stop", "removetrack", NoSource, closing)
            BY TracksSeq DEF StreamClose, StreamOK
        <3>3. {"addtrack", "removetrack", "packet", "error", "close"} \subseteq Events
            BY EventsAre
        <3> QED
            BY <1>15, <3>1, <3>2, <3>3 DEF StreamAddTrack, StreamRemoveTrack, StreamEnds, StreamData
    <2>2. dispatch'.pc \in {"lock", "stop"} /\ dispatch = Quiet
        BY <2>1, BeginIs
    <2>3. acts < MaxActs /\ acts' = acts + 1
        BY <2>1 DEF Begin
    <2>4. UNCHANGED <<readyState, timeBase, started, tag, keyed, rebased, blind>>
        BY <1>15 DEF StreamAddTrack, StreamRemoveTrack, StreamEnds, StreamClose, StreamData,
                     remuxVars, historyVars
    <2> QED
        BY <1>13, <1>14, <2>2, <2>3, <2>4, QuietIs
<1>16. ASSUME StreamStopTrack \/ StreamClosed \/ StreamLock \/ StreamUnlock PROVE TagInv'
    <2>1. UNCHANGED <<readyState, timeBase, started, tag, keyed, rebased, blind, acts>>
        BY <1>16 DEF StreamStopTrack, StreamClosed, StreamLock, StreamUnlock, remuxVars, boundVars, historyVars
    <2>2. dispatch.pc # "packet"
        BY <1>16 DEF StreamStopTrack, StreamClosed, StreamLock, StreamUnlock
    <2>3. dispatch'.pc # "packet"
        BY <1>1, <1>16, QuietIs
        DEF StreamStopTrack, StreamClosed, StreamLock, StreamUnlock, Dispatched, Dispatch
    <2>4. acts' = acts + 0 /\ acts' =< MaxActs
        BY <1>14, <2>1
    <2> QED
        BY <1>13, <2>1, <2>2, <2>3, <2>4
<1>17. ASSUME NEW x \in Tracks, NEW type \in Types(x), NEW pts \in 1 .. MaxActs, SinkPacket(x, type, pts)
       PROVE  TagInv'
    <2>1. /\ dispatch = Quiet /\ acts < MaxActs /\ acts' = acts + 1
          /\ pts \in IF Kind[x] = "audio" THEN {acts - 1, acts + 1} ELSE {acts + 1}
          /\ UNCHANGED <<readyState, timeBase, started, tag, keyed, rebased, blind>>
        BY <1>17 DEF SinkPacket, PublisherIdle, remuxVars
    <2>2. \/ dispatch'.pc # "packet"
          \/ dispatch'.pts = pts /\ dispatch'.track = x
        <3>1. CASE sinks[x] = {}
            <4>1. dispatch' = dispatch
                BY <1>17, <3>1 DEF SinkPacket
            <4> QED
                BY <2>1, <4>1, QuietIs
        <3>2. CASE sinks[x] # {}
            <4>1. sinks[x] \in SUBSET Remuxers /\ pts \in Nat
                BY <1>14 DEF DispatchOK
            <4> QED
                BY <1>17, <3>2, <4>1, SinkIs
        <3> QED
            BY <3>1, <3>2
    <2>3. pts =< acts' /\ (Kind[x] = "video" => pts = acts')
        BY <1>14, <2>1
    <2>4. acts' =< MaxActs /\ dispatch.pc # "packet"
        BY <1>14, <2>1, QuietIs
    <2> QED
        BY <2>1, <2>2, <2>3, <2>4, TagBegins
<1> QED
    BY <1>3, <1>4, <1>5, <1>6, <1>7, <1>9, <1>10, <1>11, <1>12, <1>15, <1>16, <1>17
    DEF Next, Calls, DispatchSteps, SourceSteps, CloseSteps

-----------------------------------------------------------------------------
(* The remuxers: what leaves one of them alone.                            *)

LEMMA CrippledIs ==
    ASSUME NEW r \in Remuxers
    PROVE  /\ Crippled(r) <=> NoSource \in Sources(own[r])
           /\ Crippled(r)' <=> NoSource \in Sources(own'[r])
BY DEF Crippled, Sources, Entries

\* What is the remuxer's alone.
Mine(r) ==
    /\ own'[r] = own[r] /\ source'[r] = source[r] /\ mtx'[r] = mtx[r]
    /\ readyState'[r] = "inactive" <=> readyState[r] = "inactive"
    /\ r \in using' <=> r \in using
    /\ \A e \in Events : r \in listeners'[e] <=> r \in listeners[e]
    /\ \A x \in Tracks : r \in sinks'[x] <=> r \in sinks[x]

\* The call of its player, and who detaches it.
MyCalls(r) ==
    /\ call'[r] = call[r]
    /\ \A t \in Threads : call'[t].remuxer = r /\ call'[t].pc \in InClose => call'[t] = call[t]

LEMMA BrokenStays ==
    ASSUME NEW r \in Remuxers, BrokenOK(r), Mine(r), MyCalls(r), raced[r] \subseteq raced'[r],
           \A x \in Tracks : Pending(r, x)' => Pending(r, x) \/ x \notin Sources(own[r]) \cup Attaching(r)
    PROVE  BrokenOK(r)'
<1> USE DEF Mine, MyCalls, InClose
<1>1. ClonesOK(own[r]) /\ CrippledOK(r) /\ StatesOK(r) /\ PendingOK(r)
    BY DEF BrokenOK
<1>2. ClonesOK(own'[r])
    BY <1>1
<1>3. CrippledOK(r)'
    <2>1. Crippled(r)' <=> Crippled(r)
        BY CrippledIs
    <2> QED
        BY <1>1, <2>1 DEF CrippledOK
<1>4. StatesOK(r)'
    BY <1>1 DEF StatesOK
<1>5. PendingOK(r)'
    <2>1. Attaching(r)' = Attaching(r)
        BY DEF Attaching
    <2> QED
        BY <1>1, <2>1 DEF PendingOK
<1> QED
    BY <1>2, <1>3, <1>4, <1>5 DEF BrokenOK

LEMMA ListensStays ==
    ASSUME NEW r \in Remuxers, ListensOK(r), Mine(r), MyCalls(r),
           dispatch'.adding = r => dispatch.adding = r /\ dispatch'.track = dispatch.track
    PROVE  ListensOK(r)'
BY DEF ListensOK, Mine, MyCalls, InClose

LEMMA SinksStays ==
    ASSUME NEW r \in Remuxers, SinksOK(r), Mine(r), MyCalls(r), raced[r] \subseteq raced'[r]
    PROVE  SinksOK(r)'
BY DEF SinksOK, Mine, MyCalls, InClose

LEMMA AttachedStays ==
    ASSUME NEW r \in Remuxers, AttachedOK(r), Mine(r), MyCalls(r), raced[r] \subseteq raced'[r],
           \A x \in TracksOf(stream') :
              \/ Pending(r, x)'
              \/ /\ x \in TracksOf(stream)
                 /\ Pending(r, x) /\ readyState[r] # "inactive" /\ call[r].pc \notin {"metadata", "tracks"}
                    => x \in raced'[r] \/ Pending(r, x)'
                 /\ dispatch.adding = r => dispatch'.adding = r /\ dispatch'.track = dispatch.track,
           TracksOf(stream') \subseteq Tracks
    PROVE  AttachedOK(r)'
<1>1. Attaching(r)' = Attaching(r)
    BY DEF Attaching, MyCalls
<1>2. ASSUME readyState'[r] # "inactive" /\ call'[r].pc \notin {"metadata", "tracks"},
             NEW x \in TracksOf(stream'), Wants(r, x)
      PROVE  \/ r \in sinks'[x] \/ x \in raced'[r] \/ x \in Attaching(r)'
             \/ Pending(r, x)' \/ (dispatch'.adding = r /\ dispatch'.track = x)
    <2>1. readyState[r] # "inactive" /\ call[r].pc \notin {"metadata", "tracks"} /\ x \in Tracks
        BY <1>2 DEF Mine, MyCalls
    <2>2. CASE x \in TracksOf(stream) /\ ~Pending(r, x)'
        <3>1. \/ r \in sinks[x] \/ x \in raced[r] \/ x \in Attaching(r)
              \/ Pending(r, x) \/ (dispatch.adding = r /\ dispatch.track = x)
            BY <1>2, <2>1, <2>2 DEF AttachedOK
        <3> QED
            BY <1>1, <1>2, <2>1, <2>2, <3>1 DEF Mine
    <2> QED
        BY <1>2, <2>2
<1> QED
    BY <1>2 DEF AttachedOK, Wants

LEMMA HeardStays ==
    ASSUME NEW r \in Remuxers, HeardOK(r), Mine(r),
           heard[r] \subseteq heard'[r], unheard[r] \subseteq unheard'[r],
           tag'[r] = tag[r] \/ tag'[r] = NoTag,
           \A x \in infoframe' \cap Sources(own[r]) :
              \/ x \in unheard'[r] \/ HeaderComes(r, x)'
              \/ x \in infoframe /\ ~HeaderComes(r, x)
    PROVE  HeardOK(r)'
BY DEF HeardOK, Mine

\* A step of a remuxer other than r, or of a goroutine that closes another.
Elsewhere(r) ==
    \/ \E q \in Remuxers \ {r} : \/ Source(q) \/ SourceSteps(q) \/ CallClose(q)
                                 \/ OnAddTrack(q) \/ OnRemoveTrack(q) \/ OnRemoveTrackPanic(q)
                                 \/ OnData(q) \/ OnEnd(q) \/ OnPacketPanic(q) \/ OnPacket(q)
    \/ OnAddTrackSink /\ dispatch.adding # r
    \/ \E t \in Threads : CloseSteps(t) /\ call[t].remuxer # r

LEMMA ElsewhereMine ==
    ASSUME CallsOK, DispatchOK, FreshOK, TagTypes, RemuxTypes, TimesOK, NEW r \in Remuxers, Elsewhere(r)
    PROVE  /\ Mine(r) /\ raced'[r] = raced[r] /\ heard'[r] = heard[r] /\ unheard[r] \subseteq unheard'[r]
           /\ tag'[r] = tag[r] /\ (r \in panics' => r \in panics)
<1> DEFINE Same == /\ Mine(r) /\ raced'[r] = raced[r] /\ heard'[r] = heard[r]
                   /\ unheard[r] \subseteq unheard'[r]
                   /\ tag'[r] = tag[r] /\ (r \in panics' => r \in panics)
<1>1. /\ own \in [Remuxers -> MediaStreams] /\ mtx \in [Remuxers -> Threads \cup {Nobody}]
      /\ using \subseteq Remuxers
      /\ readyState \in [Remuxers -> {"inactive", "waiting", "pumping"}]
      /\ source \in [Remuxers -> BOOLEAN]
    BY CallFacts DEF FreshOK, TagTypes, RemuxTypes
<1>2. /\ listeners \in [Events -> SUBSET Remuxers] /\ sinks \in [Tracks -> SUBSET Remuxers]
      /\ tag \in [Remuxers -> Tag \cup {NoTag}]
      /\ heard \in [Remuxers -> SUBSET Tracks] /\ unheard \in [Remuxers -> SUBSET Tracks]
      /\ raced \in [Remuxers -> SUBSET Tracks] /\ panics \subseteq Remuxers
    BY DEF DispatchOK, TagTypes, RemuxTypes
<1>3. ASSUME NEW q \in Remuxers \ {r},
             \/ Source(q) \/ CallClose(q) \/ SourceMetadata(q) \/ SourceTracks(q) \/ SourceAttach(q)
             \/ SourceAttachStopped(q) \/ SourceSink(q) \/ SourceListen(q)
      PROVE  Same
    <2>1. CASE Source(q)
        BY <1>1, <1>2, <1>3, <2>1 DEF Source, Forget, Mine, tableVars
    <2>2. CASE CallClose(q) \/ SourceMetadata(q) \/ SourceTracks(q)
        BY <1>1, <1>2, <1>3, <2>2 DEF CallClose, SourceMetadata, SourceTracks, Mine, tableVars, remuxVars, historyVars
    <2>3. CASE SourceAttach(q) \/ SourceAttachStopped(q)
        BY <1>1, <1>2, <1>3, <2>3 DEF SourceAttach, SourceAttachStopped, Mine, tableVars
    <2>4. CASE SourceSink(q) \/ SourceListen(q)
        BY <1>1, <1>2, <1>3, <2>4 DEF SourceSink, SourceListen, Mine, remuxVars, historyVars
    <2> HIDE DEF Same
    <2> QED
        BY <1>3, <2>1, <2>2, <2>3, <2>4
<1>4. ASSUME NEW q \in Remuxers \ {r},
             \/ OnAddTrack(q) \/ OnRemoveTrack(q) \/ OnRemoveTrackPanic(q)
             \/ OnData(q) \/ OnEnd(q) \/ OnPacketPanic(q) \/ OnPacket(q)
      PROVE  Same
    <2>1. CASE OnAddTrack(q) \/ OnRemoveTrack(q)
        BY <1>1, <1>2, <1>4, <2>1 DEF OnAddTrack, OnRemoveTrack, Mine, tableVars, historyVars
    <2>2. CASE OnRemoveTrackPanic(q) \/ OnData(q) \/ OnEnd(q)
        BY <1>1, <1>2, <1>4, <2>2 DEF OnRemoveTrackPanic, OnData, OnEnd, Mine, tableVars, remuxVars, historyVars
    <2>3. CASE OnPacketPanic(q)
        BY <1>1, <1>2, <1>4, <2>3 DEF OnPacketPanic, Pump, Mine, tableVars
    <2>4. CASE OnPacket(q)
        BY <1>1, <1>2, <1>4, <2>4 DEF OnPacket, Pump, Mine, tableVars
    <2> HIDE DEF Same
    <2> QED
        BY <1>4, <2>1, <2>2, <2>3, <2>4
<1>5. ASSUME OnAddTrackSink, dispatch.adding # r PROVE Same
    BY <1>1, <1>2, <1>5 DEF OnAddTrackSink, Mine, remuxVars
<1>6. ASSUME NEW t \in Threads, CloseSteps(t), call[t].remuxer # r PROVE Same
    <2>1. CASE CloseLock(t)
        BY <1>1, <1>2, <1>6, <2>1 DEF CloseLock, Detach, Finish, Forget, Mine, tableVars
    <2>2. CASE CloseUnsink(t) \/ CloseUnlisten(t)
        BY <1>1, <1>2, <1>6, <2>2 DEF CloseUnsink, CloseUnlisten, Detach, Finish, Mine, historyVars
    <2>3. CASE CloseUnsinkStopped(t)
        BY <1>1, <1>2, <1>6, <2>3 DEF CloseUnsinkStopped, Mine, tableVars
    <2> HIDE DEF Same
    <2> QED
        BY <1>6, <2>1, <2>2, <2>3 DEF CloseSteps
<1> HIDE DEF Same
<1>7. Same
    BY <1>3, <1>4, <1>5, <1>6 DEF Elsewhere, SourceSteps
<1> QED
    BY <1>7 DEF Same

LEMMA ElsewhereCalls ==
    ASSUME CallsOK, CallsOK', own \in [Remuxers -> MediaStreams], stream \in MediaStreams,
           NEW r \in Remuxers, Elsewhere(r)
    PROVE  MyCalls(r)
<1>1. call \in [Threads -> Call] /\ r \in Threads /\ r # Publisher /\ r # Nobody /\ Publisher \in Threads
    BY Actors, CallFacts
<1>2. \A t \in Threads : CallOK(t) /\ CallOK(t)'
    BY CallFacts DEF CallsOK
<1>3. ASSUME NEW q \in Remuxers \ {r}, Source(q) \/ SourceSteps(q) \/ CallClose(q) PROVE MyCalls(r)
    <2>1. q \in Threads /\ \A u \in Threads : u # q => call'[u] = call[u]
        BY <1>3, SourceMoves, Actors
    <2>2. call[q].remuxer # r /\ call'[q].remuxer # r
        BY <1>1, <1>2, <1>3, <2>1 DEF CallOK
    <2> QED
        BY <1>1, <1>3, <2>1, <2>2 DEF MyCalls
<1>4. ASSUME NEW q \in Remuxers \ {r}, OnEnd(q) PROVE MyCalls(r)
    <2>1. call[Publisher].pc = "idle" /\ BeginClose(Publisher, q)
        BY <1>4 DEF OnEnd, Running, At
    <2>2. call[Publisher].remuxer # r
        BY <1>1, <1>2, <2>1 DEF CallOK
    <2>3. \A u \in Threads : u # Publisher => call'[u] = call[u]
        BY <1>1, <2>1 DEF BeginClose
    <2>4. call'[Publisher].remuxer # r
        <3>1. Idle.remuxer = Nobody
            BY DEF Idle
        <3>2. \A left : [pc |-> "lock", remuxer |-> q, left |-> left].remuxer = q
            OBVIOUS
        <3>3. call'[Publisher] = Idle \/ \E left : call'[Publisher] = [pc |-> "lock", remuxer |-> q, left |-> left]
            BY <1>1, <2>1 DEF BeginClose
        <3> QED
            BY <1>1, <1>4, <3>1, <3>2, <3>3
    <2> QED
        BY <1>1, <2>2, <2>3, <2>4 DEF MyCalls
<1>5. ASSUME NEW q \in Remuxers,
             \/ OnAddTrack(q) \/ OnRemoveTrack(q) \/ OnRemoveTrackPanic(q)
             \/ OnData(q) \/ OnPacketPanic(q) \/ OnPacket(q)
      PROVE  UNCHANGED call
    BY <1>5 DEF OnAddTrack, OnRemoveTrack, OnRemoveTrackPanic, OnData, OnPacketPanic, OnPacket
<1>6. ASSUME UNCHANGED call PROVE MyCalls(r)
    BY <1>6 DEF MyCalls
<1>7. OnAddTrackSink => UNCHANGED call
    BY DEF OnAddTrackSink
<1>8. ASSUME NEW t \in Threads, CloseSteps(t), call[t].remuxer # r PROVE MyCalls(r)
    <2>1. /\ \A u \in Threads : u # t => call'[u] = call[u]
          /\ call[t].pc \in InClose \cup {"lock"} /\ call[t].remuxer \in Remuxers
          /\ \/ call'[t] = Idle
             \/ call'[t].pc \in InClose /\ call'[t].remuxer = call[t].remuxer
        BY <1>8, CloseMoves
    <2>2. call'[t].remuxer # r
        BY <1>1, <1>8, <2>1 DEF Idle
    <2>3. t # r
        <3>1. call[t].pc # "idle"
            BY <2>1 DEF InClose
        <3> QED
            BY <1>2, <1>8, <3>1 DEF CallOK
    <2> QED
        BY <1>1, <1>8, <2>1, <2>2, <2>3 DEF MyCalls
<1> QED
    BY <1>3, <1>4, <1>5, <1>6, <1>7, <1>8 DEF Elsewhere

\* What the publisher has to tell r is not forgotten.
LEMMA ElsewhereTold ==
    ASSUME CallsOK, DispatchOK, unheard \in [Remuxers -> SUBSET Tracks], NEW r \in Remuxers, Elsewhere(r)
    PROVE  /\ \A x \in Tracks : Pending(r, x)' <=> Pending(r, x)
           /\ dispatch'.adding = r <=> dispatch.adding = r
           /\ dispatch'.track = dispatch.track
           /\ \A x \in Tracks : HeaderComes(r, x) => HeaderComes(r, x)' \/ x \in unheard'[r]
           /\ UNCHANGED <<stream, infoframe>>
<1>1. dispatch \in Dispatch /\ TodoOK /\ \A t \in Threads : CallOK(t)
    BY CallFacts DEF DispatchOK
<1>2. Onwards
    BY DEF Elsewhere, Onwards
<1>3. /\ dispatch'.pc = dispatch.pc /\ dispatch'.event = dispatch.event /\ dispatch'.track = dispatch.track
      /\ dispatch'.packet = dispatch.packet /\ dispatch'.todo \subseteq dispatch.todo
      /\ UNCHANGED <<stream, infoframe>>
    BY <1>1, <1>2, OnwardsIs
<1>4. ASSUME r \in dispatch.todo => r \in dispatch'.todo \/ dispatch.event # "addtrack" \/ dispatch.pc # "run"
      PROVE  \A x \in Tracks : Pending(r, x)' <=> Pending(r, x)
    BY <1>3, <1>4 DEF Pending, Dispatching
<1> DEFINE Told ==
        /\ r \in dispatch.todo => r \in dispatch'.todo \/ dispatch.event # "addtrack" \/ dispatch.pc # "run"
        /\ dispatch'.adding = r <=> dispatch.adding = r
        /\ \A x \in Tracks : HeaderComes(r, x) => HeaderComes(r, x)' \/ x \in unheard'[r]
<1>5. ASSUME r \in dispatch.todo => r \in dispatch'.todo
      PROVE  \A x \in Tracks : HeaderComes(r, x) => HeaderComes(r, x)'
    BY <1>3, <1>5 DEF HeaderComes
<1>6. ASSUME UNCHANGED dispatch PROVE Told
    BY <1>5, <1>6
<1>7. ASSUME NEW q \in Remuxers \ {r}, dispatch' = Ran(q) PROVE Told
    <2>1. dispatch'.todo = dispatch.todo \ {q} /\ dispatch'.adding = dispatch.adding
        BY <1>1, <1>7, RanIs
    <2> QED
        BY <1>5, <1>7, <2>1
<1>8. ASSUME dispatch' = [dispatch EXCEPT !.todo = {}], dispatch.event # "addtrack" \/ dispatch.pc # "run",
             \A x \in Tracks : HeaderComes(r, x) => x \in unheard'[r]
      PROVE  Told
    BY <1>1, <1>8, NoneLeft
<1> HIDE DEF Told
<1>9. ASSUME NEW q \in Remuxers \ {r}, Source(q) \/ SourceSteps(q) \/ CallClose(q) PROVE Told
    <2>1. UNCHANGED dispatch
        BY <1>9 DEF Source, SourceSteps, SourceMetadata, SourceTracks, SourceAttach, SourceAttachStopped,
                    SourceSink, SourceListen, CallClose
    <2> QED
        BY <1>6, <2>1
<1>10. ASSUME NEW q \in Remuxers \ {r}, OnRemoveTrack(q) \/ OnData(q) \/ OnEnd(q) \/ OnPacket(q) PROVE Told
    BY <1>7, <1>10 DEF OnRemoveTrack, OnData, OnEnd, OnPacket
<1>11. ASSUME NEW q \in Remuxers \ {r}, OnAddTrack(q) PROVE Told
    <2>1. dispatch.adding = Nobody /\ (dispatch' = Ran(q) \/ dispatch' = [Ran(q) EXCEPT !.adding = q])
        BY <1>11 DEF OnAddTrack, Running
    <2>2. CASE dispatch' = [Ran(q) EXCEPT !.adding = q]
        <3>1. dispatch'.todo = dispatch.todo \ {q} /\ dispatch'.adding = q
            BY <1>1, <1>11, <2>2, AddingIs
        <3> QED
            BY <1>5, <1>11, <2>1, <3>1, Actors DEF Told
    <2> QED
        BY <1>7, <1>11, <2>1, <2>2
<1>12. ASSUME NEW q \in Remuxers \ {r}, OnRemoveTrackPanic(q) PROVE Told
    <2>1. dispatch' = [dispatch EXCEPT !.todo = {}] /\ dispatch.event # "addtrack" /\ dispatch.pc = "run"
        BY <1>12 DEF OnRemoveTrackPanic, Running
    <2> QED
        BY <1>8, <2>1 DEF HeaderComes
<1>13. ASSUME NEW q \in Remuxers \ {r}, OnPacketPanic(q) PROVE Told
    <2>1. dispatch' = [dispatch EXCEPT !.todo = {}] /\ dispatch.pc = "packet"
        BY <1>13 DEF OnPacketPanic, Taking
    <2>2. \A x \in Tracks : HeaderComes(r, x) => x \in unheard'[r]
        BY <1>13 DEF OnPacketPanic, HeaderComes
    <2> QED
        BY <1>8, <2>1, <2>2
<1>14. ASSUME OnAddTrackSink, dispatch.adding # r PROVE Told
    <2>1. dispatch'.todo = dispatch.todo /\ dispatch'.adding = Nobody
        BY <1>1, <1>14, WithAdding DEF OnAddTrackSink
    <2> QED
        BY <1>5, <1>14, <2>1, Actors DEF Told
<1>15. ASSUME NEW t \in Threads, CloseSteps(t), call[t].remuxer # r PROVE Told
    <2>1. CASE UNCHANGED dispatch
        BY <1>6, <2>1
    <2>2. CASE CloseUnsinkStopped(t) /\ t = Publisher
        <3>1. dispatch' = [dispatch EXCEPT !.todo = {}] /\ call[Publisher].pc # "idle"
            BY <2>2 DEF CloseUnsinkStopped, At
        <3>2. dispatch.pc = "run" /\ dispatch.event # "addtrack"
            BY <1>1, <3>1 DEF TodoOK
        <3> QED
            BY <1>8, <3>1, <3>2 DEF HeaderComes
    <2>3. UNCHANGED dispatch \/ (CloseUnsinkStopped(t) /\ t = Publisher)
        BY <1>15 DEF CloseSteps, CloseLock, CloseUnsink, CloseUnsinkStopped, CloseUnlisten
    <2> QED
        BY <2>1, <2>2, <2>3
<1>16. Told
    BY <1>9, <1>10, <1>11, <1>12, <1>13, <1>14, <1>15 DEF Elsewhere
<1> QED
    BY <1>3, <1>4, <1>16 DEF Told

LEMMA ElsewhereOK ==
    ASSUME CallsOK, CallsOK', DispatchOK, StreamOK, FreshOK, TagInv, RemuxInv, NEW r \in Remuxers, Elsewhere(r)
    PROVE  RemuxOK(r)'
<1>1. /\ TagTypes /\ TimesOK /\ RemuxTypes /\ RemuxOK(r) /\ unheard \in [Remuxers -> SUBSET Tracks]
      /\ own \in [Remuxers -> MediaStreams] /\ stream \in MediaStreams
    BY DEF TagInv, RemuxInv, RemuxTypes, FreshOK, StreamOK
<1>2. /\ Mine(r) /\ raced'[r] = raced[r] /\ heard'[r] = heard[r] /\ unheard[r] \subseteq unheard'[r]
      /\ tag'[r] = tag[r] /\ (r \in panics' => r \in panics)
    BY <1>1, ElsewhereMine
<1>3. MyCalls(r)
    BY <1>1, ElsewhereCalls
<1>4. /\ \A x \in Tracks : Pending(r, x)' <=> Pending(r, x)
      /\ dispatch'.adding = r <=> dispatch.adding = r
      /\ dispatch'.track = dispatch.track
      /\ \A x \in Tracks : HeaderComes(r, x) => HeaderComes(r, x)' \/ x \in unheard'[r]
      /\ UNCHANGED <<stream, infoframe>>
    BY <1>1, ElsewhereTold
<1>5. BrokenOK(r)'
    BY <1>1, <1>2, <1>3, <1>4, BrokenStays DEF RemuxOK
<1>6. Crippled(r)' <=> Crippled(r)
    BY <1>2, CrippledIs DEF Mine
<1>7. ASSUME SoundOK(r) PROVE SoundOK(r)'
    <2>1. TracksOf(stream) \subseteq Tracks /\ infoframe \subseteq Tracks
        BY <1>1, StreamShape DEF TracksOf, FreshOK
    <2>2. ListensOK(r)'
        BY <1>2, <1>3, <1>4, <1>7, ListensStays DEF SoundOK
    <2>3. SinksOK(r)'
        BY <1>2, <1>3, <1>7, SinksStays DEF SoundOK
    <2>4. AttachedOK(r)'
        BY <1>2, <1>3, <1>4, <1>7, <2>1, AttachedStays DEF SoundOK
    <2>5. HeardOK(r)'
        BY <1>2, <1>4, <1>7, <2>1, HeardStays DEF SoundOK
    <2> QED
        BY <2>2, <2>3, <2>4, <2>5 DEF SoundOK
<1> QED
    BY <1>1, <1>2, <1>5, <1>6, <1>7 DEF RemuxOK

\* What the publisher does by itself.
Publishes ==
    \/ \E x \in Tracks : StreamAddTrack(x) \/ StreamRemoveTrack(x)
    \/ \E e \in {"error", "close"} : StreamEnds(e)
    \/ StreamClose \/ StreamData
    \/ \E x \in Tracks : \E type \in Types(x) : \E pts \in 1 .. MaxActs : SinkPacket(x, type, pts)
    \/ StreamStopTrack \/ StreamClosed \/ StreamLock \/ StreamUnlock \/ SourceUnlock

LEMMA PublishesMine ==
    ASSUME RemuxTypes, TagTypes, NEW r \in Remuxers, Publishes
    PROVE  /\ Mine(r) /\ MyCalls(r) /\ heard'[r] = heard[r] /\ (r \in panics' => r \in panics)
           /\ raced[r] \subseteq raced'[r] /\ unheard[r] \subseteq unheard'[r]
           /\ tag'[r] = tag[r] \/ tag'[r] = NoTag
           /\ UNCHANGED <<own, readyState, listeners, sinks, call>>
<1>1. UNCHANGED <<own, readyState, source, mtx, using, listeners, sinks, call, heard, panics>>
    BY DEF Publishes, StreamAddTrack, StreamRemoveTrack, StreamEnds, StreamClose, StreamData, SinkPacket,
           StreamStopTrack, StreamClosed, StreamLock, StreamUnlock, SourceUnlock,
           tableVars, remuxVars, historyVars
<1>2. raced[r] \subseteq raced'[r]
    <2>1. UNCHANGED raced \/ StreamLock
        BY DEF Publishes, StreamAddTrack, StreamRemoveTrack, StreamEnds, StreamClose, StreamData, SinkPacket,
               StreamStopTrack, StreamClosed, StreamUnlock, SourceUnlock, historyVars
    <2>2. StreamLock => raced[r] \subseteq raced'[r]
        BY DEF StreamLock, RemuxTypes
    <2> QED
        BY <2>1, <2>2
<1>3. unheard[r] \subseteq unheard'[r]
    <2>1. \/ UNCHANGED unheard
          \/ \E x \in Tracks : \E type \in Types(x) : \E pts \in 1 .. MaxActs : SinkPacket(x, type, pts)
        BY DEF Publishes, StreamAddTrack, StreamRemoveTrack, StreamEnds, StreamClose, StreamData,
               StreamStopTrack, StreamClosed, StreamLock, StreamUnlock, SourceUnlock, historyVars
    <2>2. ASSUME NEW x, NEW type, NEW pts, SinkPacket(x, type, pts) PROVE unheard[r] \subseteq unheard'[r]
        BY <2>2 DEF SinkPacket, RemuxTypes
    <2> QED
        BY <2>1, <2>2
<1>4. tag'[r] = tag[r] \/ tag'[r] = NoTag
    BY DEF Publishes, StreamAddTrack, StreamRemoveTrack, StreamEnds, StreamClose, StreamData, SinkPacket,
           StreamStopTrack, StreamClosed, StreamLock, StreamUnlock, SourceUnlock, historyVars
<1> QED
    BY <1>1, <1>2, <1>3, <1>4 DEF Mine, MyCalls

LEMMA PublishesKeeps ==
    ASSUME RemuxInv, TagInv, NEW r \in Remuxers, Publishes,
           \A x \in Tracks : Pending(r, x)' => Pending(r, x) \/ x \notin Sources(own[r]) \cup Attaching(r),
           dispatch.adding # Nobody \/ dispatch'.adding # Nobody => dispatch'.adding = dispatch.adding
                                                       /\ dispatch'.track = dispatch.track,
           TracksOf(stream') \subseteq Tracks,
           BrokenOK(r) /\ ListensOK(r) =>
              \A x \in TracksOf(stream') :
                 \/ Pending(r, x)'
                 \/ /\ x \in TracksOf(stream)
                    /\ Pending(r, x) /\ readyState[r] # "inactive" /\ call[r].pc \notin {"metadata", "tracks"}
                       => x \in raced'[r] \/ Pending(r, x)',
           BrokenOK(r) =>
              \A x \in infoframe' \cap Sources(own[r]) :
                 \/ x \in unheard'[r] \/ HeaderComes(r, x)'
                 \/ x \in infoframe /\ ~HeaderComes(r, x)
    PROVE  RemuxOK(r)'
<1>1. RemuxTypes /\ TagTypes /\ RemuxOK(r) /\ r # Nobody
    BY Actors DEF RemuxInv, TagInv
<1>2. /\ Mine(r) /\ MyCalls(r) /\ heard'[r] = heard[r] /\ (r \in panics' => r \in panics)
      /\ raced[r] \subseteq raced'[r] /\ unheard[r] \subseteq unheard'[r]
      /\ tag'[r] = tag[r] \/ tag'[r] = NoTag
    BY <1>1, PublishesMine
<1>3. BrokenOK(r)'
    BY <1>1, <1>2, BrokenStays DEF RemuxOK
<1>4. Crippled(r)' <=> Crippled(r)
    BY <1>2, CrippledIs DEF Mine
<1>5. ASSUME SoundOK(r) PROVE SoundOK(r)'
    <2>1. BrokenOK(r) /\ ListensOK(r) /\ SinksOK(r) /\ AttachedOK(r) /\ HeardOK(r)
        BY <1>1, <1>5 DEF RemuxOK, SoundOK
    <2>2. ListensOK(r)'
        BY <1>1, <1>2, <2>1, ListensStays
    <2>3. SinksOK(r)'
        BY <1>2, <2>1, SinksStays
    <2>4. AttachedOK(r)'
        BY <1>1, <1>2, <2>1, AttachedStays
    <2>5. HeardOK(r)'
        BY <1>2, <2>1, HeardStays
    <2> QED
        BY <2>2, <2>3, <2>4, <2>5 DEF SoundOK
<1> QED
    BY <1>1, <1>2, <1>3, <1>4, <1>5 DEF RemuxOK

LEMMA PublishesOK ==
    ASSUME CallsOK, DispatchOK, StreamOK, StreamOK', FreshOK, TagInv, RemuxInv, NEW r \in Remuxers, Publishes
    PROVE  RemuxOK(r)'
<1>1. /\ dispatch \in Dispatch /\ PhaseOK /\ TodoOK /\ stream \in MediaStreams
      /\ listeners \in [Events -> SUBSET Remuxers] /\ sinks \in [Tracks -> SUBSET Remuxers]
      /\ own[r] \in MediaStreams /\ infoframe \subseteq Tracks
    BY DEF DispatchOK, StreamOK, FreshOK
<1>2. TracksOf(stream) \subseteq Tracks /\ TracksOf(stream') \subseteq Tracks
    BY StreamShape DEF StreamOK
\* A step that adds no track and no header.
<1>3. ASSUME \A x \in Tracks : ~Pending(r, x)' /\ ~HeaderComes(r, x),
             \A x \in Tracks : Pending(r, x) /\ readyState[r] # "inactive" /\ BrokenOK(r) /\ ListensOK(r)
                               /\ call[r].pc \notin {"metadata", "tracks"} => x \in raced'[r],
             dispatch.adding = Nobody, dispatch'.adding = Nobody,
             TracksOf(stream') \subseteq TracksOf(stream), UNCHANGED infoframe
      PROVE  RemuxOK(r)'
    BY <1>1, <1>2, <1>3, PublishesKeeps
<1>4. ASSUME dispatch = Quiet
      PROVE  dispatch.adding = Nobody /\ \A x : ~Pending(r, x) /\ ~HeaderComes(r, x)
    BY <1>4, QuietIs DEF Pending, Dispatching, HeaderComes
<1>5. ASSUME dispatch' = Quiet
      PROVE  dispatch'.adding = Nobody /\ \A x : ~Pending(r, x)' /\ ~HeaderComes(r, x)'
    BY <1>5, QuietIs DEF Pending, Dispatching, HeaderComes
<1>6. dispatch.pc # "run" => dispatch.adding = Nobody
    BY <1>1 DEF TodoOK
<1>7. ASSUME NEW x \in Tracks, StreamAddTrack(x) PROVE RemuxOK(r)'
    <2>1. dispatch = Quiet /\ dispatch'.pc = "lock" /\ dispatch'.event = "addtrack" /\ dispatch'.track = x
          /\ dispatch'.adding = Nobody
        <3>1. Begin("lock", "addtrack", x, <<>>) /\ "addtrack" \in Events /\ x \in Tracks \cup {NoSource}
            BY <1>7, EventsAre DEF StreamAddTrack
        <3> QED
            BY <3>1, BeginDispatch
    <2>2. x \notin Sources(own[r]) \cup Attaching(r)
        BY <1>7 DEF StreamAddTrack, FreshOK, Known
    <2>3. stream' = NewTrack(stream, x, x)
        BY <1>1, <1>7, AddedIs
    <2>4. TracksOf(stream') = TracksOf(stream) \cup {x}
        <3>1. x \in Tracks /\ x \in Tracks \cup {NoSource} /\ stream \in MediaStreams
            BY <1>1
        <3> QED
            BY <2>3, <3>1, NewTrackSets
    <2>5. \A y \in Tracks : Pending(r, y)' <=> y = x
        BY <2>1 DEF Pending, Dispatching
    <2>6. infoframe' \subseteq infoframe \cup {x}
        BY <1>7 DEF StreamAddTrack
    <2>7. dispatch.adding = Nobody /\ \A y : ~Pending(r, y) /\ ~HeaderComes(r, y)
        BY <1>4, <2>1
    <2> QED
        BY <1>2, <2>1, <2>2, <2>4, <2>5, <2>6, <2>7, PublishesKeeps
<1>8. ASSUME \/ \E x \in Tracks : StreamRemoveTrack(x)
             \/ \E e \in {"error", "close"} : StreamEnds(e)
             \/ StreamClose \/ StreamData
      PROVE  RemuxOK(r)'
    <2>1. \E pc \in {"lock", "stop"}, event \in Events \ {"addtrack"}, track \in Tracks \cup {NoSource},
             closing \in Seq(Tracks) : Begin(pc, event, track, closing)
        <3>1. <<>> \in Seq(Tracks)
            OBVIOUS
        <3>2. StreamClose => \E closing \in Seq(Tracks) : Begin("stop", "removetrack", NoSource, closing)
            BY <1>1, TracksSeq DEF StreamClose
        <3>3. {"removetrack", "packet", "error", "close"} \subseteq Events \ {"addtrack"}
            BY EventsAre
        <3> QED
            BY <1>8, <3>1, <3>2, <3>3 DEF StreamRemoveTrack, StreamEnds, StreamData
    <2>2. /\ dispatch = Quiet /\ dispatch'.adding = Nobody
          /\ dispatch'.event \in Events /\ dispatch'.event # "addtrack"
        BY <2>1, BeginIs
    <2>3. UNCHANGED infoframe
        BY <1>8 DEF StreamRemoveTrack, StreamEnds, StreamClose, StreamData, streamVars
    <2>4. TracksOf(stream') \subseteq TracksOf(stream)
        <3>1. CASE UNCHANGED stream
            BY <3>1
        <3>2. ASSUME NEW x \in Tracks, StreamRemoveTrack(x) PROVE TracksOf(stream') \subseteq TracksOf(stream)
            <4>1. PICK i \in DOMAIN stream.tracks : stream' = RemoveTrack(stream, i)
                BY <1>1, <3>2, RemovedIs
            <4>2. \A j \in DOMAIN stream'.tracks : \E k \in DOMAIN stream.tracks : stream'.tracks[j] = stream.tracks[k]
                BY <1>1, <4>1, RemoveTrackFacts
            <4> QED
                BY <4>2 DEF TracksOf
        <3> QED
            BY <1>8, <3>1, <3>2 DEF StreamEnds, StreamClose, StreamData, streamVars
    <2>5. \A x \in Tracks : ~Pending(r, x)'
        BY <2>2 DEF Pending, Dispatching
    <2> QED
        BY <1>3, <1>4, <2>2, <2>3, <2>4, <2>5
<1>9. ASSUME NEW x \in Tracks, NEW type \in Types(x), NEW pts \in 1 .. MaxActs, SinkPacket(x, type, pts)
      PROVE  RemuxOK(r)'
    <2>1. dispatch = Quiet /\ UNCHANGED stream
        BY <1>9 DEF SinkPacket, PublisherIdle
    <2>2. dispatch.adding = Nobody /\ \A y : ~Pending(r, y) /\ ~HeaderComes(r, y)
        BY <1>4, <2>1
    <2>3. sinks[x] \in SUBSET Remuxers /\ pts \in Nat
        BY <1>1, RemuxerAssumption
    <2>4. \/ sinks[x] = {} /\ dispatch' = Quiet
          \/ /\ dispatch'.pc = "packet" /\ dispatch'.packet = type /\ dispatch'.track = x
             /\ dispatch'.todo = sinks[x] /\ dispatch'.adding = Nobody
        <3>1. CASE sinks[x] = {}
            BY <1>9, <2>1, <3>1 DEF SinkPacket
        <3>2. CASE sinks[x] # {}
            BY <1>9, <2>3, <3>2, SinkIs
        <3> QED
            BY <3>1, <3>2
    <2>5. dispatch'.adding = Nobody /\ \A y : ~Pending(r, y)'
        BY <1>5, <2>4 DEF Pending, Dispatching
    <2>6. CASE type # "header"
        <3>1. UNCHANGED infoframe
            BY <1>9, <2>6 DEF SinkPacket
        <3> QED
            BY <1>3, <2>1, <2>2, <2>5, <3>1
    <2>7. CASE type = "header"
        <3>1. /\ infoframe' = infoframe \cup {x}
              /\ Holds(own[r], x) /\ r \notin sinks[x] => x \in unheard'[r]
            BY <1>9, <2>7 DEF SinkPacket
        <3>2. ASSUME BrokenOK(r), x \in Sources(own[r]) PROVE x \in unheard'[r] \/ HeaderComes(r, x)'
            <4>1. CASE r \in sinks[x]
                BY <2>4, <2>7, <4>1 DEF HeaderComes
            <4>2. CASE r \notin sinks[x]
                <5>1. \E i \in DOMAIN own[r].tracks : own[r].tracks[i].track = x
                    BY <3>2, Actors DEF BrokenOK, ClonesOK, Sources
                <5>2. Holds(own[r], x)
                    BY <5>1 DEF Holds, Entries
                <5> QED
                    BY <3>1, <4>2, <5>2
            <4> QED
                BY <4>1, <4>2
        <3> QED
            BY <1>2, <2>1, <2>2, <2>5, <3>1, <3>2, PublishesKeeps
    <2> QED
        BY <2>6, <2>7
<1>10. ASSUME StreamStopTrack PROVE RemuxOK(r)'
    <2>1. /\ dispatch.pc = "stop" /\ stream' = StopTrack(stream, Head(dispatch.closing)) /\ UNCHANGED infoframe
        BY <1>10 DEF StreamStopTrack
    <2>2. dispatch'.event = "removetrack" /\ dispatch'.adding = Nobody
        BY <1>1, <1>6, <1>10, <2>1, StopIs DEF PhaseOK
    <2>3. TracksOf(stream') \subseteq TracksOf(stream)
        BY <1>1, <2>1, StopTrackFacts DEF TracksOf
    <2>4. \A x \in Tracks : ~Pending(r, x)' /\ ~Pending(r, x) /\ ~HeaderComes(r, x)
        BY <2>1, <2>2 DEF Pending, Dispatching, HeaderComes
    <2> QED
        BY <1>3, <1>6, <2>1, <2>2, <2>3, <2>4
<1>11. ASSUME StreamClosed PROVE RemuxOK(r)'
    <2>1. dispatch.pc = "stop" /\ stream' = EmptyStream /\ dispatch' = Quiet /\ UNCHANGED infoframe
        BY <1>11 DEF StreamClosed, Close
    <2>2. TracksOf(stream') = {}
        BY <2>1, EmptyFacts
    <2>3. \A x \in Tracks : ~Pending(r, x) /\ ~HeaderComes(r, x)
        BY <2>1 DEF Pending, Dispatching, HeaderComes
    <2> QED
        BY <1>3, <1>5, <1>6, <2>1, <2>2, <2>3
<1>12. ASSUME SourceUnlock PROVE RemuxOK(r)'
    <2>1. dispatch.pc = "packet" /\ dispatch.todo = {} /\ dispatch' = Quiet /\ UNCHANGED <<stream, infoframe>>
        BY <1>12 DEF SourceUnlock, streamVars
    <2>2. \A x \in Tracks : ~Pending(r, x) /\ ~HeaderComes(r, x)
        BY <2>1 DEF Pending, Dispatching, HeaderComes
    <2> QED
        BY <1>3, <1>5, <1>6, <2>1, <2>2
\* What follows a dispatch.
<1>13. ASSUME Dispatched
       PROVE  \/ dispatch' = Quiet
              \/ dispatch'.pc = "stop" /\ dispatch'.adding = dispatch.adding
    BY <1>1, <1>13, WithPc DEF Dispatched
<1>14. ASSUME StreamUnlock PROVE RemuxOK(r)'
    <2>1. /\ dispatch.pc = "run" /\ dispatch.todo = {} /\ dispatch.adding = Nobody /\ Dispatched
          /\ UNCHANGED <<stream, infoframe>>
        BY <1>14 DEF StreamUnlock, streamVars
    <2>2. dispatch'.adding = Nobody /\ dispatch'.pc \in {"idle", "stop"}
        BY <1>13, <2>1, QuietIs
    <2>3. \A x \in Tracks : ~Pending(r, x) /\ ~HeaderComes(r, x) /\ ~Pending(r, x)'
        BY <2>1, <2>2 DEF Pending, Dispatching, HeaderComes
    <2> QED
        BY <1>3, <2>1, <2>2, <2>3
<1>15. ASSUME StreamLock PROVE RemuxOK(r)'
    <2>1. dispatch.pc = "lock" /\ UNCHANGED <<stream, infoframe>> /\ dispatch.adding = Nobody
        BY <1>6, <1>15 DEF StreamLock, streamVars
    <2>2. dispatch.event \in Events /\ listeners[dispatch.event] \in SUBSET Remuxers
        BY <1>1, <2>1 DEF PhaseOK
    <2>3. \A x : ~HeaderComes(r, x)
        BY <2>1 DEF HeaderComes
    \* A player that does not listen yet races.
    <2>4. ASSUME dispatch.event = "addtrack", r \notin listeners["addtrack"], BrokenOK(r), ListensOK(r),
                 readyState[r] # "inactive", call[r].pc \notin {"metadata", "tracks"}
          PROVE  dispatch.track \in raced'[r]
        <3>1. mtx[r] # Nobody
            BY <2>4, EventsAre DEF ListensOK
        <3>2. PICK t \in Threads : call[t].remuxer = r /\ call[t].pc \in InSource \cup InClose
            BY <3>1, CallFacts
        <3>3. call[t].pc \in InSource /\ t = r
            BY <2>4, <3>2, CallFacts DEF BrokenOK, StatesOK, CallOK
        <3>4. Holding(r)
            BY <2>4, <3>3 DEF Holding, At, InSource
        <3> QED
            BY <1>15, <2>4, <3>4 DEF StreamLock
    <2>5. CASE listeners[dispatch.event] = {}
        <3>1. Dispatched
            BY <1>15, <2>5 DEF StreamLock
        <3>2. dispatch'.adding = Nobody /\ dispatch'.pc \in {"idle", "stop"}
            BY <1>13, <2>1, <3>1, QuietIs
        <3>3. \A x \in Tracks : ~Pending(r, x)'
            BY <3>2 DEF Pending, Dispatching
        <3>4. \A x \in Tracks : Pending(r, x) => dispatch.event = "addtrack" /\ dispatch.track = x
            BY DEF Pending, Dispatching
        <3> QED
            BY <1>3, <2>1, <2>3, <2>4, <2>5, <3>2, <3>3, <3>4
    <2>6. CASE listeners[dispatch.event] # {}
        <3>1. /\ dispatch'.todo = listeners[dispatch.event] /\ dispatch'.pc = "run"
              /\ dispatch'.event = dispatch.event /\ dispatch'.track = dispatch.track
              /\ dispatch'.adding = Nobody
            BY <1>1, <1>15, <2>1, <2>2, <2>6, RunIs
        <3>2. \A x \in Tracks : Pending(r, x)' <=> Pending(r, x) /\ r \in listeners["addtrack"]
            BY <2>1, <3>1 DEF Pending, Dispatching
        <3>3. \A x \in Tracks : Pending(r, x) => dispatch.event = "addtrack" /\ dispatch.track = x
            BY DEF Pending, Dispatching
        <3> QED
            BY <1>2, <2>1, <2>3, <2>4, <3>1, <3>2, <3>3, PublishesKeeps
    <2> QED
        BY <2>5, <2>6
<1> QED
    BY <1>7, <1>8, <1>9, <1>10, <1>11, <1>12, <1>14, <1>15 DEF Publishes

-----------------------------------------------------------------------------
(* The remuxers: the handlers.                                             *)

\* The publisher tells r, which changes nothing of what it holds.
LEMMA HandlerKeeps ==
    ASSUME StreamOK, FreshOK, TagInv, RemuxInv, NEW r \in Remuxers, Mine(r), MyCalls(r), Onwards,
           dispatch \in Dispatch,
           raced'[r] = raced[r], UNCHANGED <<heard, unheard, tag>>, dispatch.adding = Nobody, dispatch'.adding = Nobody,
           dispatch.pc = "run",
           \A x \in Tracks : Wants(r, x) => ~Pending(r, x),
           r \in panics' => r \in panics \/ raced[r] # {}
    PROVE  RemuxOK(r)'
<1>1. RemuxOK(r) /\ r # Nobody /\ stream \in MediaStreams
    BY Actors DEF RemuxInv, StreamOK
<1>2. /\ dispatch'.pc = dispatch.pc /\ dispatch'.event = dispatch.event /\ dispatch'.track = dispatch.track
      /\ dispatch'.todo \subseteq dispatch.todo
      /\ UNCHANGED <<stream, infoframe>>
    BY OnwardsIs
<1>3. \A x \in Tracks : Pending(r, x)' => Pending(r, x)
    BY <1>2 DEF Pending, Dispatching
<1>4. TracksOf(stream) \subseteq Tracks
    BY <1>1, StreamShape
<1>5. BrokenOK(r)'
    BY <1>1, <1>3, BrokenStays DEF RemuxOK
<1>6. Crippled(r)' <=> Crippled(r)
    BY CrippledIs DEF Mine
<1>7. ASSUME SoundOK(r) PROVE SoundOK(r)'
    <2>1. ListensOK(r)'
        BY <1>1, <1>7, ListensStays DEF SoundOK
    <2>2. SinksOK(r)'
        BY <1>7, SinksStays DEF SoundOK
    <2>3. AttachedOK(r)'
        <3>1. /\ Attaching(r)' = Attaching(r) /\ AttachedOK(r)
            BY <1>7 DEF Attaching, MyCalls, SoundOK
        <3> QED
            BY <1>1, <1>2, <1>4, <3>1 DEF AttachedOK, Mine, MyCalls, Wants
    <2>4. \A x : ~HeaderComes(r, x)
        BY DEF HeaderComes
    <2>5. HeardOK(r)'
        BY <1>2, <1>7, <2>4, HeardStays DEF SoundOK
    <2> QED
        BY <2>1, <2>2, <2>3, <2>5 DEF SoundOK
<1> QED
    BY <1>1, <1>5, <1>6, <1>7 DEF RemuxOK

LEMMA ToldOK ==
    ASSUME CallsOK, DispatchOK, StreamOK, FreshOK, TagInv, RemuxInv, NEW r \in Remuxers,
           OnRemoveTrackPanic(r) \/ OnData(r) \/ OnEnd(r)
    PROVE  RemuxOK(r)'
<1>1. /\ dispatch.pc = "run" /\ dispatch.event # "addtrack" /\ dispatch.adding = Nobody
      /\ call[Publisher].pc = "idle"
    BY DEF OnRemoveTrackPanic, OnData, OnEnd, Running, At
<1>2. /\ UNCHANGED <<own, readyState, source, mtx, using, listeners, sinks, raced, heard, unheard, tag>>
    BY DEF OnRemoveTrackPanic, OnData, OnEnd, tableVars, remuxVars, historyVars
<1>3. Onwards /\ dispatch \in Dispatch
    BY DEF Onwards, DispatchOK
<1>4. Mine(r)
    BY <1>2 DEF Mine
<1>5. MyCalls(r)
    <2>1. CASE UNCHANGED call
        BY <2>1 DEF MyCalls
    <2>2. CASE OnEnd(r)
        <3>1. call' = [call EXCEPT ![Publisher] = IF readyState[r] = "inactive" THEN Idle
                                     ELSE [pc |-> "lock", remuxer |-> r, left |-> <<>>]]
            BY <2>2 DEF OnEnd, BeginClose
        <3>2. ASSUME NEW c, c = (IF readyState[r] = "inactive" THEN Idle
                                 ELSE [pc |-> "lock", remuxer |-> r, left |-> <<>>])
              PROVE  c.pc \in {"idle", "lock"}
            BY <3>2 DEF Idle
        <3>3. /\ call'[Publisher].pc \in {"idle", "lock"}
              /\ \A u \in Threads : u # Publisher => call'[u] = call[u]
            BY <3>1, <3>2, CallFacts, Actors
        <3>4. r \in Threads /\ r # Publisher
            BY Actors
        <3> QED
            BY <3>3, <3>4 DEF MyCalls, InClose
    <2> QED
        BY <2>1, <2>2 DEF OnRemoveTrackPanic, OnData
<1>6. dispatch'.adding = Nobody
    <2>1. dispatch' = Ran(r) \/ dispatch' = [dispatch EXCEPT !.todo = {}]
        BY DEF OnRemoveTrackPanic, OnData, OnEnd
    <2> QED
        BY <1>1, <1>3, <2>1, RanIs, NoneLeft
<1>7. \A x \in Tracks : ~Pending(r, x)
    BY <1>1 DEF Pending, Dispatching
<1>8. r \in panics' => r \in panics \/ raced[r] # {}
    <2>1. CASE UNCHANGED panics
        BY <2>1
    <2>2. CASE OnRemoveTrackPanic(r)
        <3>1. Attached(own[r], NoSource) # {}
            BY <2>2 DEF OnRemoveTrackPanic
        <3>2. Crippled(r)
            BY <3>1 DEF Attached, Crippled, Entries
        <3> QED
            BY <3>2 DEF RemuxInv, RemuxOK, BrokenOK, CrippledOK
    <2> QED
        BY <2>1, <2>2 DEF OnData, OnEnd, historyVars
<1> QED
    BY <1>1, <1>2, <1>3, <1>4, <1>5, <1>6, <1>7, <1>8, HandlerKeeps

\* A new track is cloned, or not wanted.
LEMMA AddTrackOK ==
    ASSUME CallsOK, DispatchOK, StreamOK, FreshOK, TagInv, RemuxInv, NEW r \in Remuxers, OnAddTrack(r)
    PROVE  RemuxOK(r)'
<1> DEFINE x == dispatch.track
<1>1. /\ dispatch.pc = "run" /\ dispatch.event = "addtrack" /\ dispatch.adding = Nobody
      /\ r \in dispatch.todo
    BY DEF OnAddTrack, Running
<1>2. dispatch \in Dispatch /\ x \in Tracks /\ r \in listeners["addtrack"] /\ own[r] \in MediaStreams
      /\ unheard[r] \subseteq Tracks /\ stream \in MediaStreams
    BY <1>1 DEF DispatchOK, PhaseOK, TodoOK, Dispatching, FreshOK, RemuxInv, RemuxTypes, StreamOK
<1>3. Pending(r, x)
    BY <1>1 DEF Pending, Dispatching
<1>4. BrokenOK(r) /\ (Crippled(r) \/ SoundOK(r)) /\ (r \in panics => raced[r] # {})
    BY DEF RemuxInv, RemuxOK
<1>5. x \notin Sources(own[r]) \cup Attaching(r)
    BY <1>2, <1>3, <1>4 DEF BrokenOK, PendingOK
<1>6. Attached(own[r], x) = {}
    BY <1>5 DEF Attached, Sources
<1>7. Onwards
    BY DEF Onwards
<1>8. /\ dispatch'.pc = dispatch.pc /\ dispatch'.event = dispatch.event /\ dispatch'.track = dispatch.track
      /\ UNCHANGED <<stream, infoframe>>
    BY <1>2, <1>7, OnwardsIs
<1>9. CASE ~Wants(r, x)
    <2>1. /\ UNCHANGED <<own, readyState, source, mtx, using, listeners, sinks, raced, heard, unheard, tag,
                        call, panics>>
          /\ dispatch' = Ran(r)
        BY <1>9 DEF OnAddTrack, tableVars
    <2>2. Mine(r) /\ MyCalls(r)
        BY <2>1 DEF Mine, MyCalls
    <2>3. dispatch'.adding = Nobody
        BY <1>1, <1>2, <2>1, RanIs
    <2>4. \A y \in Tracks : Wants(r, y) => ~Pending(r, y)
        BY <1>9 DEF Pending
    <2> QED
        BY <1>1, <1>2, <1>7, <2>1, <2>2, <2>3, <2>4, HandlerKeeps
<1>10. CASE Wants(r, x)
    <2>1. /\ own'[r] = NewTrack(own[r], x, x) /\ unheard'[r] = unheard[r] \cup (infoframe \cap {x})
          /\ dispatch' = [Ran(r) EXCEPT !.adding = r]
        <3>1. /\ own' = [own EXCEPT ![r] = NewTrack(@, x, x)]
              /\ unheard' = [unheard EXCEPT ![r] = @ \cup (infoframe \cap {x})]
              /\ dispatch' = [Ran(r) EXCEPT !.adding = r]
            BY <1>6, <1>10 DEF OnAddTrack
        <3> QED
            BY <3>1 DEF FreshOK, RemuxInv, RemuxTypes
    <2>2. UNCHANGED <<readyState, source, mtx, using, listeners, sinks, raced, heard, tag, call, panics, stream,
                      infoframe>>
        BY <1>10 DEF OnAddTrack, tableVars, streamVars
    <2>3. dispatch'.adding = r /\ dispatch'.todo = dispatch.todo \ {r}
        BY <1>2, <2>1, AddingIs
    <2>4. /\ Sources(own'[r]) = Sources(own[r]) \cup {x}
          /\ ClonesOK(own[r]) => ClonesOK(own'[r])
        <3>1. x \in Tracks \cup {NoSource} /\ x \in {x, NoSource}
            BY <1>2
        <3> HIDE DEF x
        <3> QED
            BY <1>2, <2>1, <3>1, NewTrackSets, NewTrackFacts
    <2>5. \A y \in Tracks : ~Pending(r, y)'
        BY <1>1, <1>8, <2>3 DEF Pending
    <2>6. Crippled(r)' <=> Crippled(r)
        BY <1>2, <2>4, CrippledIs, Actors
    <2>7. BrokenOK(r)'
        <3>1. ClonesOK(own[r]) /\ CrippledOK(r) /\ StatesOK(r)
            BY <1>4 DEF BrokenOK
        <3>2. CrippledOK(r)'
            BY <2>2, <2>6, <3>1 DEF CrippledOK
        <3>3. StatesOK(r)'
            BY <2>2, <3>1 DEF StatesOK
        <3> QED
            BY <2>4, <2>5, <3>1, <3>2, <3>3 DEF BrokenOK, PendingOK
    <2>8. ASSUME SoundOK(r) PROVE SoundOK(r)'
        <3>1. ListensOK(r) /\ SinksOK(r) /\ AttachedOK(r) /\ HeardOK(r)
            BY <2>8 DEF SoundOK
        <3>2. ListensOK(r)'
            BY <1>2, <1>8, <2>2, <2>3, <2>4, <3>1, EventsAre DEF ListensOK
        <3>3. SinksOK(r)'
            BY <2>2, <2>4, <3>1 DEF SinksOK
        <3>4. AttachedOK(r)'
            <4>1. Attaching(r)' = Attaching(r)
                BY <2>2 DEF Attaching
            <4>2. \A y \in Tracks : Pending(r, y) => y = x
                BY DEF Pending
            <4>3. TracksOf(stream) \subseteq Tracks
                BY <1>2, StreamShape
            <4> QED
                BY <1>1, <1>8, <2>2, <2>3, <3>1, <4>1, <4>2, <4>3, Actors DEF AttachedOK, Wants
        <3>5. HeardOK(r)'
            <4>1. \A y : ~HeaderComes(r, y)
                BY <1>1 DEF HeaderComes
            <4> QED
                BY <2>1, <2>2, <2>4, <3>1, <4>1 DEF HeardOK
        <3> QED
            BY <3>2, <3>3, <3>4, <3>5 DEF SoundOK
    <2> QED
        BY <1>4, <2>2, <2>6, <2>7, <2>8 DEF RemuxOK
<1> QED
    BY <1>9, <1>10

\* The clone is attached to its source, unless the remuxer was closed.
LEMMA AddTrackSinkOK ==
    ASSUME CallsOK, DispatchOK, StreamOK, FreshOK, TagInv, RemuxInv, NEW r \in Remuxers,
           OnAddTrackSink, dispatch.adding = r
    PROVE  RemuxOK(r)'
<1> DEFINE x == dispatch.track
<1>1. /\ dispatch \in Dispatch /\ dispatch.pc = "run" /\ dispatch.event = "addtrack" /\ r # Nobody
      /\ r \notin dispatch.todo
    BY Actors DEF DispatchOK, TodoOK
<1>2. x \in Tracks /\ sinks \in [Tracks -> SUBSET Remuxers] /\ raced \in [Remuxers -> SUBSET Tracks]
    BY <1>1 DEF DispatchOK, PhaseOK, Dispatching, RemuxInv, RemuxTypes
<1>3. /\ \A y \in Tracks : r \in sinks'[y] <=> r \in sinks[y] \/ y = x
      /\ raced'[r] = IF readyState[r] = "inactive" THEN raced[r] \cup {x} ELSE raced[r]
      /\ UNCHANGED <<own, readyState, source, mtx, using, listeners, heard, unheard, tag, call, panics, stream,
                     infoframe>>
    BY <1>2 DEF OnAddTrackSink, remuxVars, streamVars
<1>4. /\ dispatch'.pc = dispatch.pc /\ dispatch'.event = dispatch.event /\ dispatch'.track = dispatch.track
      /\ dispatch'.adding = Nobody /\ dispatch'.todo = dispatch.todo
    BY <1>1, WithAdding DEF OnAddTrackSink
<1>5. BrokenOK(r) /\ (Crippled(r) \/ SoundOK(r)) /\ (r \in panics => raced[r] # {})
    BY DEF RemuxInv, RemuxOK
<1>6. \A y \in Tracks : ~Pending(r, y) /\ ~Pending(r, y)'
    BY <1>1, <1>4 DEF Pending
<1>7. Crippled(r)' <=> Crippled(r)
    BY <1>3, CrippledIs
<1>8. Attaching(r)' = Attaching(r) /\ raced[r] \subseteq raced'[r]
    BY <1>3 DEF Attaching
<1>9. BrokenOK(r)'
    BY <1>3, <1>5, <1>6, <1>7, <1>8 DEF BrokenOK, CrippledOK, StatesOK, PendingOK
<1>10. ASSUME SoundOK(r) PROVE SoundOK(r)'
    <2>1. ListensOK(r) /\ SinksOK(r) /\ AttachedOK(r) /\ HeardOK(r)
        BY <1>10 DEF SoundOK
    <2>2. ListensOK(r)'
        BY <1>1, <1>3, <1>4, <2>1 DEF ListensOK
    <2>3. SinksOK(r)'
        <3>1. ASSUME readyState[r] # "inactive", NEW t \in Threads, call[t].remuxer = r
              PROVE  call[t].pc \notin {"unsink", "unlisten"}
            BY <1>5, <3>1 DEF BrokenOK, StatesOK, InClose
        <3>2. x \in Sources(own[r])
            BY <2>1 DEF ListensOK
        <3> QED
            BY <1>2, <1>3, <2>1, <3>1, <3>2 DEF SinksOK
    <2>4. AttachedOK(r)'
        <3>1. TracksOf(stream) \subseteq Tracks
            BY StreamShape DEF StreamOK
        <3> QED
            BY <1>3, <1>4, <1>6, <1>8, <2>1, <3>1 DEF AttachedOK, Wants
    <2>5. HeardOK(r)'
        <3>1. \A y : ~HeaderComes(r, y)
            BY <1>1 DEF HeaderComes
        <3> QED
            BY <1>3, <2>1, <3>1 DEF HeardOK
    <2> QED
        BY <2>2, <2>3, <2>4, <2>5 DEF SoundOK
<1> QED
    BY <1>3, <1>5, <1>7, <1>8, <1>9, <1>10 DEF RemuxOK

\* The clone of a track that is removed leaves its source.
LEMMA RemoveTrackOK ==
    ASSUME CallsOK, DispatchOK, StreamOK, FreshOK, TagInv, RemuxInv, NEW r \in Remuxers, OnRemoveTrack(r)
    PROVE  RemuxOK(r)'
<1> DEFINE x == Removed
           clones == Attached(own[r], x)
<1>1. /\ dispatch.pc = "run" /\ dispatch.event = "removetrack" /\ dispatch.adding = Nobody
      /\ r \in dispatch.todo /\ dispatch' = Ran(r)
    BY DEF OnRemoveTrack, Running
<1>2. dispatch \in Dispatch /\ r \in listeners["removetrack"] /\ own \in [Remuxers -> MediaStreams]
      /\ sinks \in [Tracks -> SUBSET Remuxers] /\ dispatch.track \in Tracks
    BY <1>1 DEF DispatchOK, PhaseOK, TodoOK, Dispatching, FreshOK
<1>3. Onwards
    BY DEF Onwards
<1>4. dispatch'.adding = Nobody
    BY <1>1, <1>2, RanIs
<1>5. \A y \in Tracks : ~Pending(r, y) /\ ~Pending(r, y)'
    <2>1. dispatch'.event = dispatch.event
        BY <1>2, <1>3, OnwardsIs
    <2> QED
        BY <1>1, <2>1 DEF Pending, Dispatching
<1>6. UNCHANGED <<readyState, source, mtx, using, listeners, raced, heard, unheard, tag, call, panics, stream,
                  infoframe>>
    BY DEF OnRemoveTrack, historyVars, streamVars
<1>7. CASE clones = {}
    <2>1. UNCHANGED <<own, sinks>>
        BY <1>7 DEF OnRemoveTrack
    <2>2. Mine(r) /\ MyCalls(r)
        BY <1>6, <2>1 DEF Mine, MyCalls
    <2> QED
        BY <1>1, <1>2, <1>3, <1>4, <1>5, <1>6, <2>2, HandlerKeeps
<1>8. CASE clones # {}
    <2>1. /\ x # NoSource /\ sinks' = [sinks EXCEPT ![x] = @ \ {r}]
          /\ own' = [own EXCEPT ![r] = RemoveTrack(@, First(clones))]
        BY <1>8 DEF OnRemoveTrack
    <2>2. x = dispatch.track /\ x \notin stopped /\ x \in Tracks
        BY <1>2, <2>1 DEF Removed
    <2>3. x \notin TracksOf(stream)
        BY <1>1, <2>2 DEF StreamOK, Closing, Dispatching
    <2>4. clones \subseteq DOMAIN own[r].tracks /\ \A i \in clones : own[r].tracks[i].source = x
        BY DEF Attached
    <2> HIDE DEF clones, x
    <2> DEFINE i == First(clones)
    <2>5. i \in DOMAIN own[r].tracks /\ own[r].tracks[i].source = x
        <3>1. clones # {} /\ own[r] \in MediaStreams
            BY <1>2, <1>8
        <3>2. i \in clones
            BY <2>4, <3>1, FirstMatches
        <3> QED
            BY <2>4, <3>2
    <2>6. own'[r] = RemoveTrack(own[r], i) /\ own[r] \in MediaStreams
        BY <1>2, <2>1
    <2> HIDE DEF i
    <2>7. /\ Sources(own'[r]) \subseteq Sources(own[r]) /\ Sources(own[r]) \subseteq Sources(own'[r]) \cup {x}
          /\ ClonesOK(own[r]) => ClonesOK(own'[r])
        BY <2>5, <2>6, RemoveTrackFacts
    <2>8. \A y \in Tracks : r \in sinks'[y] <=> r \in sinks[y] /\ y # x
        BY <1>2, <2>1, <2>2
    <2>9. BrokenOK(r) /\ (Crippled(r) \/ SoundOK(r)) /\ (r \in panics => raced[r] # {})
        BY DEF RemuxInv, RemuxOK
    <2>10. Crippled(r)' <=> Crippled(r)
        BY <2>1, <2>7, CrippledIs
    <2>11. BrokenOK(r)'
        <3>1. ClonesOK(own[r]) /\ CrippledOK(r) /\ StatesOK(r)
            BY <2>9 DEF BrokenOK
        <3>2. CrippledOK(r)'
            BY <1>6, <2>10, <3>1 DEF CrippledOK
        <3>3. StatesOK(r)'
            BY <1>6, <3>1 DEF StatesOK
        <3> QED
            BY <1>5, <2>7, <3>1, <3>2, <3>3 DEF BrokenOK, PendingOK
    <2>12. ASSUME SoundOK(r) PROVE SoundOK(r)'
        <3>1. ListensOK(r) /\ SinksOK(r) /\ AttachedOK(r) /\ HeardOK(r)
            BY <2>12 DEF SoundOK
        <3>2. "removetrack" \in Events /\ r # Nobody
            BY EventsAre, Actors
        <3>3. ~(mtx[r] = Nobody /\ readyState[r] = "inactive")
              /\ call[r].pc \notin {"metadata", "tracks", "attach", "sink"}
            BY <1>2, <3>1, <3>2 DEF ListensOK
        <3>4. ListensOK(r)'
            BY <1>4, <1>6, <3>1, <3>2, <3>3 DEF ListensOK
        <3>5. SinksOK(r)'
            BY <1>6, <2>7, <2>8, <3>1 DEF SinksOK
        <3>6. AttachedOK(r)'
            <4>1. TracksOf(stream) \subseteq Tracks /\ Attaching(r)' = Attaching(r)
                BY <1>6, StreamShape DEF StreamOK, Attaching
            <4> QED
                BY <1>1, <1>5, <1>6, <2>3, <2>8, <3>1, <3>2, <4>1 DEF AttachedOK, Wants
        <3>7. HeardOK(r)'
            <4>1. \A y : ~HeaderComes(r, y)
                BY <1>1 DEF HeaderComes
            <4> QED
                BY <1>6, <2>7, <3>1, <4>1 DEF HeardOK
        <3> QED
            BY <3>4, <3>5, <3>6, <3>7 DEF SoundOK
    <2> QED
        BY <1>6, <2>9, <2>10, <2>11, <2>12 DEF RemuxOK
<1> QED
    BY <1>7, <1>8

\* A packet leaves a remuxer active or not.
LEMMA PumpStays ==
    ASSUME TagInv, dispatch \in Dispatch, dispatch.pc = "packet", NEW r \in Remuxers, Pump(r),
           UNCHANGED <<own, source, mtx, using, listeners, sinks, call>>
    PROVE  Mine(r) /\ MyCalls(r)
<1>1. readyState'[r] = "inactive" <=> readyState[r] = "inactive"
    BY PumpIs DEF Starts
<1> QED
    BY <1>1 DEF Mine, MyCalls

\* What a packet, taken or not, leaves of a sound remuxer.
LEMMA PacketKeeps ==
    ASSUME CallsOK, DispatchOK, StreamOK, TagInv, RemuxInv, NEW r \in Remuxers,
           dispatch.pc = "packet", OnPacket(r) \/ OnPacketPanic(r)
    PROVE  /\ BrokenOK(r)' /\ (Crippled(r)' <=> Crippled(r))
           /\ SoundOK(r) => ListensOK(r)' /\ SinksOK(r)' /\ AttachedOK(r)'
<1>1. dispatch \in Dispatch /\ TodoOK
    BY DEF DispatchOK
<1>2. /\ Pump(r) /\ UNCHANGED <<own, source, mtx, using, listeners, sinks, call, raced, stream>>
      /\ dispatch' = Ran(r) \/ dispatch' = [dispatch EXCEPT !.todo = {}]
    BY DEF OnPacket, OnPacketPanic, tableVars, streamVars
<1>3. Mine(r) /\ MyCalls(r)
    BY <1>1, <1>2, PumpStays
<1>4. dispatch.adding = Nobody /\ dispatch'.adding = Nobody /\ dispatch'.pc = "packet"
    BY <1>1, <1>2, RanIs, NoneLeft DEF TodoOK
<1>5. \A x \in Tracks : ~Pending(r, x) /\ ~Pending(r, x)'
    BY <1>4 DEF Pending, Dispatching
<1>6. BrokenOK(r)'
    BY <1>2, <1>3, <1>5, BrokenStays DEF RemuxInv, RemuxOK
<1>7. Crippled(r)' <=> Crippled(r)
    BY <1>2, CrippledIs
<1>8. ASSUME SoundOK(r) PROVE ListensOK(r)' /\ SinksOK(r)' /\ AttachedOK(r)'
    <2>1. TracksOf(stream) \subseteq Tracks /\ r # Nobody
        BY StreamShape, Actors DEF StreamOK
    <2>2. ListensOK(r)'
        BY <1>3, <1>4, <1>8, <2>1, ListensStays DEF SoundOK
    <2>3. SinksOK(r)'
        BY <1>2, <1>3, <1>8, SinksStays DEF SoundOK
    <2>4. AttachedOK(r)'
        BY <1>2, <1>3, <1>4, <1>5, <1>8, <2>1, AttachedStays DEF SoundOK
    <2> QED
        BY <2>2, <2>3, <2>4
<1> QED
    BY <1>6, <1>7, <1>8

\* A remuxer that listens to a source has a clone to give its packets to,
\* unless the source raced or the remuxer is crippled.
LEMMA PacketPanicOK ==
    ASSUME CallsOK, DispatchOK, StreamOK, FreshOK, TagInv, RemuxInv, NEW r \in Remuxers, OnPacketPanic(r)
    PROVE  RemuxOK(r)'
<1> DEFINE x == dispatch.track
<1>1. /\ dispatch.pc = "packet" /\ r \in dispatch.todo /\ Panics(r)
      /\ dispatch' = [dispatch EXCEPT !.todo = {}]
      /\ UNCHANGED <<own, raced, heard, tag, infoframe>>
    BY DEF OnPacketPanic, Taking, streamVars
<1>2. dispatch \in Dispatch /\ x \in Tracks /\ r \in sinks[x] /\ own[r] \in MediaStreams
    BY <1>1 DEF DispatchOK, PhaseOK, TodoOK, FreshOK
<1>3. BrokenOK(r) /\ (Crippled(r) \/ SoundOK(r)) /\ RemuxTypes
    BY DEF RemuxInv, RemuxOK
<1>4. /\ BrokenOK(r)' /\ (Crippled(r)' <=> Crippled(r))
      /\ SoundOK(r) => ListensOK(r)' /\ SinksOK(r)' /\ AttachedOK(r)'
    BY <1>1, PacketKeeps
<1>5. raced[r] # {}
    <2>1. CASE Crippled(r)
        BY <1>3, <2>1 DEF BrokenOK, CrippledOK
    <2>2. CASE x \in raced[r]
        BY <2>2
    <2>3. CASE SoundOK(r) /\ x \notin raced[r]
        <3>1. x \in Sources(own[r])
            BY <1>2, <2>3 DEF SoundOK, SinksOK
        <3>2. PICK i \in DOMAIN own[r].tracks : own[r].tracks[i].source = x
            BY <3>1 DEF Sources
        <3>3. own[r].tracks[i].track = x
            BY <1>2, <1>3, <3>2, Actors DEF BrokenOK, ClonesOK
        <3>4. Chosen(r) # {} /\ Chosen(r) \subseteq DOMAIN own[r].tracks
            BY <3>3 DEF Chosen, OfKind
        <3>5. FirstSource(r) = NoSource
            BY <1>1, <3>4 DEF Panics
        <3>6. First(Chosen(r)) \in DOMAIN own[r].tracks
            BY <1>2, <3>4, FirstMatches
        <3>7. Crippled(r)
            BY <3>5, <3>6 DEF FirstSource, Crippled, Entries
        <3> QED
            BY <1>3, <3>7 DEF BrokenOK, CrippledOK
    <2> QED
        BY <1>3, <2>1, <2>2, <2>3
<1>6. ASSUME SoundOK(r) PROVE HeardOK(r)'
    <2>1. Mine(r)
        <3>1. Pump(r) /\ UNCHANGED <<own, source, mtx, using, listeners, sinks, call>>
            BY DEF OnPacketPanic, tableVars
        <3> QED
            BY <1>1, <1>2, <3>1, PumpStays
    <2>2. unheard[r] \subseteq unheard'[r] /\ \A y \in Tracks : HeaderComes(r, y) => y \in unheard'[r]
        BY <1>3 DEF OnPacketPanic, HeaderComes, RemuxTypes
    <2>3. infoframe \subseteq Tracks /\ HeardOK(r)
        BY <1>6 DEF FreshOK, SoundOK
    <2> QED
        BY <1>1, <2>1, <2>2, <2>3, HeardStays
<1> QED
    BY <1>1, <1>3, <1>4, <1>5, <1>6 DEF RemuxOK, SoundOK

LEMMA PacketOK ==
    ASSUME CallsOK, DispatchOK, StreamOK, FreshOK, TagInv, RemuxInv, NEW r \in Remuxers, OnPacket(r)
    PROVE  RemuxOK(r)'
<1> DEFINE x == dispatch.track
<1>1. /\ dispatch.pc = "packet" /\ r \in dispatch.todo /\ ~Panics(r) /\ dispatch' = Ran(r) /\ Pump(r)
      /\ UNCHANGED <<own, raced, infoframe, panics>>
    BY DEF OnPacket, Taking, streamVars
<1>2. dispatch \in Dispatch /\ x \in Tracks /\ own[r] \in MediaStreams
    BY <1>1 DEF DispatchOK, PhaseOK, FreshOK
<1>3. (Crippled(r) \/ SoundOK(r)) /\ RemuxTypes /\ TagTypes /\ (r \in panics => raced[r] # {})
    BY DEF RemuxInv, RemuxOK, TagInv
<1>4. /\ BrokenOK(r)' /\ (Crippled(r)' <=> Crippled(r))
      /\ SoundOK(r) => ListensOK(r)' /\ SinksOK(r)' /\ AttachedOK(r)'
    BY <1>1, PacketKeeps
<1>5. readyState'[r] = "inactive" <=> readyState[r] = "inactive"
    BY <1>1, <1>2, PumpIs DEF Starts
<1>6. /\ heard[r] \subseteq heard'[r] /\ unheard[r] \subseteq unheard'[r]
      /\ dispatch.packet = "header" => x \in heard'[r] \cup unheard'[r]
    <2>1. CASE Taken(r)
        BY <1>3, <2>1 DEF OnPacket, RemuxTypes
    <2>2. CASE ~Taken(r)
        BY <1>3, <2>2 DEF OnPacket, RemuxTypes
    <2> QED
        BY <2>1, <2>2
<1>7. ASSUME SoundOK(r) PROVE HeardOK(r)'
    <2>1. ASSUME readyState[r] # "inactive", NEW y \in Sources(own[r]) \cap infoframe
          PROVE  y \in heard'[r] \cup unheard'[r]
        <3>1. y \in heard[r] \cup unheard[r] \/ HeaderComes(r, y)
            BY <1>7, <2>1 DEF SoundOK, HeardOK
        <3>2. HeaderComes(r, y) => dispatch.packet = "header" /\ y = x
            BY DEF HeaderComes
        <3> QED
            BY <1>6, <3>1, <3>2
    <2>2. ASSUME tag'[r] # NoTag, tag'[r].first = tag'[r].track
          PROVE  tag'[r].track \in heard'[r] \cup unheard'[r]
        <3>1. CASE Taken(r)
            <4>1. /\ FirstSource(r) \in infoframe /\ readyState[r] # "inactive"
                  /\ tag' = [tag EXCEPT ![r] = format(x, FirstSource(r), dispatch.packet, dispatch.pts,
                                                      timeBase'[r])]
                BY <1>5, <3>1 DEF OnPacket, Taken
            <4>2. tag'[r] = format(x, FirstSource(r), dispatch.packet, dispatch.pts, timeBase'[r])
                BY <1>3, <4>1 DEF TagTypes
            <4>3. tag'[r].track = x /\ FirstSource(r) = x
                BY <2>2, <4>2, FormatIs
            <4>4. Chosen(r) # {} /\ Chosen(r) \subseteq DOMAIN own[r].tracks
                BY <1>1 DEF Panics, Chosen, OfKind
            <4>5. First(Chosen(r)) \in DOMAIN own[r].tracks
                BY <1>2, <4>4, FirstMatches
            <4>6. FirstSource(r) \in Sources(own[r])
                BY <4>5 DEF FirstSource, Sources
            <4> QED
                BY <2>1, <4>1, <4>3, <4>6
        <3>2. CASE ~Taken(r)
            <4>1. tag'[r] = tag[r]
                BY <3>2 DEF OnPacket
            <4> QED
                BY <1>6, <1>7, <2>2, <4>1 DEF SoundOK, HeardOK
        <3> QED
            BY <3>1, <3>2
    <2> QED
        BY <1>1, <1>5, <2>1, <2>2 DEF HeardOK
<1> QED
    BY <1>1, <1>3, <1>4, <1>7 DEF RemuxOK, SoundOK

-----------------------------------------------------------------------------
(* The remuxers: the player.                                               *)

\* Nobody is in Source or Close on a remuxer whose mutex is free, and nobody
\* but the holder on one that is not.
LEMMA Alone ==
    ASSUME CallsOK, NEW r \in Remuxers
    PROVE  /\ mtx[r] = Nobody => \A t \in Threads : call[t].remuxer = r => call[t].pc \notin InSource \cup InClose
           /\ \A t, u \in Threads : /\ call[t].remuxer = r /\ call[t].pc \in InSource \cup InClose
                                    /\ call[u].remuxer = r /\ call[u].pc \in InSource \cup InClose
                                    => t = u
           /\ call[r].pc \in InSource \cup InClose => mtx[r] = r /\ call[r].remuxer = r
           /\ call[r].pc # "idle" => call[r].remuxer = r
           /\ \A t \in Threads : call[t].remuxer = r /\ call[t].pc \in InSource => t = r
           /\ \A t \in Threads : call[t].remuxer = r /\ call[t].pc \in InSource \cup InClose => mtx[r] = t
           /\ r \in Threads
<1>1. /\ \A t \in Threads : CallOK(t)
      /\ \A t \in Threads : mtx[r] = t <=> call[t].remuxer = r /\ call[t].pc \in InSource \cup InClose
      /\ r \in Threads /\ Nobody \notin Threads
    BY CallFacts, Actors
<1>2. call[r].pc # "idle" => call[r].remuxer = r
    BY <1>1 DEF CallOK
<1>3. "idle" \notin InSource \cup InClose
    BY DEF InSource, InClose
<1>4. \A t \in Threads : call[t].remuxer = r /\ call[t].pc \in InSource => t = r
    BY <1>1 DEF CallOK
<1> QED
    BY <1>1, <1>2, <1>3, <1>4

\* Source begins.
LEMMA SourceOK ==
    ASSUME CallsOK, CallsOK', DispatchOK, StreamOK, FreshOK, TagInv, RemuxInv, NEW r \in Remuxers, Source(r)
    PROVE  RemuxOK(r)'
<1>1. /\ call[r].pc = "idle" /\ r \notin using /\ mtx[r] = Nobody
      /\ UNCHANGED <<own, listeners, sinks, raced, panics, dispatch, stream, infoframe>>
    BY DEF Source, At, tableVars, streamVars
<1>2. BrokenOK(r) /\ (Crippled(r) \/ SoundOK(r)) /\ (r \in panics => raced[r] # {})
      /\ RemuxTypes /\ TagTypes /\ r \in Threads /\ r # Nobody
    BY Actors DEF RemuxInv, RemuxOK, TagInv
<1>3. readyState[r] = "inactive"
    BY <1>1, <1>2 DEF BrokenOK, StatesOK
<1>4. /\ mtx'[r] = r /\ source'[r] = TRUE /\ readyState'[r] = "waiting" /\ r \in using'
      /\ tag'[r] = NoTag /\ call'[r].pc = "metadata" /\ call'[r].remuxer = r
      /\ \A t \in Threads : t # r => call'[t] = call[t]
    <2>1. call'[r].pc = "metadata" /\ call'[r].remuxer = r
        <3>1. call'[r] = [pc |-> "metadata", remuxer |-> r, left |-> <<>>]
            BY <1>2, CallFacts DEF Source
        <3> QED
            BY <3>1
    <2>2. mtx'[r] = r /\ source'[r] = TRUE /\ readyState'[r] = "waiting" /\ r \in using' /\ tag'[r] = NoTag
        BY <1>2, CallFacts DEF Source, Forget, RemuxTypes, TagTypes
    <2>3. \A t \in Threads : t # r => call'[t] = call[t]
        BY CallFacts DEF Source
    <2> QED
        BY <2>1, <2>2, <2>3
<1>5. \A t \in Threads : call'[t].remuxer = r => call'[t].pc \notin InClose
    BY <1>1, <1>4, Alone DEF InClose
<1>6. Attaching(r)' = {}
    BY <1>4 DEF Attaching
<1>7. Crippled(r)' <=> Crippled(r)
    BY <1>1, CrippledIs
<1>8. \A x \in Tracks : Pending(r, x)' <=> Pending(r, x)
    BY <1>1 DEF Pending, Dispatching
<1>9. BrokenOK(r)'
    <2>1. ClonesOK(own[r]) /\ CrippledOK(r) /\ PendingOK(r)
        BY <1>2 DEF BrokenOK
    <2>2. CrippledOK(r)'
        BY <1>1, <1>5, <1>7, <2>1 DEF CrippledOK, InClose
    <2>3. StatesOK(r)'
        BY <1>4, <1>5 DEF StatesOK
    <2>4. PendingOK(r)'
        BY <1>1, <1>6, <1>8, <2>1 DEF PendingOK
    <2> QED
        BY <1>1, <2>1, <2>2, <2>3, <2>4 DEF BrokenOK
<1>10. ASSUME SoundOK(r) PROVE SoundOK(r)'
    <2>1. ListensOK(r) /\ SinksOK(r)
        BY <1>10 DEF SoundOK
    <2>2. own[r] = EmptyStream /\ \A e \in Events : r \notin listeners[e]
        BY <1>1, <1>3, <2>1 DEF ListensOK
    <2>3. dispatch.adding # r
        BY <1>2, <2>2, EventsAre DEF DispatchOK, TodoOK
    <2>4. ListensOK(r)'
        BY <1>1, <1>2, <1>4, <1>5, <2>2, <2>3 DEF ListensOK, InClose
    <2>5. SinksOK(r)'
        BY <1>1, <1>5, <2>1 DEF SinksOK, InClose
    <2>6. AttachedOK(r)'
        BY <1>4 DEF AttachedOK
    <2>7. HeardOK(r)'
        BY <1>1, <1>4, <2>2, EmptyFacts DEF HeardOK
    <2> QED
        BY <2>4, <2>5, <2>6, <2>7 DEF SoundOK
<1> QED
    BY <1>1, <1>2, <1>7, <1>9, <1>10 DEF RemuxOK

\* A player that goes on in Source, or returns, breaks nothing.
LEMMA PlayerBroken ==
    ASSUME CallsOK, RemuxInv, NEW r \in Remuxers, SourceSteps(r), call[r].pc \in InSource,
           stream \in MediaStreams, call'[r].pc \in InSource \cup {"idle"},
           ClonesOK(own'[r]), Crippled(r)' => raced'[r] # {},
           \A x \in Tracks : Pending(r, x) => x \notin Sources(own'[r]) \cup Attaching(r)'
    PROVE  /\ BrokenOK(r)'
           /\ \A t \in Threads : call'[t].remuxer = r => call'[t].pc \notin InClose
           /\ readyState[r] # "inactive" /\ mtx[r] = r
           /\ UNCHANGED <<readyState, using, dispatch, stream, infoframe, tag>>
           /\ \A x \in Tracks : Pending(r, x)' <=> Pending(r, x)
<1>1. UNCHANGED <<readyState, using, dispatch, stream, infoframe, tag>>
    BY DEF SourceSteps, SourceMetadata, SourceTracks, SourceAttach, SourceAttachStopped, SourceSink,
           SourceListen, remuxVars, streamVars, historyVars
<1>2. r \in using /\ mtx[r] = r /\ r \in Threads /\ readyState[r] # "inactive"
    BY CallFacts, Alone DEF CallOK, RemuxInv, RemuxOK, BrokenOK, StatesOK
<1>3. \A t \in Threads : t # r => call'[t] = call[t]
    BY SourceMoves
<1>4. ASSUME NEW t \in Threads, call'[t].remuxer = r PROVE call'[t].pc \notin InClose
    <2>1. CASE t = r
        BY <2>1 DEF InSource, InClose
    <2>2. CASE t # r
        <3>1. call'[t] = call[t]
            BY <1>3, <2>2
        <3> QED
            BY <1>2, <1>4, <2>2, <3>1, Alone
    <2> QED
        BY <2>1, <2>2
<1>5. CrippledOK(r)'
    BY <1>4 DEF CrippledOK, InClose
<1>6. StatesOK(r)'
    BY <1>1, <1>2, <1>4 DEF StatesOK
<1>7. \A x \in Tracks : Pending(r, x)' <=> Pending(r, x)
    BY <1>1 DEF Pending, Dispatching
<1>8. PendingOK(r)'
    BY <1>7 DEF PendingOK
<1> QED
    BY <1>1, <1>2, <1>4, <1>5, <1>6, <1>7, <1>8 DEF BrokenOK

\* The metadata, and the tracks there are.
LEMMA MetadataOK ==
    ASSUME CallsOK, DispatchOK, StreamOK, FreshOK, TagInv, RemuxInv, NEW r \in Remuxers, SourceMetadata(r)
    PROVE  RemuxOK(r)'
<1>1. /\ call[r].pc = "metadata" /\ Goto(r, "tracks", <<>>)
      /\ UNCHANGED <<own, source, mtx, listeners, sinks, raced, heard, unheard, panics>>
    BY DEF SourceMetadata, At, tableVars
<1>2. BrokenOK(r) /\ (Crippled(r) \/ SoundOK(r)) /\ (r \in panics => raced[r] # {})
    BY DEF RemuxInv, RemuxOK
<1>3. /\ r \in Threads /\ stream \in MediaStreams /\ SourceSteps(r)
      /\ call[r].pc \in InSource
    BY <1>1, Actors DEF StreamOK, SourceSteps, InSource
<1>4. call'[r].pc = "tracks" /\ call'[r].pc \in InSource
    BY <1>1, <1>3, GotoFields DEF InSource
<1>5. Attaching(r)' = {} /\ Attaching(r) = {}
    BY <1>1, <1>4 DEF Attaching
<1>6. Crippled(r)' <=> Crippled(r)
    BY <1>1, CrippledIs
<1>7. ClonesOK(own'[r]) /\ (Crippled(r)' => raced'[r] # {})
    BY <1>1, <1>2, <1>6 DEF BrokenOK, CrippledOK
<1>8. \A x \in Tracks : Pending(r, x) => x \notin Sources(own'[r]) \cup Attaching(r)'
    BY <1>1, <1>2, <1>5 DEF BrokenOK, PendingOK
<1>9. /\ BrokenOK(r)'
      /\ \A t \in Threads : call'[t].remuxer = r => call'[t].pc \notin InClose
      /\ readyState[r] # "inactive" /\ mtx[r] = r
      /\ UNCHANGED <<readyState, using, dispatch, stream, infoframe, tag>>
    BY <1>3, <1>4, <1>7, <1>8, PlayerBroken
<1>10. ASSUME SoundOK(r) PROVE SoundOK(r)'
    <2>1. ListensOK(r) /\ SinksOK(r) /\ HeardOK(r)
        BY <1>10 DEF SoundOK
    <2>2. ListensOK(r)'
        BY <1>1, <1>4, <1>9, <2>1 DEF ListensOK, InClose
    <2>3. SinksOK(r)'
        BY <1>1, <1>9, <2>1 DEF SinksOK, InClose
    <2>4. AttachedOK(r)'
        BY <1>4 DEF AttachedOK
    <2>5. HeardOK(r)'
        <3>1. \A x : HeaderComes(r, x)' <=> HeaderComes(r, x)
            BY <1>9 DEF HeaderComes
        <3> QED
            BY <1>1, <1>9, <2>1, <3>1 DEF HeardOK
    <2> QED
        BY <2>2, <2>3, <2>4, <2>5 DEF SoundOK
<1> QED
    BY <1>1, <1>2, <1>6, <1>9, <1>10 DEF RemuxOK

\* What the tracks to attach become.
LEMMA AttachToMoves ==
    ASSUME CallsOK, NEW r \in Remuxers, NEW left \in Seq(Tracks), AttachTo(r, left)
    PROVE  /\ call'[r].pc \in {"listen", "attach"} /\ call'[r].remuxer = call[r].remuxer
           /\ call'[r].pc = "listen" => call'[r].left = StreamEvents
           /\ Attaching(r)' \subseteq ToSet(left)
           /\ \A x \in ToSet(left) : Wants(r, x) => x \in Attaching(r)'
<1>1. r \in Threads
    BY Actors
<1>2. \/ /\ Goto(r, "listen", StreamEvents)
         /\ \A x \in ToSet(left) : ~Wants(r, x)
      \/ \E rest \in Seq(Tracks) : /\ Goto(r, "attach", rest) /\ ToSet(rest) \subseteq ToSet(left)
                                   /\ \A x \in ToSet(left) : Wants(r, x) => x \in ToSet(rest)
    BY <1>1, AttachToIs
<1>3. ASSUME Goto(r, "listen", StreamEvents), \A x \in ToSet(left) : ~Wants(r, x)
      PROVE  /\ call'[r].pc = "listen" /\ call'[r].remuxer = call[r].remuxer
             /\ call'[r].left = StreamEvents /\ Attaching(r)' = {}
    <2>1. call'[r].pc = "listen" /\ call'[r].remuxer = call[r].remuxer /\ call'[r].left = StreamEvents
        BY <1>1, <1>3, GotoFields, Zenon
    <2> QED
        BY <2>1 DEF Attaching
<1>4. ASSUME NEW rest \in Seq(Tracks), Goto(r, "attach", rest)
      PROVE  /\ call'[r].pc = "attach" /\ call'[r].remuxer = call[r].remuxer
             /\ Attaching(r)' = ToSet(rest)
    <2>1. call'[r].pc = "attach" /\ call'[r].remuxer = call[r].remuxer /\ call'[r].left = rest
        BY <1>1, <1>4, GotoFields, Zenon
    <2> QED
        BY <2>1 DEF Attaching
<1>5. CASE /\ Goto(r, "listen", StreamEvents)
           /\ \A x \in ToSet(left) : ~Wants(r, x)
    BY <1>3, <1>5
<1>6. CASE \E rest \in Seq(Tracks) : /\ Goto(r, "attach", rest) /\ ToSet(rest) \subseteq ToSet(left)
                                     /\ \A x \in ToSet(left) : Wants(r, x) => x \in ToSet(rest)
    BY <1>4, <1>6
<1> QED
    BY <1>2, <1>5, <1>6

LEMMA TracksOK ==
    ASSUME CallsOK, DispatchOK, StreamOK, FreshOK, TagInv, RemuxInv, NEW r \in Remuxers, SourceTracks(r)
    PROVE  RemuxOK(r)'
<1> DEFINE left == [i \in DOMAIN stream.tracks |-> stream.tracks[i].track]
<1>1. /\ call[r].pc = "tracks" /\ streamMtx = Nobody /\ AttachTo(r, left)
      /\ UNCHANGED <<own, source, mtx, listeners, sinks, raced, heard, unheard, panics, stream>>
    BY DEF SourceTracks, At, tableVars, remuxVars, streamVars, historyVars
<1>2. BrokenOK(r) /\ (Crippled(r) \/ SoundOK(r)) /\ (r \in panics => raced[r] # {})
    BY DEF RemuxInv, RemuxOK
<1>3. /\ stream \in MediaStreams /\ SourceSteps(r) /\ call[r].pc \in InSource
      /\ left \in Seq(Tracks) /\ ToSet(left) = TracksOf(stream)
    BY <1>1, TracksSeq DEF StreamOK, SourceSteps, InSource
<1> HIDE DEF left
<1>4. /\ call'[r].pc \in {"listen", "attach"}
      /\ (call'[r].pc = "listen" => call'[r].left = StreamEvents)
      /\ Attaching(r)' \subseteq TracksOf(stream)
      /\ \A x \in TracksOf(stream) : Wants(r, x) => x \in Attaching(r)'
    BY <1>1, <1>3, AttachToMoves
<1>5. \A x \in Tracks : ~Pending(r, x)
    BY <1>1, Actors DEF StreamOK, Pending
<1>6. Crippled(r)' <=> Crippled(r)
    BY <1>1, CrippledIs
<1>7. ClonesOK(own'[r]) /\ (Crippled(r)' => raced'[r] # {})
    BY <1>1, <1>2, <1>6 DEF BrokenOK, CrippledOK
<1>8. call'[r].pc \in InSource \cup {"idle"}
    BY <1>4 DEF InSource
<1>9. /\ BrokenOK(r)'
      /\ \A t \in Threads : call'[t].remuxer = r => call'[t].pc \notin InClose
      /\ readyState[r] # "inactive" /\ mtx[r] = r
      /\ UNCHANGED <<readyState, using, dispatch, stream, infoframe, tag>>
    BY <1>3, <1>5, <1>7, <1>8, PlayerBroken
<1>10. ASSUME SoundOK(r) PROVE SoundOK(r)'
    <2>1. ListensOK(r) /\ SinksOK(r) /\ HeardOK(r)
        BY <1>10 DEF SoundOK
    <2>2. own[r] = EmptyStream /\ \A e \in Events : r \notin listeners[e]
        BY <1>1, <2>1 DEF ListensOK
    <2>3. ListensOK(r)'
        <3>1. dispatch.adding # r
            BY <2>2, Actors, EventsAre DEF DispatchOK, TodoOK
        <3>2. mtx'[r] # Nobody /\ source'[r]
            BY <1>1, <1>9, <2>1, Actors DEF ListensOK
        <3> QED
            BY <1>1, <1>4, <1>9, <2>2, <3>1, <3>2 DEF ListensOK, InClose, Events
    <2>4. SinksOK(r)'
        BY <1>1, <1>9, <2>1 DEF SinksOK, InClose
    <2>5. AttachedOK(r)'
        BY <1>1, <1>4 DEF AttachedOK, Wants
    <2>6. HeardOK(r)'
        <3>1. \A x : HeaderComes(r, x)' <=> HeaderComes(r, x)
            BY <1>9 DEF HeaderComes
        <3> QED
            BY <1>1, <1>9, <2>1, <3>1 DEF HeardOK
    <2> QED
        BY <2>3, <2>4, <2>5, <2>6 DEF SoundOK
<1> QED
    BY <1>1, <1>2, <1>6, <1>9, <1>10 DEF RemuxOK

\* The track at the head of those that are left.
LEMMA HeadIs ==
    ASSUME CallsOK, NEW r \in Remuxers, call[r].pc \in {"attach", "sink"}, NEW x, x = Head(call[r].left)
    PROVE  /\ call[r].left \in Seq(Tracks) /\ call[r].left # <<>> /\ x \in Tracks
           /\ x \in Attaching(r) /\ Attaching(r) = ToSet(call[r].left)
           /\ Tail(call[r].left) \in Seq(Tracks)
           /\ ToSet(call[r].left) = {x} \cup ToSet(Tail(call[r].left))
           /\ r \in Threads /\ call[r].pc \in InSource
<1>1. r \in Threads /\ CallOK(r)
    BY CallFacts, Actors
<1>2. call[r].left \in Seq(Tracks) /\ call[r].left # <<>>
    BY <1>1 DEF CallOK, LeftOK
<1>3. Attaching(r) = ToSet(call[r].left)
    BY DEF Attaching
<1>4. /\ Tail(call[r].left) \in Seq(Tracks) /\ x \in Tracks /\ x \in ToSet(call[r].left)
      /\ ToSet(call[r].left) = {x} \cup ToSet(Tail(call[r].left))
    BY <1>2, HeadAndTail
<1> QED
    BY <1>1, <1>2, <1>3, <1>4 DEF InSource

\* The next track is cloned, and its header sent.
LEMMA AttachOK ==
    ASSUME CallsOK, DispatchOK, StreamOK, FreshOK, TagInv, RemuxInv, NEW r \in Remuxers, SourceAttach(r)
    PROVE  RemuxOK(r)'
<1> DEFINE x == Head(call[r].left)
<1>1. /\ call[r].pc = "attach" /\ Goto(r, "sink", call[r].left)
      /\ own' = [own EXCEPT ![r] = NewTrack(@, x, x)]
      /\ heard' = [heard EXCEPT ![r] = @ \cup (infoframe \cap {x})]
      /\ UNCHANGED <<source, mtx, listeners, sinks, raced, unheard, panics>>
    BY DEF SourceAttach, At, tableVars
<1>2. BrokenOK(r) /\ (Crippled(r) \/ SoundOK(r)) /\ (r \in panics => raced[r] # {}) /\ own[r] \in MediaStreams
      /\ heard[r] \subseteq Tracks
    BY DEF RemuxInv, RemuxOK, RemuxTypes, FreshOK
<1>3. /\ r \in Threads /\ stream \in MediaStreams /\ SourceSteps(r) /\ call[r].pc \in InSource
      /\ x \in Tracks /\ x \in Attaching(r)
    BY <1>1, HeadIs DEF StreamOK, SourceSteps
<1>4. /\ call'[r].pc = "sink" /\ call'[r].pc \in InSource \cup {"idle"}
      /\ Attaching(r)' = Attaching(r) /\ Head(call'[r].left) = x
    <2>1. call'[r].pc = "sink" /\ call'[r].left = call[r].left
        BY <1>1, <1>3, GotoFields, Zenon
    <2> QED
        BY <1>1, <2>1 DEF Attaching, InSource
<1> HIDE DEF x
<1>5. /\ Sources(own'[r]) = Sources(own[r]) \cup {x} /\ (ClonesOK(own[r]) => ClonesOK(own'[r]))
    <2>1. own'[r] = NewTrack(own[r], x, x) /\ x \in Tracks \cup {NoSource} /\ x \in {x, NoSource}
        BY <1>1, <1>3 DEF FreshOK
    <2> QED
        BY <1>2, <1>3, <2>1, NewTrackSets, NewTrackFacts
<1>6. Crippled(r)' <=> Crippled(r)
    BY <1>3, <1>5, CrippledIs, Actors
<1>7. ClonesOK(own'[r]) /\ (Crippled(r)' => raced'[r] # {})
    BY <1>1, <1>2, <1>5, <1>6 DEF BrokenOK, CrippledOK
<1>8. \A y \in Tracks : Pending(r, y) => y \notin Sources(own'[r]) \cup Attaching(r)'
    BY <1>2, <1>3, <1>4, <1>5 DEF BrokenOK, PendingOK
<1>9. /\ BrokenOK(r)'
      /\ \A t \in Threads : call'[t].remuxer = r => call'[t].pc \notin InClose
      /\ readyState[r] # "inactive" /\ mtx[r] = r
      /\ UNCHANGED <<readyState, using, dispatch, stream, infoframe, tag>>
      /\ \A y \in Tracks : Pending(r, y)' <=> Pending(r, y)
    BY <1>3, <1>4, <1>7, <1>8, PlayerBroken
<1>10. ASSUME SoundOK(r) PROVE SoundOK(r)'
    <2>1. ListensOK(r) /\ SinksOK(r) /\ AttachedOK(r) /\ HeardOK(r)
        BY <1>10 DEF SoundOK
    <2>2. ListensOK(r)'
        BY <1>1, <1>4, <1>5, <1>9, <2>1, Actors DEF ListensOK, InClose
    <2>3. SinksOK(r)'
        BY <1>1, <1>5, <1>9, <2>1 DEF SinksOK, InClose
    <2>4. AttachedOK(r)'
        <3>1. TracksOf(stream) \subseteq Tracks
            BY <1>3, StreamShape
        <3> QED
            BY <1>1, <1>4, <1>9, <2>1, <3>1 DEF AttachedOK, Wants
    <2>5. HeardOK(r)'
        <3>1. \A y : HeaderComes(r, y)' <=> HeaderComes(r, y)
            BY <1>9 DEF HeaderComes
        <3>2. heard'[r] = heard[r] \cup (infoframe \cap {x})
            BY <1>1 DEF RemuxInv, RemuxTypes
        <3> QED
            BY <1>1, <1>5, <1>9, <2>1, <3>1, <3>2 DEF HeardOK
    <2> QED
        BY <2>2, <2>3, <2>4, <2>5 DEF SoundOK
<1> QED
    BY <1>1, <1>2, <1>6, <1>9, <1>10 DEF RemuxOK

\* A track that was stopped since cripples the remuxer.
LEMMA AttachStoppedOK ==
    ASSUME CallsOK, DispatchOK, StreamOK, FreshOK, TagInv, RemuxInv, NEW r \in Remuxers, SourceAttachStopped(r)
    PROVE  RemuxOK(r)'
<1> DEFINE x == Head(call[r].left)
<1>1. /\ call[r].pc = "attach" /\ Return(r)
      /\ own' = [own EXCEPT ![r] = NewTrack(@, x, NoSource)]
      /\ raced' = [raced EXCEPT ![r] = @ \cup {x}]
    BY DEF SourceAttachStopped, At
<1>2. BrokenOK(r) /\ own[r] \in MediaStreams /\ raced \in [Remuxers -> SUBSET Tracks]
    BY DEF RemuxInv, RemuxOK, RemuxTypes, FreshOK
<1>3. /\ r \in Threads /\ stream \in MediaStreams /\ SourceSteps(r) /\ call[r].pc \in InSource
      /\ x \in Tracks /\ x \in Attaching(r)
    BY <1>1, HeadIs DEF StreamOK, SourceSteps
<1>4. call'[r].pc = "idle" /\ call'[r].pc \in InSource \cup {"idle"} /\ Attaching(r)' = {}
    BY <1>1, <1>3, ReturnIs DEF Attaching
<1> HIDE DEF x
<1>5. /\ Sources(own'[r]) = Sources(own[r]) \cup {NoSource} /\ (ClonesOK(own[r]) => ClonesOK(own'[r]))
    <2>1. own'[r] = NewTrack(own[r], x, NoSource) /\ NoSource \in Tracks \cup {NoSource}
          /\ NoSource \in {x, NoSource}
        BY <1>1, <1>3 DEF FreshOK
    <2> QED
        BY <1>2, <1>3, <2>1, NewTrackSets, NewTrackFacts
<1>6. Crippled(r)' /\ raced'[r] # {}
    BY <1>1, <1>2, <1>5, CrippledIs
<1>7. ClonesOK(own'[r]) /\ (Crippled(r)' => raced'[r] # {})
    BY <1>2, <1>5, <1>6 DEF BrokenOK
<1>8. \A y \in Tracks : Pending(r, y) => y \notin Sources(own'[r]) \cup Attaching(r)'
    BY <1>2, <1>4, <1>5, Actors DEF BrokenOK, PendingOK
<1>9. BrokenOK(r)'
    BY <1>3, <1>4, <1>7, <1>8, PlayerBroken
<1> QED
    BY <1>6, <1>9 DEF RemuxOK

\* The clone is attached to its source.
LEMMA SinkOK ==
    ASSUME CallsOK, DispatchOK, StreamOK, FreshOK, TagInv, RemuxInv, NEW r \in Remuxers, SourceSink(r)
    PROVE  RemuxOK(r)'
<1> DEFINE x == Head(call[r].left)
           rest == Tail(call[r].left)
<1>1. /\ call[r].pc = "sink" /\ AttachTo(r, rest) /\ sinks' = [sinks EXCEPT ![x] = @ \cup {r}]
      /\ UNCHANGED <<own, source, mtx, listeners, raced, heard, unheard, panics>>
    BY DEF SourceSink, At, remuxVars, historyVars
<1>2. BrokenOK(r) /\ (Crippled(r) \/ SoundOK(r)) /\ (r \in panics => raced[r] # {})
    BY DEF RemuxInv, RemuxOK
<1>3. /\ r \in Threads /\ stream \in MediaStreams /\ SourceSteps(r) /\ call[r].pc \in InSource
      /\ x \in Tracks /\ rest \in Seq(Tracks) /\ Attaching(r) = {x} \cup ToSet(rest)
    BY <1>1, HeadIs DEF StreamOK, SourceSteps
<1> HIDE DEF x, rest
<1>4. /\ call'[r].pc \in {"listen", "attach"} /\ call'[r].pc \in InSource \cup {"idle"}
      /\ call'[r].pc = "listen" => call'[r].left = StreamEvents
      /\ Attaching(r)' \subseteq Attaching(r)
      /\ \A y \in Attaching(r) : y # x /\ Wants(r, y) => y \in Attaching(r)'
    BY <1>1, <1>3, AttachToMoves DEF InSource
<1>5. \A y \in Tracks : r \in sinks'[y] <=> r \in sinks[y] \/ y = x
    BY <1>1, <1>3 DEF DispatchOK
<1>6. Crippled(r)' <=> Crippled(r)
    BY <1>1, CrippledIs
<1>7. ClonesOK(own'[r]) /\ (Crippled(r)' => raced'[r] # {})
    BY <1>1, <1>2, <1>6 DEF BrokenOK, CrippledOK
<1>8. \A y \in Tracks : Pending(r, y) => y \notin Sources(own'[r]) \cup Attaching(r)'
    BY <1>1, <1>2, <1>4 DEF BrokenOK, PendingOK
<1>9. /\ BrokenOK(r)'
      /\ \A t \in Threads : call'[t].remuxer = r => call'[t].pc \notin InClose
      /\ readyState[r] # "inactive" /\ mtx[r] = r
      /\ UNCHANGED <<readyState, using, dispatch, stream, infoframe, tag>>
      /\ \A y \in Tracks : Pending(r, y)' <=> Pending(r, y)
    BY <1>3, <1>4, <1>7, <1>8, PlayerBroken
<1>10. ASSUME SoundOK(r) PROVE SoundOK(r)'
    <2>1. ListensOK(r) /\ SinksOK(r) /\ AttachedOK(r) /\ HeardOK(r)
        BY <1>10 DEF SoundOK
    <2>2. x \in Sources(own[r]) /\ (\A e \in Events : r \notin listeners[e]) /\ source[r]
        BY <1>1, <1>9, <2>1, Actors DEF ListensOK, x
    <2>3. ListensOK(r)'
        BY <1>1, <1>4, <1>9, <2>1, <2>2, Actors DEF ListensOK, InClose, Events
    <2>4. SinksOK(r)'
        BY <1>1, <1>5, <1>9, <2>1, <2>2 DEF SinksOK, InClose
    <2>5. AttachedOK(r)'
        <3>1. TracksOf(stream) \subseteq Tracks
            BY <1>3, StreamShape
        <3> QED
            BY <1>1, <1>4, <1>5, <1>9, <2>1, <3>1 DEF AttachedOK, Wants
    <2>6. HeardOK(r)'
        <3>1. \A y : HeaderComes(r, y)' <=> HeaderComes(r, y)
            BY <1>9 DEF HeaderComes
        <3> QED
            BY <1>1, <1>9, <2>1, <3>1 DEF HeardOK
    <2> QED
        BY <2>3, <2>4, <2>5, <2>6 DEF SoundOK
<1> QED
    BY <1>1, <1>2, <1>6, <1>9, <1>10 DEF RemuxOK

\* The only element.
LEMMA LastIs ==
    ASSUME NEW S, NEW s \in Seq(S), s # <<>>
    PROVE  /\ Len(s) = 1 => ToSet(Tail(s)) = {}
           /\ Tail(s) = <<>> => ToSet(Tail(s)) = {}
<1>1. /\ Tail(s) \in Seq(S)
      /\ Len(s) = 1 <=> Tail(s) = <<>>
    BY HeadAndTail
<1>2. ToSet(Tail(s)) = {} <=> Tail(s) = <<>>
    BY <1>1, SetOf
<1> QED
    BY <1>1, <1>2

\* The next event is listened to; with the last Source returns.
LEMMA ListenOK ==
    ASSUME CallsOK, DispatchOK, StreamOK, FreshOK, TagInv, RemuxInv, NEW r \in Remuxers, SourceListen(r)
    PROVE  RemuxOK(r)'
<1> DEFINE e == Head(call[r].left)
           rest == Tail(call[r].left)
<1>1. /\ call[r].pc = "listen" /\ listeners' = [listeners EXCEPT ![e] = @ \cup {r}]
      /\ \/ Len(call[r].left) = 1 /\ Return(r) /\ mtx' = [mtx EXCEPT ![r] = Nobody]
         \/ Goto(r, "listen", rest) /\ UNCHANGED mtx
      /\ UNCHANGED <<own, source, sinks, raced, heard, unheard, panics>>
    BY DEF SourceListen, At, historyVars
<1>2. BrokenOK(r) /\ (Crippled(r) \/ SoundOK(r)) /\ (r \in panics => raced[r] # {})
      /\ listeners \in [Events -> SUBSET Remuxers]
    BY DEF RemuxInv, RemuxOK, DispatchOK
<1>3. /\ r \in Threads /\ stream \in MediaStreams /\ SourceSteps(r) /\ call[r].pc \in InSource
      /\ call[r].left \in Seq(Events) /\ call[r].left # <<>>
    BY <1>1, CallFacts, Actors DEF StreamOK, SourceSteps, InSource, CallOK, LeftOK
<1>4. /\ e \in Events /\ ToSet(call[r].left) = {e} \cup ToSet(rest)
      /\ Len(call[r].left) = 1 => ToSet(rest) = {}
    BY <1>3, HeadAndTail, LastIs
<1>5. \/ call'[r].pc = "idle" /\ mtx'[r] = Nobody /\ ToSet(rest) = {}
      \/ call'[r].pc = "listen" /\ call'[r].left = rest /\ mtx'[r] = mtx[r]
    <2>1. CASE Len(call[r].left) = 1 /\ Return(r) /\ mtx' = [mtx EXCEPT ![r] = Nobody]
        BY <1>3, <1>4, <2>1, ReturnIs, CallFacts
    <2>2. CASE Goto(r, "listen", rest) /\ UNCHANGED mtx
        <3>1. call'[r].pc = "listen" /\ call'[r].left = rest
            BY <1>3, <2>2, GotoFields, Zenon
        <3> QED
            BY <2>2, <3>1
    <2> QED
        BY <1>1, <2>1, <2>2
<1> HIDE DEF e, rest
<1>6. call'[r].pc \in InSource \cup {"idle"} /\ Attaching(r) = {} /\ Attaching(r)' = {}
    BY <1>1, <1>5 DEF InSource, Attaching
<1>7. \A f \in Events : r \in listeners'[f] <=> r \in listeners[f] \/ f = e
    BY <1>1, <1>2, <1>4
<1>8. Crippled(r)' <=> Crippled(r)
    BY <1>1, CrippledIs
<1>9. ClonesOK(own'[r]) /\ (Crippled(r)' => raced'[r] # {})
    BY <1>1, <1>2, <1>8 DEF BrokenOK, CrippledOK
<1>10. \A y \in Tracks : Pending(r, y) => y \notin Sources(own'[r]) \cup Attaching(r)'
    BY <1>1, <1>2, <1>6 DEF BrokenOK, PendingOK
<1>11. /\ BrokenOK(r)'
       /\ \A t \in Threads : call'[t].remuxer = r => call'[t].pc \notin InClose
       /\ readyState[r] # "inactive" /\ mtx[r] = r
       /\ UNCHANGED <<readyState, using, dispatch, stream, infoframe, tag>>
       /\ \A y \in Tracks : Pending(r, y)' <=> Pending(r, y)
    BY <1>3, <1>6, <1>9, <1>10, PlayerBroken
<1>12. ASSUME SoundOK(r) PROVE SoundOK(r)'
    <2>1. ListensOK(r) /\ SinksOK(r) /\ AttachedOK(r) /\ HeardOK(r)
        BY <1>12 DEF SoundOK
    <2>2. source[r] /\ \A f \in Events : r \in listeners[f] \/ f \in {e} \cup ToSet(rest)
        BY <1>1, <1>4, <1>11, <2>1, Actors DEF ListensOK
    <2>9. r # Nobody /\ mtx'[r] \in {r, Nobody} /\ (mtx'[r] = Nobody => ToSet(rest) = {})
          /\ call'[r].pc \in {"idle", "listen"} /\ (call'[r].pc = "listen" => call'[r].left = rest)
          /\ (call'[r].pc = "idle" => ToSet(rest) = {})
        BY <1>5, <1>11, Actors
    <2>3. \A f \in Events : r \in listeners'[f] \/ f \in ToSet(rest)
        BY <1>7, <2>2
    <2>4. /\ dispatch'.adding = r => dispatch'.track \in Sources(own'[r])
          /\ source'[r] /\ readyState'[r] # "inactive"
        BY <1>1, <1>11, <2>1, <2>2 DEF ListensOK
    <2>5. ListensOK(r)'
        BY <1>11, <2>3, <2>4, <2>9 DEF ListensOK, InClose
    <2>6. SinksOK(r)'
        BY <1>1, <1>11, <2>1 DEF SinksOK, InClose
    <2>7. AttachedOK(r)'
        <3>1. TracksOf(stream) \subseteq Tracks
            BY <1>3, StreamShape
        <3> QED
            BY <1>1, <1>6, <1>11, <2>1, <3>1 DEF AttachedOK, Wants
    <2>8. HeardOK(r)'
        <3>1. \A y : HeaderComes(r, y)' <=> HeaderComes(r, y)
            BY <1>11 DEF HeaderComes
        <3> QED
            BY <1>1, <1>11, <2>1, <3>1 DEF HeardOK
    <2> QED
        BY <2>5, <2>6, <2>7, <2>8 DEF SoundOK
<1> QED
    BY <1>1, <1>2, <1>8, <1>11, <1>12 DEF RemuxOK

\* The player begins to close the remuxer, or finds it closed.
LEMMA CallCloseOK ==
    ASSUME CallsOK, DispatchOK, StreamOK, FreshOK, TagInv, RemuxInv, NEW r \in Remuxers, CallClose(r)
    PROVE  RemuxOK(r)'
<1>1. /\ call[r].pc = "idle" /\ BeginClose(r, r)
      /\ UNCHANGED <<own, readyState, source, mtx, listeners, sinks, raced, heard, unheard, tag, panics,
                     dispatch, stream, infoframe>>
    BY DEF CallClose, At, tableVars, remuxVars, streamVars, historyVars
<1>2. BrokenOK(r) /\ (Crippled(r) \/ SoundOK(r)) /\ (r \in panics => raced[r] # {})
      /\ r \in Threads /\ TracksOf(stream) \subseteq Tracks
    BY Actors, StreamShape DEF RemuxInv, RemuxOK, StreamOK
<1>3. /\ call'[r].pc = IF readyState[r] = "inactive" THEN "idle" ELSE "lock"
      /\ \A t \in Threads : t # r => call'[t] = call[t]
    <2>1. ASSUME NEW c, c = (IF readyState[r] = "inactive" THEN Idle
                             ELSE [pc |-> "lock", remuxer |-> r, left |-> <<>>])
          PROVE  c.pc = IF readyState[r] = "inactive" THEN "idle" ELSE "lock"
        BY <2>1 DEF Idle
    <2>2. call' = [call EXCEPT ![r] = IF readyState[r] = "inactive" THEN Idle
                                      ELSE [pc |-> "lock", remuxer |-> r, left |-> <<>>]]
        BY <1>1 DEF BeginClose
    <2> QED
        BY <1>2, <2>1, <2>2, CallFacts
<1>4. \A t \in Threads : call'[t].remuxer = r /\ call'[t].pc \in InClose => call'[t] = call[t]
    BY <1>3 DEF InClose
<1>5. Attaching(r) = {} /\ Attaching(r)' = {} /\ \A x : Pending(r, x)' <=> Pending(r, x)
    BY <1>1, <1>3 DEF Attaching, Pending, Dispatching
<1>6. Crippled(r)' <=> Crippled(r)
    BY <1>1, CrippledIs
<1>7. BrokenOK(r)'
    <2>1. ClonesOK(own[r]) /\ CrippledOK(r) /\ StatesOK(r) /\ PendingOK(r)
        BY <1>2 DEF BrokenOK
    <2>2. CrippledOK(r)'
        BY <1>1, <1>4, <1>6, <2>1 DEF CrippledOK, InClose
    <2>3. StatesOK(r)'
        BY <1>1, <1>3, <1>4, <2>1 DEF StatesOK, InSource
    <2>4. PendingOK(r)'
        BY <1>1, <1>5, <2>1 DEF PendingOK
    <2> QED
        BY <1>1, <2>1, <2>2, <2>3, <2>4 DEF BrokenOK
<1>8. ASSUME SoundOK(r) PROVE SoundOK(r)'
    <2>1. ListensOK(r) /\ SinksOK(r) /\ AttachedOK(r) /\ HeardOK(r)
        BY <1>8 DEF SoundOK
    <2>2. ListensOK(r)'
        BY <1>1, <1>3, <1>4, <2>1 DEF ListensOK, InClose
    <2>3. SinksOK(r)'
        BY <1>1, <1>4, <2>1 DEF SinksOK, InClose
    <2>4. AttachedOK(r)'
        BY <1>1, <1>2, <1>3, <1>5, <2>1 DEF AttachedOK, Wants
    <2>5. HeardOK(r)'
        <3>1. \A y : HeaderComes(r, y)' <=> HeaderComes(r, y)
            BY <1>1 DEF HeaderComes
        <3> QED
            BY <1>1, <2>1, <3>1 DEF HeardOK
    <2> QED
        BY <2>2, <2>3, <2>4, <2>5 DEF SoundOK
<1> QED
    BY <1>1, <1>2, <1>6, <1>7, <1>8 DEF RemuxOK

-----------------------------------------------------------------------------
(* The remuxers: Close.                                                    *)

\* What a goroutine in Close goes on to, or leaves behind.
Freed(t, r) ==
    /\ call'[t].pc = "idle" /\ mtx'[r] = Nobody /\ own'[r] = EmptyStream /\ ~source'[r]
    /\ dispatch'.adding # r
    /\ \A e \in Events : r \notin listeners'[e]
    /\ \A x \in Tracks : r \in sinks'[x] => x \in raced'[r]

Unsinks(t, r) ==
    /\ call'[t].pc = "unsink" /\ mtx'[r] = t /\ source'[r]
    /\ dispatch'.adding = r => dispatch'.track \in Sources(own'[r])
    /\ \A x \in Tracks : r \in sinks'[x] /\ x \notin raced'[r] =>
          x \in Sources(own'[r]) /\ x \in ToSet(call'[t].left)

Unlistens(t, r) ==
    /\ call'[t].pc = "unlisten" /\ mtx'[r] = t /\ source'[r]
    /\ dispatch'.adding = r => dispatch'.track \in Sources(own'[r])
    /\ \A e \in Events : r \in listeners'[e] => e \in ToSet(call'[t].left)
    /\ \A x \in Tracks : r \in sinks'[x] => x \in raced'[r]

\* The other goroutines leave the remuxer alone meanwhile.
LEMMA CloserAlone ==
    ASSUME CallsOK, NEW r \in Remuxers, NEW t \in Threads, call[t].remuxer = r,
           call[t].pc \in InClose \/ (call[t].pc = "lock" /\ mtx[r] = Nobody),
           \A u \in Threads : u # t => call'[u] = call[u],
           call'[t].pc \in InClose \cup {"idle"}
    PROVE  /\ \A u \in Threads : u # t /\ call'[u].remuxer = r => call'[u].pc \notin InSource \cup InClose
           /\ call'[r].pc \notin InSource
<1>1. ASSUME NEW u \in Threads, u # t, call[u].remuxer = r PROVE call[u].pc \notin InSource \cup InClose
    BY <1>1, Alone
<1>2. CASE r = t
    BY <1>1, <1>2 DEF InSource, InClose
<1>3. CASE r # t
    <2>1. r \in Threads /\ call'[r] = call[r]
        BY <1>3, Actors
    <2>2. call[r].pc \in InSource => call[r].remuxer = r
        BY Alone
    <2> QED
        BY <1>1, <1>3, <2>1, <2>2
<1> QED
    BY <1>1, <1>2, <1>3

LEMMA CloserBroken ==
    ASSUME NEW r \in Remuxers, NEW t \in Threads, BrokenOK(r),
           \A u \in Threads : u # t /\ call'[u].remuxer = r => call'[u].pc \notin InClose,
           call'[r].pc \notin InSource, readyState'[r] = "inactive", raced' = raced,
           \A x \in Tracks : Pending(r, x)' => Pending(r, x),
           own'[r] = own[r] \/ own'[r] = EmptyStream,
           call'[t].remuxer = r =>
              /\ call'[t].pc = "unsink" => (NoSource \in ToSet(call'[t].left) <=> Crippled(r)')
              /\ call'[t].pc = "unlisten" => ~Crippled(r)'
    PROVE  BrokenOK(r)'
<1>1. ClonesOK(own[r]) /\ CrippledOK(r) /\ PendingOK(r)
    BY DEF BrokenOK
<1>2. /\ ClonesOK(own'[r]) /\ Sources(own'[r]) \subseteq Sources(own[r])
      /\ Crippled(r)' => Crippled(r)
    BY <1>1, EmptyFacts, CrippledIs
<1>3. CrippledOK(r)'
    BY <1>1, <1>2 DEF CrippledOK, InClose
<1>4. StatesOK(r)'
    BY DEF StatesOK
<1>5. PendingOK(r)'
    <2>1. Attaching(r)' = {}
        BY DEF Attaching, InSource
    <2> QED
        BY <1>1, <1>2, <2>1 DEF PendingOK
<1> QED
    BY <1>2, <1>3, <1>4, <1>5 DEF BrokenOK

LEMMA CloserSound ==
    ASSUME NEW r \in Remuxers, NEW t \in Threads,
           \A u \in Threads : u # t /\ call'[u].remuxer = r => call'[u].pc \notin InClose,
           call'[r].pc \notin InSource, readyState'[r] = "inactive",
           Freed(t, r) \/ Unsinks(t, r) \/ Unlistens(t, r),
           tag'[r] # NoTag /\ tag'[r].first = tag'[r].track => tag'[r].track \in heard'[r] \cup unheard'[r]
    PROVE  SoundOK(r)'
<1>1. t # Nobody /\ r # Nobody
    BY Actors
<1>2. ListensOK(r)'
    <2>1. /\ mtx'[r] = Nobody => /\ own'[r] = EmptyStream /\ ~source'[r]
                                 /\ \A e \in Events : r \notin listeners'[e]
          /\ mtx'[r] # Nobody => source'[r]
          /\ call'[t].pc = "unlisten" => \A e \in Events : r \in listeners'[e] => e \in ToSet(call'[t].left)
          /\ dispatch'.adding = r => dispatch'.track \in Sources(own'[r])
        BY <1>1 DEF Freed, Unsinks, Unlistens
    <2> QED
        BY <2>1 DEF ListensOK, InClose, InSource
<1>3. SinksOK(r)'
    <2>1. /\ \A x \in Tracks : r \in sinks'[x] /\ x \notin raced'[r] =>
                x \in Sources(own'[r]) /\ call'[t].pc # "unlisten"
          /\ call'[t].pc = "unsink" => \A x \in Tracks : r \in sinks'[x] /\ x \notin raced'[r] =>
                                          x \in ToSet(call'[t].left)
        BY DEF Freed, Unsinks, Unlistens
    <2> QED
        BY <2>1 DEF SinksOK, InClose
<1>4. AttachedOK(r)' /\ HeardOK(r)'
    BY DEF AttachedOK, HeardOK
<1> QED
    BY <1>2, <1>3, <1>4 DEF SoundOK

\* What there is left to detach decides where Close goes on.
LEMMA DetachTo ==
    ASSUME CallsOK, RemuxTypes, own \in [Remuxers -> MediaStreams], NEW r \in Remuxers, NEW t \in Threads,
           call[t].remuxer = r, NEW left \in Seq(Tracks \cup {NoSource}), Detach(t, r, left)
    PROVE  /\ \A u \in Threads : u # t => call'[u] = call[u]
           /\ \/ /\ ToSet(left) = {} /\ ~source[r] /\ call'[t].pc = "idle" /\ mtx'[r] = Nobody
                 /\ own'[r] = EmptyStream /\ ~source'[r]
              \/ /\ ToSet(left) # {} /\ call'[t].pc = "unsink" /\ call'[t].left = left /\ mtx'[r] = t
                 /\ own'[r] = own[r] /\ source'[r] = source[r]
              \/ /\ ToSet(left) = {} /\ source[r] /\ call'[t].pc = "unlisten" /\ ToSet(call'[t].left) = Events
                 /\ mtx'[r] = t /\ own'[r] = own[r] /\ source'[r]
<1>1. ToSet(left) = {} <=> left = <<>>
    BY SetOf
<1>2. mtx \in [Remuxers -> Threads \cup {Nobody}] /\ source \in [Remuxers -> BOOLEAN]
    BY CallFacts DEF RemuxTypes
<1>3. CASE left = <<>> /\ ~source[r]
    <2>1. Finish(t, r)
        BY <1>3, Zenon DEF Detach
    <2>2. call'[t].pc = "idle" /\ \A u \in Threads : u # t => call'[u] = call[u]
        BY <2>1, ReturnIs DEF Finish
    <2>3. mtx'[r] = Nobody /\ own'[r] = EmptyStream /\ source'[r] = FALSE
        BY <1>2, <2>1 DEF Finish, Close
    <2> QED
        BY <1>1, <1>3, <2>2, <2>3, Zenon
<1>4. CASE left # <<>>
    <2>1. Goto(t, "unsink", left) /\ mtx' = [mtx EXCEPT ![r] = t] /\ UNCHANGED <<own, source>>
        BY <1>4, Zenon DEF Detach
    <2>2. /\ call'[t].pc = "unsink" /\ call'[t].left = left
          /\ \A u \in Threads : u # t => call'[u] = call[u]
        BY <2>1, GotoFields
    <2>3. mtx'[r] = t /\ own'[r] = own[r] /\ source'[r] = source[r]
        BY <1>2, <2>1
    <2> QED
        BY <1>1, <1>4, <2>2, <2>3, Zenon
<1>5. CASE left = <<>> /\ source[r]
    <2>1. Goto(t, "unlisten", StreamEvents) /\ mtx' = [mtx EXCEPT ![r] = t] /\ UNCHANGED <<own, source>>
        BY <1>5, Zenon DEF Detach
    <2>2. /\ call'[t].pc = "unlisten" /\ call'[t].left = StreamEvents
          /\ \A u \in Threads : u # t => call'[u] = call[u]
        BY <2>1, GotoFields, Zenon
    <2>3. mtx'[r] = t /\ own'[r] = own[r] /\ source'[r]
        BY <1>2, <1>5, <2>1
    <2> QED
        BY <1>1, <1>5, <2>2, <2>3, EventsAre, Zenon
<1> QED
    BY <1>3, <1>4, <1>5

\* Close takes the mutex: the clones are to be detached, if there are any.
LEMMA CloseLockOK ==
    ASSUME CallsOK, DispatchOK, StreamOK, FreshOK, TagInv, RemuxInv, NEW r \in Remuxers,
           NEW t \in Threads, call[t].remuxer = r, CloseLock(t)
    PROVE  RemuxOK(r)'
<1> DEFINE left == [i \in DOMAIN own[r].tracks |-> own[r].tracks[i].source]
<1>1. /\ call[t].pc = "lock" /\ mtx[r] = Nobody /\ Detach(t, r, left)
      /\ readyState' = [readyState EXCEPT ![r] = "inactive"] /\ tag' = [tag EXCEPT ![r] = NoTag]
      /\ UNCHANGED <<listeners, sinks, raced, panics, dispatch>>
    BY DEF CloseLock, At, tableVars, Forget
<1>2. /\ BrokenOK(r) /\ (Crippled(r) \/ SoundOK(r)) /\ (r \in panics => raced[r] # {})
      /\ RemuxTypes /\ TagTypes /\ own \in [Remuxers -> MediaStreams]
      /\ mtx \in [Remuxers -> Threads \cup {Nobody}]
    BY CallFacts DEF RemuxInv, RemuxOK, TagInv, FreshOK
<1>3. left \in Seq(Tracks \cup {NoSource}) /\ ToSet(left) = Sources(own[r])
    BY <1>2, SourcesSeq
<1> HIDE DEF left
<1>4. readyState'[r] = "inactive" /\ tag'[r] = NoTag
    BY <1>1, <1>2 DEF TagTypes
<1>7. /\ Crippled(r) <=> NoSource \in Sources(own[r])
      /\ Crippled(r)' <=> NoSource \in Sources(own'[r])
    BY CrippledIs
<1>5. /\ \A u \in Threads : u # t => call'[u] = call[u]
      /\ \/ /\ ToSet(left) = {} /\ ~source[r] /\ call'[t].pc = "idle" /\ mtx'[r] = Nobody
            /\ own'[r] = EmptyStream /\ ~source'[r]
         \/ /\ ToSet(left) # {} /\ call'[t].pc = "unsink" /\ call'[t].left = left /\ mtx'[r] = t
            /\ own'[r] = own[r] /\ source'[r] = source[r]
         \/ /\ ToSet(left) = {} /\ source[r] /\ call'[t].pc = "unlisten" /\ ToSet(call'[t].left) = Events
            /\ mtx'[r] = t /\ own'[r] = own[r] /\ source'[r]
    BY <1>1, <1>2, <1>3, DetachTo
<1>8. /\ call'[t].pc = "idle" => Sources(own'[r]) = {}
      /\ call'[t].pc # "idle" => own'[r] = own[r]
      /\ call'[t].pc = "unsink" => call'[t].left = left
      /\ call'[t].pc \in {"idle", "unlisten"} => Sources(own[r]) = {}
      /\ call'[t].pc \in {"idle", "unlisten", "unsink"} /\ (own'[r] = own[r] \/ own'[r] = EmptyStream)
    BY <1>3, <1>5, EmptyFacts
<1>9. call'[t].pc \in InClose \cup {"idle"}
    BY <1>8 DEF InClose
<1>10. /\ \A u \in Threads : u # t /\ call'[u].remuxer = r => call'[u].pc \notin InSource \cup InClose
       /\ call'[r].pc \notin InSource
    BY <1>1, <1>5, <1>9, CloserAlone
<1>11. BrokenOK(r)'
    <2>1. call'[t].pc = "unsink" => (NoSource \in ToSet(call'[t].left) <=> Crippled(r)')
        BY <1>3, <1>7, <1>8
    <2>2. call'[t].pc = "unlisten" => ~Crippled(r)'
        BY <1>7, <1>8
    <2>3. \A x \in Tracks : Pending(r, x)' => Pending(r, x)
        BY <1>1 DEF Pending, Dispatching
    <2> QED
        BY <1>1, <1>2, <1>4, <1>8, <1>10, <2>1, <2>2, <2>3, CloserBroken
<1>12. ASSUME SoundOK(r) PROVE SoundOK(r)'
    <2>1. ListensOK(r) /\ SinksOK(r)
        BY <1>12 DEF SoundOK
    <2>2. /\ ~source[r] => \A e \in Events : r \notin listeners[e]
          /\ ToSet(left) # {} => source[r]
          /\ dispatch.adding = r => dispatch.track \in Sources(own[r])
        BY <1>1, <1>3, <2>1, EmptyFacts DEF ListensOK
    <2>3. ~source[r] => dispatch.adding # r
        BY <2>2, Actors, EventsAre DEF DispatchOK, TodoOK
    <2>4. \A x \in Tracks : r \in sinks[x] /\ x \notin raced[r] => x \in Sources(own[r])
        BY <2>1 DEF SinksOK
    <2>5. Freed(t, r) \/ Unsinks(t, r) \/ Unlistens(t, r)
        <3>1. CASE /\ ToSet(left) = {} /\ ~source[r] /\ call'[t].pc = "idle" /\ mtx'[r] = Nobody
                   /\ own'[r] = EmptyStream /\ ~source'[r]
            BY <1>1, <1>3, <2>2, <2>3, <2>4, <3>1 DEF Freed
        <3>2. CASE /\ ToSet(left) # {} /\ call'[t].pc = "unsink" /\ call'[t].left = left /\ mtx'[r] = t
                   /\ own'[r] = own[r] /\ source'[r] = source[r]
            BY <1>1, <1>3, <2>2, <2>4, <3>2 DEF Unsinks
        <3>3. CASE /\ ToSet(left) = {} /\ source[r] /\ call'[t].pc = "unlisten" /\ ToSet(call'[t].left) = Events
                   /\ mtx'[r] = t /\ own'[r] = own[r] /\ source'[r]
            BY <1>1, <1>2, <1>3, <2>2, <2>4, <3>3 DEF Unlistens, DispatchOK
        <3> QED
            BY <1>5, <3>1, <3>2, <3>3
    <2> QED
        BY <1>4, <1>10, <2>5, CloserSound
<1>13. Crippled(r) => Crippled(r)'
    BY <1>7, <1>8
<1> QED
    BY <1>1, <1>2, <1>11, <1>12, <1>13 DEF RemuxOK

\* The next clone is detached from its source.
LEMMA CloseUnsinkOK ==
    ASSUME CallsOK, DispatchOK, StreamOK, FreshOK, TagInv, RemuxInv, NEW r \in Remuxers,
           NEW t \in Threads, call[t].remuxer = r, CloseUnsink(t)
    PROVE  RemuxOK(r)'
<1> DEFINE x == Head(call[t].left)
           left == Tail(call[t].left)
<1>1. /\ call[t].pc = "unsink" /\ x # NoSource /\ Detach(t, r, left)
      /\ sinks' = [sinks EXCEPT ![x] = @ \ {r}]
      /\ UNCHANGED <<readyState, listeners, raced, panics, dispatch, tag, heard, unheard>>
    BY DEF CloseUnsink, At, historyVars
<1>2. /\ BrokenOK(r) /\ (Crippled(r) \/ SoundOK(r)) /\ (r \in panics => raced[r] # {})
      /\ RemuxTypes /\ own \in [Remuxers -> MediaStreams] /\ sinks \in [Tracks -> SUBSET Remuxers]
      /\ call[t].pc \in InClose
    BY <1>1 DEF RemuxInv, RemuxOK, FreshOK, DispatchOK, InClose
<1>3. /\ call[t].left \in Seq(Tracks \cup {NoSource}) /\ call[t].left # <<>>
      /\ mtx[r] = t /\ t # Nobody
    BY <1>1, <1>2, CallFacts, Alone, Actors DEF CallOK, LeftOK
<1>4. /\ left \in Seq(Tracks \cup {NoSource}) /\ x \in Tracks /\ ToSet(call[t].left) \subseteq {x} \cup ToSet(left)
      /\ ToSet(left) \subseteq ToSet(call[t].left)
    BY <1>1, <1>3, HeadAndTail
<1> HIDE DEF x, left
<1>5. readyState'[r] = "inactive"
    BY <1>1, <1>2 DEF BrokenOK, StatesOK
<1>6. NoSource \in ToSet(left) <=> Crippled(r)
    <2>1. NoSource \in ToSet(call[t].left) <=> Crippled(r)
        BY <1>1, <1>2 DEF BrokenOK, CrippledOK
    <2> QED
        BY <1>1, <1>4, <2>1
<1>7. ToSet(left) = {} => source[r]
    BY <1>2, <1>3, <1>6 DEF SoundOK, ListensOK
<1>8. /\ \A u \in Threads : u # t => call'[u] = call[u]
      /\ \/ /\ call'[t].pc = "unsink" /\ call'[t].left = left /\ mtx'[r] = t
            /\ own'[r] = own[r] /\ source'[r] = source[r]
         \/ /\ ToSet(left) = {} /\ source[r] /\ call'[t].pc = "unlisten" /\ ToSet(call'[t].left) = Events
            /\ mtx'[r] = t /\ own'[r] = own[r] /\ source'[r]
    BY <1>1, <1>2, <1>4, <1>7, DetachTo
<1>9. call'[t].pc \in InClose \cup {"idle"}
    BY <1>8 DEF InClose
<1>10. /\ \A u \in Threads : u # t /\ call'[u].remuxer = r => call'[u].pc \notin InSource \cup InClose
       /\ call'[r].pc \notin InSource
    BY <1>2, <1>8, <1>9, CloserAlone
<1>11. Crippled(r)' <=> Crippled(r)
    BY <1>8, CrippledIs
<1>12. BrokenOK(r)'
    <2>1. /\ call'[t].pc = "unsink" => (NoSource \in ToSet(call'[t].left) <=> Crippled(r)')
          /\ call'[t].pc = "unlisten" => ~Crippled(r)'
        BY <1>6, <1>8, <1>11
    <2>2. \A y \in Tracks : Pending(r, y)' => Pending(r, y)
        BY <1>1 DEF Pending, Dispatching
    <2> QED
        BY <1>1, <1>2, <1>5, <1>8, <1>10, <2>1, <2>2, CloserBroken
<1>13. ASSUME SoundOK(r) PROVE SoundOK(r)'
    <2>1. ListensOK(r) /\ SinksOK(r) /\ HeardOK(r)
        BY <1>13 DEF SoundOK
    <2>2. source[r] /\ (dispatch.adding = r => dispatch.track \in Sources(own[r]))
        BY <1>3, <2>1 DEF ListensOK
    <2>3. \A y \in Tracks : r \in sinks'[y] /\ y \notin raced[r] => y \in Sources(own[r]) /\ y \in ToSet(left)
        <3>1. \A y \in Tracks : r \in sinks'[y] => r \in sinks[y] /\ y # x
            BY <1>1, <1>2
        <3>2. \A y \in Tracks : r \in sinks[y] /\ y \notin raced[r] =>
                 y \in Sources(own[r]) /\ y \in ToSet(call[t].left)
            BY <1>1, <2>1 DEF SinksOK
        <3> QED
            BY <1>4, <3>1, <3>2
    <2>4. Freed(t, r) \/ Unsinks(t, r) \/ Unlistens(t, r)
        <3>1. CASE /\ call'[t].pc = "unsink" /\ call'[t].left = left /\ mtx'[r] = t
                   /\ own'[r] = own[r] /\ source'[r] = source[r]
            BY <1>1, <2>2, <2>3, <3>1 DEF Unsinks
        <3>2. CASE /\ ToSet(left) = {} /\ source[r] /\ call'[t].pc = "unlisten" /\ ToSet(call'[t].left) = Events
                   /\ mtx'[r] = t /\ own'[r] = own[r] /\ source'[r]
            BY <1>1, <2>2, <2>3, <3>2 DEF Unlistens, DispatchOK
        <3> QED
            BY <1>8, <3>1, <3>2
    <2>5. tag'[r] # NoTag /\ tag'[r].first = tag'[r].track => tag'[r].track \in heard'[r] \cup unheard'[r]
        BY <1>1, <2>1 DEF HeardOK
    <2> QED
        BY <1>5, <1>10, <2>4, <2>5, CloserSound
<1> QED
    BY <1>1, <1>2, <1>11, <1>12, <1>13 DEF RemuxOK

\* A clone has no source: Close gives up.
LEMMA CloseUnsinkStoppedOK ==
    ASSUME CallsOK, DispatchOK, StreamOK, FreshOK, TagInv, RemuxInv, NEW r \in Remuxers,
           NEW t \in Threads, call[t].remuxer = r, CloseUnsinkStopped(t)
    PROVE  RemuxOK(r)'
<1>1. /\ call[t].pc = "unsink" /\ Head(call[t].left) = NoSource /\ Return(t)
      /\ dispatch' = IF t = Publisher THEN [dispatch EXCEPT !.todo = {}] ELSE dispatch
      /\ UNCHANGED <<readyState, own, raced>>
    BY DEF CloseUnsinkStopped, At
<1>2. BrokenOK(r) /\ dispatch \in Dispatch /\ call[t].pc \in InClose
    BY <1>1 DEF RemuxInv, RemuxOK, DispatchOK, InClose
<1>3. call[t].left \in Seq(Tracks \cup {NoSource}) /\ call[t].left # <<>>
    BY <1>1, CallFacts DEF CallOK, LeftOK
<1>4. NoSource \in ToSet(call[t].left)
    BY <1>1, <1>3, HeadAndTail
<1>5. Crippled(r) /\ raced[r] # {} /\ readyState'[r] = "inactive"
    BY <1>1, <1>2, <1>4 DEF BrokenOK, CrippledOK, StatesOK
<1>6. call'[t].pc = "idle" /\ \A u \in Threads : u # t => call'[u] = call[u]
    BY <1>1, ReturnIs
<1>7. /\ \A u \in Threads : u # t /\ call'[u].remuxer = r => call'[u].pc \notin InSource \cup InClose
      /\ call'[r].pc \notin InSource
    BY <1>2, <1>6, CloserAlone
<1>8. \A y \in Tracks : Pending(r, y)' => Pending(r, y)
    <2>1. CASE t = Publisher
        BY <1>1, <1>2, <2>1, NoneLeft DEF Pending, Dispatching
    <2>2. CASE t # Publisher
        BY <1>1, <2>2 DEF Pending, Dispatching
    <2> QED
        BY <2>1, <2>2
<1>9. Crippled(r)'
    BY <1>1, <1>5, CrippledIs
<1>10. BrokenOK(r)'
    BY <1>1, <1>2, <1>5, <1>6, <1>7, <1>8, CloserBroken
<1> QED
    BY <1>1, <1>5, <1>9, <1>10 DEF RemuxOK

\* The next event is no longer listened to; after the last the remuxer is
\* empty.
LEMMA CloseUnlistenOK ==
    ASSUME CallsOK, DispatchOK, StreamOK, FreshOK, TagInv, RemuxInv, NEW r \in Remuxers,
           NEW t \in Threads, call[t].remuxer = r, CloseUnlisten(t)
    PROVE  RemuxOK(r)'
<1> DEFINE e == Head(call[t].left)
           rest == Tail(call[t].left)
<1>1. /\ call[t].pc = "unlisten" /\ Free(streamDisp, t) /\ listeners' = [listeners EXCEPT ![e] = @ \ {r}]
      /\ \/ Len(call[t].left) = 1 /\ Finish(t, r)
         \/ Goto(t, "unlisten", rest) /\ UNCHANGED <<own, source, mtx>>
      /\ UNCHANGED <<sinks, readyState, raced, panics, dispatch, tag, heard, unheard>>
    BY DEF CloseUnlisten, At, historyVars
<1>2. /\ BrokenOK(r) /\ (Crippled(r) \/ SoundOK(r)) /\ (r \in panics => raced[r] # {})
      /\ RemuxTypes /\ own \in [Remuxers -> MediaStreams] /\ listeners \in [Events -> SUBSET Remuxers]
      /\ call[t].pc \in InClose
    BY <1>1 DEF RemuxInv, RemuxOK, FreshOK, DispatchOK, InClose
<1>3. /\ call[t].left \in Seq(Events) /\ call[t].left # <<>>
      /\ mtx[r] = t /\ t # Nobody /\ mtx \in [Remuxers -> Threads \cup {Nobody}]
    BY <1>1, <1>2, CallFacts, Alone, Actors DEF CallOK, LeftOK
<1>4. /\ e \in Events /\ ToSet(call[t].left) \subseteq {e} \cup ToSet(rest)
      /\ Len(call[t].left) = 1 => ToSet(rest) = {}
    BY <1>3, HeadAndTail, LastIs
<1>5. /\ \A u \in Threads : u # t => call'[u] = call[u]
      /\ \/ /\ ToSet(rest) = {} /\ call'[t].pc = "idle" /\ mtx'[r] = Nobody
            /\ own'[r] = EmptyStream /\ ~source'[r]
         \/ /\ call'[t].pc = "unlisten" /\ call'[t].left = rest /\ mtx'[r] = t
            /\ own'[r] = own[r] /\ source'[r] = source[r]
    <2>1. CASE Len(call[t].left) = 1 /\ Finish(t, r)
        <3>1. call'[t].pc = "idle" /\ \A u \in Threads : u # t => call'[u] = call[u]
            BY <2>1, ReturnIs DEF Finish
        <3>2. mtx'[r] = Nobody /\ own'[r] = EmptyStream /\ source'[r] = FALSE
            BY <1>2, <1>3, <2>1 DEF Finish, Close, RemuxTypes
        <3> QED
            BY <1>4, <2>1, <3>1, <3>2
    <2>2. CASE Goto(t, "unlisten", rest) /\ UNCHANGED <<own, source, mtx>>
        <3>1. call'[t].pc = "unlisten" /\ call'[t].left = rest /\ \A u \in Threads : u # t => call'[u] = call[u]
            BY <2>2, GotoFields
        <3> QED
            BY <1>3, <2>2, <3>1
    <2> QED
        BY <1>1, <2>1, <2>2
<1> HIDE DEF e, rest
<1>6. readyState'[r] = "inactive" /\ ~Crippled(r) /\ ~Crippled(r)'
    <2>1. readyState[r] = "inactive" /\ ~Crippled(r)
        BY <1>1, <1>2 DEF BrokenOK, StatesOK, CrippledOK
    <2> QED
        BY <1>1, <1>5, <2>1, CrippledIs, EmptyFacts
<1>7. call'[t].pc \in InClose \cup {"idle"}
    BY <1>5 DEF InClose
<1>8. /\ \A u \in Threads : u # t /\ call'[u].remuxer = r => call'[u].pc \notin InSource \cup InClose
      /\ call'[r].pc \notin InSource
    BY <1>2, <1>5, <1>7, CloserAlone
<1>9. BrokenOK(r)'
    <2>1. \A y \in Tracks : Pending(r, y)' => Pending(r, y)
        BY <1>1 DEF Pending, Dispatching
    <2> QED
        BY <1>1, <1>2, <1>5, <1>6, <1>8, <2>1, CloserBroken
<1>10. ListensOK(r) /\ SinksOK(r) /\ HeardOK(r)
    BY <1>2, <1>6 DEF SoundOK
<1>11. dispatch'.adding # r
    <2>1. ASSUME dispatch.adding = r PROVE FALSE
        <3>1. dispatch.pc = "run" /\ dispatch.event = "addtrack" /\ call[Publisher].pc = "idle"
            BY <2>1, Actors DEF DispatchOK, TodoOK
        <3>2. t = Publisher
            BY <1>1, <3>1, Actors DEF DispatchOK, LocksOK, Free
        <3> QED
            BY <1>1, <3>1, <3>2
    <2> QED
        BY <1>1, <2>1
<1>12. \A f \in Events : r \in listeners'[f] => f \in ToSet(rest)
    <2>1. \A f \in Events : r \in listeners[f] => f \in ToSet(call[t].left)
        BY <1>1, <1>10 DEF ListensOK
    <2>2. \A f \in Events : r \in listeners'[f] => r \in listeners[f] /\ f # e
        BY <1>1, <1>2
    <2> QED
        BY <1>4, <2>1, <2>2
<1>13. \A y \in Tracks : r \in sinks'[y] => y \in raced'[r]
    BY <1>1, <1>10 DEF SinksOK
<1>14. Freed(t, r) \/ Unlistens(t, r)
    <2>1. source[r]
        BY <1>3, <1>10 DEF ListensOK
    <2> QED
        BY <1>5, <1>11, <1>12, <1>13, <2>1 DEF Freed, Unlistens
<1>15. tag'[r] # NoTag /\ tag'[r].first = tag'[r].track => tag'[r].track \in heard'[r] \cup unheard'[r]
    BY <1>1, <1>10 DEF HeardOK
<1>16. SoundOK(r)'
    BY <1>6, <1>8, <1>14, <1>15, CloserSound
<1> QED
    BY <1>1, <1>2, <1>9, <1>16 DEF RemuxOK

-----------------------------------------------------------------------------
(* The remuxers: every step.                                               *)

LEMMA HistoryTypes ==
    ASSUME CallsOK, DispatchOK, StreamOK, FreshOK, RemuxTypes, Next
    PROVE  RemuxTypes'
<1>1. /\ source \in [Remuxers -> BOOLEAN]
      /\ heard \in [Remuxers -> SUBSET Tracks] /\ unheard \in [Remuxers -> SUBSET Tracks]
      /\ raced \in [Remuxers -> SUBSET Tracks] /\ panics \subseteq Remuxers
      /\ infoframe \subseteq Tracks
      /\ \A t \in Threads : call[t].pc # "idle" => call[t].remuxer \in Remuxers
    BY CallFacts DEF RemuxTypes, FreshOK
<1>2. ASSUME NEW r \in Remuxers, Source(r) \/ CallClose(r) \/ SourceMetadata(r) \/ SourceTracks(r)
      PROVE  RemuxTypes'
    BY <1>1, <1>2 DEF RemuxTypes, Source, CallClose, SourceMetadata, SourceTracks, Forget, remuxVars, historyVars
<1>3. ASSUME NEW r \in Remuxers, SourceAttach(r) \/ SourceSink(r) \/ SourceListen(r)
      PROVE  RemuxTypes'
    BY <1>1, <1>3 DEF RemuxTypes, SourceAttach, SourceSink, SourceListen, remuxVars, historyVars
<1>4. ASSUME NEW r \in Remuxers, SourceAttachStopped(r) PROVE RemuxTypes'
    <2>1. Head(call[r].left) \in Tracks
        BY <1>4, HeadIs DEF SourceAttachStopped, At
    <2> QED
        BY <1>1, <1>4, <2>1 DEF RemuxTypes, SourceAttachStopped
<1>5. ASSUME NEW r \in Remuxers, OnAddTrack(r) \/ OnRemoveTrack(r) \/ OnRemoveTrackPanic(r)
                                 \/ OnData(r) \/ OnEnd(r)
      PROVE  RemuxTypes'
    BY <1>1, <1>5 DEF RemuxTypes, OnAddTrack, OnRemoveTrack, OnRemoveTrackPanic, OnData, OnEnd, remuxVars, historyVars
<1>6. dispatch.pc = "packet" => dispatch.track \in Tracks
    BY DEF DispatchOK, PhaseOK
<1>7. ASSUME NEW r \in Remuxers, OnPacketPanic(r) PROVE RemuxTypes'
    BY <1>1, <1>6, <1>7 DEF RemuxTypes, OnPacketPanic, Taking
<1>8. ASSUME NEW r \in Remuxers, OnPacket(r) PROVE RemuxTypes'
    BY <1>1, <1>6, <1>8 DEF RemuxTypes, OnPacket, Taking
<1>9. ASSUME OnAddTrackSink PROVE RemuxTypes'
    <2>1. dispatch.track \in Tracks
        BY <1>9, EventsAre DEF OnAddTrackSink, DispatchOK, PhaseOK, TodoOK, Dispatching
    <2> QED
        BY <1>1, <1>9, <2>1 DEF RemuxTypes, OnAddTrackSink, remuxVars
<1>10. ASSUME NEW t \in Threads, CloseSteps(t) PROVE RemuxTypes'
    <2>1. call[t].remuxer \in Remuxers
        BY <1>1, <1>10 DEF CloseSteps, CloseLock, CloseUnsink, CloseUnsinkStopped, CloseUnlisten, At
    <2>2. CASE CloseLock(t)
        BY <1>1, <2>1, <2>2 DEF RemuxTypes, CloseLock, Detach, Finish, Forget
    <2>3. CASE CloseUnsink(t) \/ CloseUnlisten(t)
        BY <1>1, <2>1, <2>3 DEF RemuxTypes, CloseUnsink, CloseUnlisten, Detach, Finish, historyVars
    <2>4. CASE CloseUnsinkStopped(t)
        BY <1>1, <2>1, <2>4 DEF RemuxTypes, CloseUnsinkStopped
    <2> QED
        BY <1>10, <2>2, <2>3, <2>4 DEF CloseSteps
<1>11. ASSUME \/ \E x \in Tracks : StreamAddTrack(x) \/ StreamRemoveTrack(x)
              \/ \E e \in {"error", "close"} : StreamEnds(e)
              \/ StreamClose \/ StreamData
       PROVE  RemuxTypes'
    BY <1>1, <1>11 DEF RemuxTypes, StreamAddTrack, StreamRemoveTrack, StreamEnds, StreamClose, StreamData,
                       remuxVars, historyVars
<1>12. ASSUME StreamStopTrack \/ StreamClosed \/ StreamUnlock \/ SourceUnlock PROVE RemuxTypes'
    BY <1>1, <1>12 DEF RemuxTypes, StreamStopTrack, StreamClosed, StreamUnlock, SourceUnlock,
                       remuxVars, historyVars
<1>13. ASSUME StreamLock PROVE RemuxTypes'
    <2>1. dispatch.event = "addtrack" => dispatch.track \in Tracks
        BY <1>13 DEF StreamLock, DispatchOK, PhaseOK, Dispatching
    <2> QED
        BY <1>1, <1>13, <2>1 DEF RemuxTypes, StreamLock, remuxVars
<1>14. ASSUME NEW x \in Tracks, NEW type, NEW pts, SinkPacket(x, type, pts) PROVE RemuxTypes'
    BY <1>1, <1>14 DEF RemuxTypes, SinkPacket, remuxVars
<1> QED
    BY <1>2, <1>3, <1>4, <1>5, <1>7, <1>8, <1>9, <1>10, <1>11, <1>12, <1>13, <1>14
    DEF Next, Calls, DispatchSteps, SourceSteps

\* A step is the remuxer's own, another's, or the publisher's.
LEMMA RemuxStep ==
    ASSUME CallsOK, CallsOK', DispatchOK, StreamOK, StreamOK', FreshOK, TagInv, RemuxInv, Next
    PROVE  RemuxInv'
<1>1. RemuxTypes'
    BY HistoryTypes DEF RemuxInv
<1>2. ASSUME NEW r \in Remuxers PROVE RemuxOK(r)'
    <2>1. CASE Elsewhere(r)
        BY <2>1, ElsewhereOK
    <2>2. CASE Publishes
        BY <2>2, PublishesOK
    <2>3. CASE Source(r) \/ CallClose(r)
        BY <2>3, SourceOK, CallCloseOK
    <2>4. CASE SourceSteps(r)
        BY <2>4, MetadataOK, TracksOK, AttachOK, AttachStoppedOK, SinkOK, ListenOK DEF SourceSteps
    <2>5. CASE OnAddTrack(r) \/ OnRemoveTrack(r) \/ OnRemoveTrackPanic(r) \/ OnData(r) \/ OnEnd(r)
        BY <2>5, AddTrackOK, RemoveTrackOK, ToldOK
    <2>6. CASE OnPacketPanic(r) \/ OnPacket(r)
        BY <2>6, PacketPanicOK, PacketOK
    <2>7. CASE OnAddTrackSink /\ dispatch.adding = r
        BY <2>7, AddTrackSinkOK
    <2>8. ASSUME NEW t \in Threads, CloseSteps(t), call[t].remuxer = r PROVE RemuxOK(r)'
        BY <2>8, CloseLockOK, CloseUnsinkOK, CloseUnsinkStoppedOK, CloseUnlistenOK DEF CloseSteps
    <2> QED
        BY <2>1, <2>2, <2>3, <2>4, <2>5, <2>6, <2>7, <2>8
        DEF Next, Calls, DispatchSteps, Elsewhere, Publishes
<1> QED
    BY <1>1, <1>2 DEF RemuxInv

\* Before anything was called, no remuxer is registered anywhere.
LEMMA RemuxInit ==
    ASSUME Init
    PROVE  TagInv /\ RemuxInv
<1>1. /\ call = [t \in Threads |-> Idle] /\ mtx = [r \in Remuxers |-> Nobody] /\ using = {}
      /\ dispatch = Quiet /\ listeners = [e \in Events |-> {}] /\ sinks = [x \in Tracks |-> {}]
      /\ stream = EmptyStream /\ infoframe = {} /\ own = [r \in Remuxers |-> EmptyStream]
    BY DEF Init, Events
<1>2. /\ readyState = [r \in Remuxers |-> "inactive"] /\ source = [r \in Remuxers |-> FALSE]
      /\ timeBase = [r \in Remuxers |-> 0] /\ acts = 0 /\ started = [r \in Remuxers |-> 0]
      /\ tag = [r \in Remuxers |-> NoTag] /\ heard = [r \in Remuxers |-> {}]
      /\ keyed = {} /\ rebased = {} /\ blind = {}
      /\ unheard = [r \in Remuxers |-> {}] /\ raced = [r \in Remuxers |-> {}] /\ panics = {}
    BY DEF Init
<1>3. Idle.pc = "idle" /\ Idle.remuxer = Nobody
    BY DEF Idle
<1>4. dispatch.pc = "idle" /\ dispatch.adding = Nobody
    BY <1>1, QuietIs
<1>5. TagInv
    <2>1. TimesOK
        BY <1>2, <1>4, RemuxerAssumption DEF TimesOK
    <2>2. TagTypes
        BY <1>2 DEF TagTypes
    <2>3. \A r \in Remuxers : TagOK(r)
        BY <1>2, NoTagIs DEF TagOK, Stamped
    <2> QED
        BY <2>1, <2>2, <2>3 DEF TagInv
<1>6. RemuxTypes
    BY <1>2 DEF RemuxTypes
<1>7. ASSUME NEW r \in Remuxers PROVE RemuxOK(r)
    <2>1. /\ \A t \in Threads : call[t].pc = "idle" /\ call[t].remuxer = Nobody
          /\ call[r].pc = "idle" /\ r # Nobody /\ mtx[r] = Nobody
          /\ own[r] = EmptyStream /\ Sources(own[r]) = {} /\ ClonesOK(own[r])
          /\ readyState[r] = "inactive" /\ ~source[r] /\ tag[r] = NoTag
          /\ \A e \in Events : r \notin listeners[e]
          /\ \A x \in Tracks : r \notin sinks[x]
        BY <1>1, <1>2, <1>3, Actors, EmptyFacts
    <2>2. Attaching(r) = {} /\ ~Crippled(r) /\ \A x : ~Pending(r, x)
        BY <1>4, <2>1, CrippledIs DEF Attaching, Pending, Dispatching
    <2>3. BrokenOK(r)
        BY <2>1, <2>2 DEF BrokenOK, CrippledOK, StatesOK, PendingOK, InSource, InClose
    <2>4. SoundOK(r)
        BY <1>4, <2>1 DEF SoundOK, ListensOK, SinksOK, AttachedOK, HeardOK
    <2> QED
        BY <1>2, <2>3, <2>4 DEF RemuxOK
<1> QED
    BY <1>5, <1>6, <1>7 DEF RemuxInv

\* Nothing happens to a remuxer while nothing happens.
LEMMA RemuxStays ==
    ASSUME TagInv, RemuxInv, UNCHANGED vars
    PROVE  TagInv' /\ RemuxInv'
<1> USE DEF vars, lockVars, streamVars, tableVars, remuxVars, threadVars, boundVars, historyVars
<1>1. TagInv'
    BY DEF TagInv, TimesOK, TagTypes, TagOK, Stamped
<1>2. RemuxTypes'
    BY DEF RemuxInv, RemuxTypes
<1>3. ASSUME NEW r \in Remuxers PROVE RemuxOK(r)'
    <2>1. /\ Crippled(r)' <=> Crippled(r)
          /\ Attaching(r)' = Attaching(r)
          /\ \A x : (Pending(r, x)' <=> Pending(r, x)) /\ (HeaderComes(r, x)' <=> HeaderComes(r, x))
        BY DEF Crippled, Attaching, Pending, Dispatching, HeaderComes
    <2>2. BrokenOK(r)' <=> BrokenOK(r)
        BY <2>1 DEF BrokenOK, CrippledOK, StatesOK, PendingOK
    <2>3. SoundOK(r)' <=> SoundOK(r)
        BY <2>1 DEF SoundOK, ListensOK, SinksOK, AttachedOK, HeardOK, Wants
    <2> QED
        BY <2>1, <2>2, <2>3 DEF RemuxInv, RemuxOK
<1> QED
    BY <1>1, <1>2, <1>3 DEF RemuxInv

-----------------------------------------------------------------------------
(* The remuxers, proved.                                                   *)

Inv == StreamInv /\ TagInv /\ RemuxInv

LEMMA InvStep ==
    ASSUME Inv, [Next]_vars
    PROVE  Inv'
<1>1. CallsOK /\ DispatchOK /\ StreamOK /\ FreshOK /\ TagInv /\ RemuxInv
    BY DEF Inv, StreamInv
<1>2. StreamInv'
    BY StreamInvStep DEF Inv
<1>3. CASE Next
    <2>1. TagInv'
        BY <1>1, <1>3, TagStep
    <2>2. RemuxInv'
        BY <1>1, <1>2, <1>3, RemuxStep DEF StreamInv
    <2> QED
        BY <1>2, <2>1, <2>2 DEF Inv
<1>4. CASE UNCHANGED vars
    BY <1>1, <1>2, <1>4, RemuxStays DEF Inv
<1> QED
    BY <1>3, <1>4

\* The calls in progress, the dispatch, the stream, the tags and what each
\* remuxer is registered with: all that the theorems below rest on, at any time.
THEOREM InvAlways == Spec => []Inv
<1>1. Init => Inv
    BY StreamInvInit, RemuxInit DEF Inv
<1>2. Inv /\ [Next]_vars => Inv'
    BY InvStep
<1> QED
    BY <1>1, <1>2, PTL DEF Spec

\* The timestamp of a tag (format) is that of its packet relative to the packet
\* that started the pumping, for any number of tracks and remuxers; only audio
\* that is older wraps, and only metadata that came later changes it.
THEOREM AlwaysStampedFromStart == Spec => []StampedFromStart
<1>1. ASSUME Inv PROVE StampedFromStart
    BY <1>1 DEF Inv, TagInv, TagOK, Stamped, StampedFromStart
<1> QED
    BY <1>1, InvAlways, PTL

\* What a player gets can be decoded (onVideoPacket, onAudioPacket, Source): an
\* interframe follows a keyframe and a frame its header, but for the cases the
\* property names, however many tracks, players and calls there are.
THEOREM AlwaysDecodable == Spec => []StreamIsDecodable
<1>1. ASSUME Inv PROVE StreamIsDecodable
    <2>1. \A r \in Remuxers : TagOK(r) /\ (Crippled(r) \/ HeardOK(r))
        BY <1>1 DEF Inv, TagInv, RemuxInv, RemuxOK, SoundOK
    <2> QED
        BY <2>1 DEF StreamIsDecodable, TagOK, HeardOK
<1> QED
    BY <1>1, InvAlways, PTL

\* A remuxer whose Source returned is a sink of every source it wants: no
\* interleaving of Source, AddTrack, RemoveTrack and Close loses a track but
\* the one that is added while Source runs.
THEOREM AlwaysAttachedToEveryTrack == Spec => []AttachedToEveryTrack
<1>1. ASSUME Inv PROVE AttachedToEveryTrack
    <2>1. ASSUME NEW r \in using, At(r, "idle"), PublisherIdle, readyState[r] # "inactive", ~Crippled(r),
                 NEW entry \in Entries(stream), Wants(r, entry.track)
          PROVE  r \in sinks[entry.track] \/ entry.track \in raced[r]
        <3>1. r \in Remuxers /\ AttachedOK(r)
            BY <1>1, <2>1, CallFacts DEF Inv, StreamInv, RemuxInv, RemuxOK, SoundOK
        <3>2. entry.track \in TracksOf(stream)
            BY <2>1 DEF Entries, TracksOf
        <3>3. ~Pending(r, entry.track) /\ dispatch.adding # r /\ Attaching(r) = {}
            BY <2>1, <3>1, QuietIs, Actors DEF PublisherIdle, Pending, Dispatching, Attaching, At
        <3> QED
            BY <2>1, <3>1, <3>2, <3>3 DEF AttachedOK, At
    <2> QED
        BY <2>1 DEF AttachedToEveryTrack
<1> QED
    BY <1>1, InvAlways, PTL

\* Close leaves nothing behind, whoever calls it and whatever the publisher
\* does meanwhile, but the track that was added while it ran.
THEOREM AlwaysDetachedWhenClosed == Spec => []DetachedWhenClosed
<1>1. ASSUME Inv PROVE DetachedWhenClosed
    <2>1. ASSUME NEW r \in Remuxers, ~Crippled(r), \A t \in Threads : call[t].remuxer # r,
                 readyState[r] = "inactive"
          PROVE  /\ \A e \in Events : r \notin listeners[e]
                 /\ \A x \in Tracks : r \in sinks[x] => x \in raced[r]
        <3>1. ListensOK(r) /\ SinksOK(r)
            BY <1>1, <2>1 DEF Inv, RemuxInv, RemuxOK, SoundOK
        <3>2. mtx[r] = Nobody
            BY <1>1, <2>1, CallFacts DEF Inv, StreamInv
        <3>3. own[r] = EmptyStream /\ \A e \in Events : r \notin listeners[e]
            BY <2>1, <3>1, <3>2 DEF ListensOK
        <3> QED
            BY <3>1, <3>3, EmptyFacts DEF SinksOK
    <2> QED
        BY <2>1 DEF DetachedWhenClosed, Events
<1> QED
    BY <1>1, InvAlways, PTL

\* A panic in a handler, which costs the other players a packet, has always the
\* same origin: a track that was added while Close ran, or stopped before
\* Source attached it.
THEOREM PanicsHaveOneOrigin == Spec => []PanicsOnlyAfterRace
<1>1. ASSUME Inv PROVE PanicsOnlyAfterRace
    BY <1>1 DEF Inv, RemuxInv, RemuxTypes, RemuxOK, PanicsOnlyAfterRace
<1> QED
    BY <1>1, InvAlways, PTL

\* What no other invariant needs to know.
RestTypes == closed \in BOOLEAN /\ metadata \in BOOLEAN /\ sources \in [Remuxers -> Nat]

LEMMA RestStep ==
    ASSUME RestTypes, [Next]_vars
    PROVE  RestTypes'
<1>1. closed' \in {closed, TRUE} /\ metadata' \in {metadata, TRUE}
    BY DEF vars, streamVars, Next, Calls, DispatchSteps, SourceSteps, CloseSteps,
           Source, CallClose, StreamAddTrack, StreamRemoveTrack, StreamEnds, StreamClose, StreamData, SinkPacket,
           StreamStopTrack, StreamClosed, StreamLock, OnAddTrackSink, StreamUnlock, SourceUnlock,
           OnAddTrack, OnRemoveTrack, OnRemoveTrackPanic, OnData, OnEnd, OnPacketPanic, OnPacket,
           SourceMetadata, SourceTracks, SourceAttach, SourceAttachStopped, SourceSink, SourceListen,
           CloseLock, CloseUnsink, CloseUnsinkStopped, CloseUnlisten
<1>2. UNCHANGED sources \/ \E r \in Remuxers : sources' = [sources EXCEPT ![r] = @ + 1]
    BY DEF vars, boundVars, Next, Calls, DispatchSteps, SourceSteps, CloseSteps,
           Source, CallClose, StreamAddTrack, StreamRemoveTrack, StreamEnds, StreamClose, StreamData, SinkPacket,
           StreamStopTrack, StreamClosed, StreamLock, OnAddTrackSink, StreamUnlock, SourceUnlock,
           OnAddTrack, OnRemoveTrack, OnRemoveTrackPanic, OnData, OnEnd, OnPacketPanic, OnPacket,
           SourceMetadata, SourceTracks, SourceAttach, SourceAttachStopped, SourceSink, SourceListen,
           CloseLock, CloseUnsink, CloseUnsinkStopped, CloseUnlisten
<1>3. sources' \in [Remuxers -> Nat]
    BY <1>2 DEF RestTypes
<1> QED
    BY <1>1, <1>3 DEF RestTypes

\* Every variable has its type, for any number of tracks and remuxers.
THEOREM AlwaysTyped == Spec => []TypeOK
<1>1. ASSUME Init PROVE RestTypes
    <2>1. closed = FALSE /\ metadata = FALSE /\ sources = [r \in Remuxers |-> 0]
        BY <1>1 DEF Init
    <2> QED
        BY <2>1 DEF RestTypes
<1>2. RestTypes /\ [Next]_vars => RestTypes'
    BY RestStep
<1>3. ASSUME Inv, RestTypes PROVE TypeOK
    <2> USE <1>3 DEF Inv, StreamInv
    <2>1. /\ call \in [Threads -> Call] /\ mtx \in [Remuxers -> Threads \cup {Nobody}]
          /\ using \subseteq Remuxers
        BY CallFacts
    <2>2. /\ dispatch \in Dispatch /\ listeners \in [ToSet(StreamEvents) -> SUBSET Remuxers]
          /\ sinks \in [Tracks -> SUBSET Remuxers] /\ sourceDisp \in [Tracks -> {Publisher, Nobody}]
          /\ streamDisp \in {Publisher, Nobody}
        BY DEF DispatchOK, LocksOK, Events
    <2>3. /\ stream \in MediaStreams /\ own \in [Remuxers -> MediaStreams]
          /\ stopped \subseteq Tracks /\ infoframe \subseteq Tracks
          /\ ids \in [Tracks -> Nat] /\ streamMtx \in {Publisher, Nobody}
        BY DEF StreamOK, FreshOK
    <2>4. /\ acts \in Nat /\ timeBase \in [Remuxers -> Nat] /\ started \in [Remuxers -> Nat]
          /\ tag \in [Remuxers -> Tag \cup {NoTag}]
          /\ readyState \in [Remuxers -> {"inactive", "waiting", "pumping"}]
          /\ keyed \subseteq Remuxers /\ rebased \subseteq Remuxers /\ blind \subseteq Remuxers
        BY DEF TagInv, TimesOK, TagTypes
    <2>5. /\ source \in [Remuxers -> BOOLEAN]
          /\ heard \in [Remuxers -> SUBSET Tracks] /\ unheard \in [Remuxers -> SUBSET Tracks]
          /\ raced \in [Remuxers -> SUBSET Tracks] /\ panics \subseteq Remuxers
        BY DEF RemuxInv, RemuxTypes
    <2> QED
        BY <2>1, <2>2, <2>3, <2>4, <2>5 DEF TypeOK, RestTypes
<1> QED
    BY <1>1, <1>2, <1>3, InvAlways, PTL DEF Spec

=============================================================================
