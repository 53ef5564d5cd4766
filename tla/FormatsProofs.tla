----------------------------- MODULE FormatsProofs -----------------------------
(***************************************************************************)
(* What goes out to a player: the shares of bw.Manager, for any number of  *)
(* Readers, any bandwidth and any size of buffers; the packets of the RTP  *)
(* remuxer, which come whole for any frames, packets and numbers; and the  *)
(* segments of the FMP4 and CMAF remuxers, for any clock, mode and frames. *)
(* What comes in: the packets of the FLV demuxer, for any tags and however *)
(* their bytes are cut.                                                    *)
(***************************************************************************)
EXTENDS Bandwidth, RtpRemuxer, Segmenter, FlvDemuxer, Induction, FiniteSetTheorems,
        SequenceTheorems, TLAPS

-----------------------------------------------------------------------------
(* The bandwidth.                                                          *)

SharingTypesOK ==
    /\ in \in Int
    /\ readers \subseteq Readers /\ IsFiniteSet(readers)
    /\ avgIn \in Nat
    /\ count \in [Readers -> Nat]
    /\ next \in [Readers -> BOOLEAN]
    /\ at \in [Readers -> {"idle", "loop", "read"}]
    /\ avg \in [Readers -> Nat]
    /\ cnt \in [Readers -> Nat]
    /\ burst \in [Readers -> Nat]

\* Nobody has a share before Init of the manager.
SharesOK ==
    \/ in = -1 /\ readers = {} /\ avgIn = 0
    \/ in \in Nat /\ avgIn * Cardinality(readers) <= in

\* What Read knows where it is: in the loop its local count is the count of the
\* Reader, behind the loop the count is below the share it has loaded.
ReaderOK(r) ==
    /\ burst[r] <= count[r]
    /\ at[r] = "loop" => avg[r] > 0
    /\ next[r] /\ at[r] = "loop" => cnt[r] = count[r]
    /\ next[r] /\ at[r] = "read" /\ avg[r] > 0 => count[r] < avg[r]
    /\ next[r] /\ at[r] = "idle" /\ avg[r] > 0 => burst[r] < avg[r] + MaxRead

SharingInv == SharingTypesOK /\ SharesOK /\ \A r \in Readers : ReaderOK(r)

-----------------------------------------------------------------------------

\* A share of n among k is not negative, and k of them are no more than n.
LEMMA Shares ==
    ASSUME NEW n \in Nat, NEW k \in Nat \ {0}
    PROVE  n \div k \in Nat /\ (n \div k) * k <= n
OBVIOUS

LEMMA InitInvariant == Init => SharingInv
<1> SUFFICES ASSUME Init PROVE SharingInv
    OBVIOUS
<1>1. SharingTypesOK
    BY FS_EmptySet DEF Init, SharingTypesOK
<1>2. SharesOK
    BY DEF Init, SharesOK
<1>3. \A r \in Readers : ReaderOK(r)
    BY DEF Init, ReaderOK
<1> QED
    BY <1>1, <1>2, <1>3 DEF SharingInv

LEMMA InitManagerInvariant ==
    ASSUME SharingInv, NEW n \in Bandwidths, InitManager(n)
    PROVE  SharingInv'
<1> USE DEF InitManager, own
<1>1. n \in Nat
    BY BandwidthAssumption
<1>2. SharingTypesOK'
    BY <1>1 DEF SharingInv, SharingTypesOK
<1>3. SharesOK'
    BY <1>1, FS_EmptySet DEF SharingInv, SharesOK
<1>4. \A r \in Readers : ReaderOK(r)'
    BY DEF SharingInv, ReaderOK
<1> QED
    BY <1>2, <1>3, <1>4 DEF SharingInv

LEMMA NewReaderInvariant ==
    ASSUME SharingInv, NEW r \in Readers, NewReader(r)
    PROVE  SharingInv'
<1> DEFINE k == Cardinality(readers) + 1
<1> USE DEF NewReader
<1>1. in \in Nat
    BY DEF SharingInv, SharesOK
<1>2. IsFiniteSet(readers) /\ Cardinality(readers) \in Nat
    BY FS_CardinalityType DEF SharingInv, SharingTypesOK
<1>3. avgIn' \in Nat /\ avgIn' * k <= in
    BY <1>1, <1>2, Shares
<1>4. IsFiniteSet(readers') /\ Cardinality(readers') = k
    BY <1>2, FS_AddElement
<1>5. SharingTypesOK'
    BY <1>1, <1>3, <1>4 DEF SharingInv, SharingTypesOK
<1>6. SharesOK'
    BY <1>1, <1>3, <1>4 DEF SharesOK
<1>7. ASSUME NEW q \in Readers PROVE ReaderOK(q)'
  <2>1. CASE q = r
      BY <2>1 DEF SharingInv, SharingTypesOK, ReaderOK
  <2>2. CASE q # r
      BY <2>2 DEF SharingInv, SharingTypesOK, ReaderOK
  <2> QED
      BY <2>1, <2>2
<1> QED
    BY <1>5, <1>6, <1>7 DEF SharingInv

LEMMA CloseInvariant ==
    ASSUME SharingInv, NEW r \in Readers, Close(r)
    PROVE  SharingInv'
<1> USE DEF Close, own
<1>1. IsFiniteSet(readers) /\ Cardinality(readers) \in Nat
    BY FS_CardinalityType DEF SharingInv, SharingTypesOK
<1>2. IsFiniteSet(readers') /\ Cardinality(readers') = Cardinality(readers) - 1
    BY <1>1, FS_RemoveElement
<1>3. SharingTypesOK'
    BY <1>2 DEF SharingInv, SharingTypesOK
<1>4. in \in Nat /\ avgIn \in Nat /\ avgIn * Cardinality(readers) <= in
    BY DEF SharingInv, SharingTypesOK, SharesOK
<1>5. avgIn * (Cardinality(readers) - 1) <= avgIn * Cardinality(readers)
    BY <1>1, <1>4
<1>6. Cardinality(readers') \in Int
    BY <1>1, <1>2
<1>7. SharesOK'
    BY <1>1, <1>2, <1>4, <1>5, <1>6 DEF SharesOK
<1>8. \A q \in Readers : ReaderOK(q)'
    BY DEF SharingInv, ReaderOK
<1> QED
    BY <1>3, <1>7, <1>8 DEF SharingInv

\* A step of Read leaves the shares and the other Readers alone.
LEMMA OwnStep ==
    ASSUME SharingInv, NEW r \in Readers, UNCHANGED <<in, readers, avgIn>>,
           SharingTypesOK', ReaderOK(r)',
           \A q \in Readers \ {r} :
               /\ count'[q] = count[q] /\ next'[q] = next[q] /\ at'[q] = at[q]
               /\ avg'[q] = avg[q] /\ cnt'[q] = cnt[q] /\ burst'[q] = burst[q]
    PROVE  SharingInv'
<1>1. SharesOK'
    BY DEF SharingInv, SharesOK
<1>2. ASSUME NEW q \in Readers PROVE ReaderOK(q)'
  <2>1. CASE q = r
      BY <2>1
  <2>2. CASE q # r
      BY <2>2 DEF SharingInv, ReaderOK
  <2> QED
      BY <2>1, <2>2
<1> QED
    BY <1>1, <1>2 DEF SharingInv

LEMMA LoadShareInvariant ==
    ASSUME SharingInv, NEW r \in Readers, LoadShare(r)
    PROVE  SharingInv'
<1> USE DEF LoadShare
<1>1. SharingTypesOK'
    BY DEF SharingInv, SharingTypesOK
<1>2. ReaderOK(r)'
    BY DEF SharingInv, SharingTypesOK, ReaderOK
<1> QED
    BY <1>1, <1>2, OwnStep DEF SharingInv, SharingTypesOK

LEMMA SleepInvariant ==
    ASSUME SharingInv, NEW r \in Readers, Sleep(r)
    PROVE  SharingInv'
<1> USE DEF Sleep, Over
<1>1. cnt[r] - avg[r] \in Nat
    BY DEF SharingInv, SharingTypesOK
<1>2. SharingTypesOK'
    BY <1>1 DEF SharingInv, SharingTypesOK
<1>3. ReaderOK(r)'
    BY <1>1 DEF SharingInv, SharingTypesOK, ReaderOK
<1> QED
    BY <1>2, <1>3, OwnStep DEF SharingInv, SharingTypesOK

LEMMA LoopEndsInvariant ==
    ASSUME SharingInv, NEW r \in Readers, LoopEnds(r)
    PROVE  SharingInv'
<1> USE DEF LoopEnds, Over
<1>1. SharingTypesOK'
    BY DEF SharingInv, SharingTypesOK
<1>2. ReaderOK(r)'
    BY DEF SharingInv, SharingTypesOK, ReaderOK
<1> QED
    BY <1>1, <1>2, OwnStep DEF SharingInv, SharingTypesOK

LEMMA ReadInvariant ==
    ASSUME SharingInv, NEW r \in Readers, NEW n \in 0..MaxRead, Read(r, n)
    PROVE  SharingInv'
<1> USE DEF Read
<1>1. n \in Nat /\ n <= MaxRead /\ MaxRead \in Nat
    BY BandwidthAssumption
<1>2. SharingTypesOK'
    BY <1>1 DEF SharingInv, SharingTypesOK
<1>3. ReaderOK(r)'
    BY <1>1 DEF SharingInv, SharingTypesOK, ReaderOK
<1> QED
    BY <1>2, <1>3, OwnStep DEF SharingInv, SharingTypesOK

LEMMA SharingInvariance == Spec => []SharingInv
<1>1. SharingInv /\ [Next]_vars => SharingInv'
  <2> SUFFICES ASSUME SharingInv, [Next]_vars PROVE SharingInv'
      OBVIOUS
  <2>1. CASE \E n \in Bandwidths : InitManager(n)
      BY <2>1, InitManagerInvariant
  <2>2. ASSUME NEW r \in Readers, NewReader(r) PROVE SharingInv'
      BY <2>2, NewReaderInvariant
  <2>3. ASSUME NEW r \in Readers, Close(r) PROVE SharingInv'
      BY <2>3, CloseInvariant
  <2>4. ASSUME NEW r \in Readers, LoadShare(r) PROVE SharingInv'
      BY <2>4, LoadShareInvariant
  <2>5. ASSUME NEW r \in Readers, Sleep(r) PROVE SharingInv'
      BY <2>5, SleepInvariant
  <2>6. ASSUME NEW r \in Readers, LoopEnds(r) PROVE SharingInv'
      BY <2>6, LoopEndsInvariant
  <2>7. ASSUME NEW r \in Readers, NEW n \in 0..MaxRead, Read(r, n) PROVE SharingInv'
      BY <2>7, ReadInvariant
  <2>8. CASE UNCHANGED vars
      BY <2>8 DEF vars, own, SharingInv, SharingTypesOK, SharesOK, ReaderOK
  <2> QED
      BY <2>1, <2>2, <2>3, <2>4, <2>5, <2>6, <2>7, <2>8 DEF Next
<1> QED
    BY <1>1, InitInvariant, PTL DEF Spec

-----------------------------------------------------------------------------

\* The shares never exceed the bandwidth together, and a Reader with a share
\* takes less than it and a buffer between two sleeps, however NewReader,
\* Close and the Reads of all interleave.
THEOREM SharesAreKept == Spec => []BandwidthIsShared
<1>1. SharingInv => BandwidthIsShared
    BY DEF SharingInv, SharingTypesOK, SharesOK, ReaderOK, BandwidthIsShared
<1> QED
    BY <1>1, SharingInvariance, PTL

-----------------------------------------------------------------------------
(* The RTP remuxer.  The invariant follows a frame through the loop: what  *)
(* is left of it always fits the packets that are left, the player has     *)
(* just what has been cut, and the number it heard last is the one the     *)
(* track, or the frame, counts on from.                                    *)

Tracks == Audio \cup {Video}
Numbers == 0..MaxSN
TrackType == [source : Tracks, own : BOOLEAN, id : Nat \ {0}, SN : Numbers]
FrameType ==
    [id : IDs, SN : Numbers, live : BOOLEAN, n : Nat, size : Nat \ {0}, i : Nat, left : Nat]

RtpTypeOK ==
    /\ stream \subseteq Tracks /\ infoframe \subseteq Tracks
    /\ readyState \in {"inactive", "waiting", "pumping"}
    /\ tracks \subseteq TrackType /\ index \in Nat \ {0} /\ attaches \in Nat
    /\ frame \in FrameType \cup {NoFrame}
    /\ heard \in [IDs -> [SN : Numbers, bytes : Nat]]
    /\ owed \in Int /\ astray \in BOOLEAN /\ excuses \subseteq {"overtaken", "oversized"}

\* The rest of a frame takes exactly the packets that are left.
Cut(left, rest, size) ==
    IF left = 0 THEN rest = 0 ELSE (left - 1) * size < rest /\ rest <= left * size

FrameOK == Sending => Cut(frame.left, frame.n - frame.i, frame.size)

\* Ids name the tracks of the remuxer.
IdsOK ==
    /\ readyState = "inactive" => tracks = {} /\ index = 1
    /\ \A track \in tracks : track.id < index /\ (track.own => track.id \in IDs)
    /\ \A track, other \in tracks : track.id = other.id => track = other

\* Whose number the player has heard last.
SequenceOK ==
    "overtaken" \notin excuses =>
        /\ ~astray
        /\ Sending =>
            /\ readyState # "inactive" /\ frame.live /\ frame.id < index
            /\ heard[frame.id].SN = frame.SN
        /\ \A track \in tracks :
            track.own /\ (Sending => track.id # frame.id) => heard[track.id].SN = track.SN
        /\ \A id \in IDs : id >= index => heard[id].SN = 0

\* What the player has put together.
BytesOK ==
    excuses = {} =>
        /\ owed = IF Sending /\ frame.left > 0 THEN 1 ELSE 0
        /\ \A id \in IDs : (Sending => id # frame.id) => heard[id].bytes = 0
        /\ Sending =>
            /\ frame.n < AULimit
            /\ heard[frame.id].bytes = IF frame.left > 0 THEN frame.i ELSE 0

RtpInv == RtpTypeOK /\ FrameOK /\ IdsOK /\ SequenceOK /\ BytesOK

-----------------------------------------------------------------------------
(* Cutting and numbering.                                                  *)

\* A frame is cut into as many packets as it fills, the last one perhaps in part.
LEMMA CountCuts ==
    ASSUME NEW n \in Nat, NEW room \in Nat \ {0}
    PROVE  Count(n, room) \in Nat /\ Cut(Count(n, room), n, room)
<1> DEFINE q == n \div room
           r == n % room
<1>1. q \in Nat /\ r \in 0..(room - 1) /\ n = room * q + r
    OBVIOUS
<1> HIDE DEF q, r
<1>2. CASE r = 0
  <2>1. Count(n, room) = q
      BY <1>1, <1>2 DEF Count, q, r
  <2>2. q = 0 => n = 0
      BY <1>1, <1>2
  <2>3. q # 0 => (q - 1) * room = room * q - room /\ q * room = room * q
      BY <1>1
  <2> QED BY <1>1, <1>2, <2>1, <2>2, <2>3 DEF Cut
<1>3. CASE r # 0
  <2>1. Count(n, room) = q + 1
      BY <1>1, <1>3 DEF Count, q, r
  <2>2. (q + 1 - 1) * room = room * q /\ (q + 1) * room = room * q + room
      BY <1>1
  <2> QED BY <1>1, <1>3, <2>1, <2>2 DEF Cut
<1> QED BY <1>2, <1>3

\* A packet that is not the last one is full, and leaves a rest for the others.
LEMMA CutStep ==
    ASSUME NEW left \in Nat, NEW rest \in Int, NEW size \in Nat \ {0},
           Cut(left, rest, size), left > 0
    PROVE  /\ left = 1 => rest \in 1..size
           /\ left # 1 => rest - size > 0 /\ Cut(left - 1, rest - size, size)
<1>1. CASE left = 1
    BY <1>1 DEF Cut
<1>2. CASE left # 1
  <2>1. left - 1 \in Nat \ {0} /\ left - 2 \in Nat
      BY <1>2
  <2>2. left * size = (left - 1) * size + size /\ (left - 1) * size = (left - 1 - 1) * size + size
      BY <2>1
  <2>3. (left - 1 - 1) * size \in Nat
      BY <2>1
  <2> QED BY <1>2, <2>1, <2>2, <2>3 DEF Cut
<1> QED BY <1>1, <1>2

\* The next number is a number, and the one a player waits for.
LEMMA NextFollows ==
    ASSUME NEW n \in Numbers
    PROVE  NextSN(n) \in Numbers /\ Follows(NextSN(n), n)
<1>1. CASE n = MaxSN
  <2>1. (n + 1) \div (MaxSN + 1) = 1
      BY <1>1, RtpAssumption
  <2> QED BY <1>1, <2>1, RtpAssumption DEF NextSN, Follows, Numbers
<1>2. CASE n # MaxSN
    BY <1>2, RtpAssumption DEF NextSN, Follows, Numbers
<1> QED BY <1>1, <1>2

LEMMA ShortLength == ASSUME NEW n \in Nat, n < AULimit PROVE AULength(n) = n
BY RtpAssumption DEF AULength

LEMMA FrameIsTyped ==
    ASSUME RtpTypeOK
    PROVE  Sending => frame \in FrameType
BY DEF RtpTypeOK, Sending

-----------------------------------------------------------------------------
(* Every step keeps the invariant.                                         *)

LEMMA SilenceIsTyped == Silence \in [IDs -> [SN : Numbers, bytes : Nat]]
BY RtpAssumption DEF Silence, Numbers

LEMMA RtpInvInit == RtpInit => RtpInv
<1> SUFFICES ASSUME RtpInit PROVE RtpInv
    OBVIOUS
<1>1. ~Sending /\ frame = NoFrame
    BY DEF RtpInit, Sending
<1>2. RtpTypeOK
  <2>1. heard \in [IDs -> [SN : Numbers, bytes : Nat]]
      BY SilenceIsTyped DEF RtpInit
  <2>2. stream \subseteq Tracks /\ infoframe \subseteq Tracks /\ tracks \subseteq TrackType
      BY DEF RtpInit
  <2>3. excuses \subseteq {"overtaken", "oversized"} /\ frame \in FrameType \cup {NoFrame}
      BY DEF RtpInit
  <2>4. readyState \in {"inactive", "waiting", "pumping"} /\ astray \in BOOLEAN
      BY DEF RtpInit
  <2>5. index \in Nat \ {0} /\ attaches \in Nat /\ owed \in Int
      BY DEF RtpInit
  <2> QED BY <2>1, <2>2, <2>3, <2>4, <2>5 DEF RtpTypeOK
<1>3. IdsOK /\ SequenceOK /\ FrameOK
    BY <1>1 DEF RtpInit, IdsOK, SequenceOK, FrameOK, Silence
<1>4. BytesOK
    BY <1>1 DEF RtpInit, BytesOK, Silence
<1> QED BY <1>2, <1>3, <1>4 DEF RtpInv

\* Source: an inactive remuxer has no tracks, and a player that has heard nothing.
LEMMA SourceStep == ASSUME RtpInv, Source PROVE RtpInv'
<1> USE DEF RtpInv, source, player
<1> DEFINE wanted == {t \in stream : Wanted(t)}
<1>1. PICK ids \in [wanted -> 1..Cardinality(wanted)] :
        /\ \A t, u \in wanted : ids[t] = ids[u] => t = u
        /\ tracks' = {[source |-> t, own |-> FALSE, id |-> ids[t], SN |-> 0] : t \in wanted}
    BY DEF Source
<1>2. wanted \subseteq Tracks /\ Cardinality(wanted) \in Nat
  <2>1. IsFiniteSet(Tracks)
      BY RtpAssumption, FS_AddElement DEF Tracks
  <2>2. wanted \subseteq Tracks
      BY DEF RtpTypeOK
  <2> QED BY <2>1, <2>2, FS_Subset, FS_CardinalityType
<1>3. /\ index' = Cardinality(wanted) + 1 /\ readyState' = "waiting"
      /\ attaches' = attaches + 1
      /\ UNCHANGED <<stream, infoframe, frame, heard, owed, astray, excuses>>
      /\ readyState = "inactive"
    BY DEF Source
<1> HIDE DEF wanted
<1>4. \A track \in tracks' : track \in TrackType /\ ~track.own /\ track.id < index'
  <2>1. \A t \in wanted : t \in Tracks /\ ids[t] \in Nat \ {0} /\ ids[t] < index'
      BY <1>2, <1>3
  <2>2. 0 \in Numbers
      BY RtpAssumption DEF Numbers
  <2> SUFFICES ASSUME NEW track \in tracks'
               PROVE  track \in TrackType /\ ~track.own /\ track.id < index'
      OBVIOUS
  <2>3. PICK t \in wanted : track = [source |-> t, own |-> FALSE, id |-> ids[t], SN |-> 0]
      BY <1>1
  <2>4. track \in TrackType
      BY <2>1, <2>2, <2>3 DEF TrackType
  <2> QED BY <2>1, <2>3, <2>4
<1>5. RtpTypeOK'
    BY <1>2, <1>3, <1>4 DEF RtpTypeOK
<1>6. \A track, other \in tracks' : track.id = other.id => track = other
  <2> SUFFICES ASSUME NEW track \in tracks', NEW other \in tracks', track.id = other.id
               PROVE  track = other
      OBVIOUS
  <2>1. PICK t \in wanted : track = [source |-> t, own |-> FALSE, id |-> ids[t], SN |-> 0]
      BY <1>1
  <2>2. PICK u \in wanted : other = [source |-> u, own |-> FALSE, id |-> ids[u], SN |-> 0]
      BY <1>1
  <2>3. ids[t] = ids[u]
      BY <2>1, <2>2
  <2> QED BY <1>1, <2>1, <2>2, <2>3
<1>7. IdsOK'
    BY <1>3, <1>4, <1>6 DEF IdsOK
<1>8. Sending' = Sending
    BY <1>3 DEF Sending
<1>9. FrameOK' /\ BytesOK'
    BY <1>3, <1>8 DEF FrameOK, BytesOK
<1>10. SequenceOK'
  <2>1. "overtaken" \notin excuses => ~Sending /\ \A id \in IDs : heard[id].SN = 0
      BY <1>3 DEF SequenceOK, IdsOK, IDs
  <2> QED BY <1>3, <1>4, <1>8, <2>1 DEF SequenceOK
<1> QED BY <1>5, <1>7, <1>9, <1>10

\* Close: the player begins anew, and is overtaken if there is a frame.
LEMMA CloseStep == ASSUME RtpInv, RtpClose PROVE RtpInv'
<1> USE DEF RtpInv
<1>1. /\ readyState' = "inactive" /\ tracks' = {} /\ index' = 1
      /\ heard' = Silence /\ owed' = 0 /\ astray' = FALSE
      /\ UNCHANGED <<stream, infoframe, attaches>>
    BY DEF RtpClose, source
<1>2. heard' \in [IDs -> [SN : Numbers, bytes : Nat]]
    BY <1>1, SilenceIsTyped
<1>3. IdsOK'
    BY <1>1 DEF IdsOK
<1>6. /\ stream' \subseteq Tracks /\ infoframe' \subseteq Tracks /\ tracks' \subseteq TrackType
      /\ readyState' \in {"inactive", "waiting", "pumping"} /\ astray' \in BOOLEAN
      /\ index' \in Nat \ {0} /\ attaches' \in Nat /\ owed' \in Int
  <2>1. stream' \subseteq Tracks /\ infoframe' \subseteq Tracks /\ attaches' \in Nat
      BY <1>1 DEF RtpTypeOK
  <2>2. tracks' \subseteq TrackType
      BY <1>1
  <2>3. readyState' \in {"inactive", "waiting", "pumping"} /\ astray' \in BOOLEAN
      BY <1>1
  <2>4. index' \in Nat \ {0} /\ owed' \in Int
      BY <1>1
  <2> QED BY <2>1, <2>2, <2>3, <2>4
<1>4. CASE Sending
  <2>1. frame \in FrameType /\ frame' = [frame EXCEPT !.SN = 0, !.live = FALSE]
      BY <1>4, FrameIsTyped DEF RtpClose
  <2>2. frame' \in FrameType
    <3>1. 0 \in Numbers
        BY RtpAssumption DEF Numbers
    <3> QED BY <2>1, <3>1 DEF FrameType
  <2>3. excuses' = {"overtaken"}
      BY <1>4 DEF RtpClose
  <2>7. RtpTypeOK'
    <3>1. frame' \in FrameType \cup {NoFrame} /\ excuses' \subseteq {"overtaken", "oversized"}
        BY <2>2, <2>3
    <3> QED BY <1>2, <1>6, <3>1 DEF RtpTypeOK
  <2>4. frame'.left = frame.left /\ frame'.n = frame.n /\ frame'.i = frame.i /\ frame'.size = frame.size
      BY <2>1 DEF FrameType
  <2>5. FrameOK'
      BY <1>4, <2>4 DEF FrameOK
  <2>6. SequenceOK' /\ BytesOK'
      BY <2>3 DEF SequenceOK, BytesOK
  <2> QED BY <1>3, <2>5, <2>6, <2>7
<1>5. CASE ~Sending
  <2>1. frame' = NoFrame /\ excuses' = {} /\ ~Sending'
      BY <1>5 DEF RtpClose, Sending
  <2>2. RtpTypeOK'
    <3>1. frame' \in FrameType \cup {NoFrame} /\ excuses' \subseteq {"overtaken", "oversized"}
        BY <2>1
    <3> QED BY <1>2, <1>6, <3>1 DEF RtpTypeOK
  <2>3. FrameOK' /\ SequenceOK' /\ BytesOK'
      BY <1>1, <2>1 DEF FrameOK, SequenceOK, BytesOK, Silence
  <2> QED BY <1>3, <2>2, <2>3
<1> QED BY <1>4, <1>5

\* AddTrack: the new id is one the player has heard nothing of.
LEMMA AddTrackStep == ASSUME RtpInv, NEW t \in Tracks, AddTrack(t) PROVE RtpInv'
<1> USE DEF RtpInv
<1>1. /\ ~Sending /\ index <= MaxID /\ stream' = stream \cup {t}
      /\ UNCHANGED <<infoframe, readyState, attaches, frame, heard, owed, astray, excuses>>
    BY DEF AddTrack, player
<1>2. ~Sending'
    BY <1>1 DEF Sending
<1>3. FrameOK' /\ BytesOK'
    BY <1>1, <1>2 DEF FrameOK, BytesOK
<1> DEFINE new == [source |-> t, own |-> TRUE, id |-> index, SN |-> 0]
<1>4. CASE readyState # "inactive" /\ tracks' = tracks \cup {new} /\ index' = index + 1
  <2>1. new \in TrackType /\ index \in IDs
      BY <1>1, RtpAssumption DEF RtpTypeOK, TrackType, Numbers, IDs
  <2>2. RtpTypeOK'
    <3>1. tracks' \subseteq TrackType
        BY <1>4, <2>1 DEF RtpTypeOK
    <3>2. stream' \subseteq Tracks /\ index' \in Nat \ {0}
        BY <1>1, <1>4 DEF RtpTypeOK
    <3> QED BY <1>1, <3>1, <3>2 DEF RtpTypeOK
  <2>3. \A track \in tracks : track.id < index /\ track.id \in Nat
      BY DEF IdsOK, RtpTypeOK, TrackType
  <2>4. new.id = index /\ new.own /\ new.SN = 0 /\ index \in Nat
      BY DEF RtpTypeOK
  <2> HIDE DEF new
  <2>5. IdsOK'
      BY <1>1, <1>4, <2>1, <2>3, <2>4 DEF IdsOK
  <2>6. SequenceOK'
      BY <1>1, <1>2, <1>4, <2>1, <2>3, <2>4 DEF SequenceOK, IDs
  <2> QED BY <1>3, <2>2, <2>5, <2>6
<1>5. CASE UNCHANGED <<tracks, index>>
  <2>1. RtpTypeOK' /\ IdsOK'
      BY <1>1, <1>5 DEF RtpTypeOK, IdsOK
  <2>2. SequenceOK'
      BY <1>1, <1>2, <1>5 DEF SequenceOK
  <2> QED BY <1>3, <2>1, <2>2
<1> QED BY <1>4, <1>5 DEF AddTrack

LEMMA RemoveTrackStep == ASSUME RtpInv, NEW t \in Tracks, RemoveTrack(t) PROVE RtpInv'
<1> USE DEF RtpInv
<1>1. /\ ~Sending /\ stream' = stream \ {t} /\ tracks' \subseteq tracks
      /\ UNCHANGED <<infoframe, readyState, index, attaches, frame, heard, owed, astray, excuses>>
    BY DEF RemoveTrack, player
<1>2. ~Sending'
    BY <1>1 DEF Sending
<1>3. FrameOK' /\ BytesOK'
    BY <1>1, <1>2 DEF FrameOK, BytesOK
<1>4. RtpTypeOK' /\ IdsOK'
    BY <1>1 DEF RtpTypeOK, IdsOK
<1>5. SequenceOK'
    BY <1>1, <1>2 DEF SequenceOK
<1> QED BY <1>3, <1>4, <1>5

\* Header and Keyframe touch neither tracks nor the player.
Quiet ==
    /\ UNCHANGED <<stream, tracks, index, attaches, frame>>
    /\ infoframe' \subseteq Tracks
    /\ readyState' = readyState \/ (readyState = "waiting" /\ readyState' = "pumping")

\* Such a step keeps the invariant.
LEMMA QuietStep ==
    ASSUME RtpInv,
           Quiet, UNCHANGED <<heard, owed, astray, excuses>>
    PROVE  RtpInv'
<1> USE DEF RtpInv, Quiet
<1>1. Sending' = Sending
    BY DEF Sending
<1>2. RtpTypeOK' /\ IdsOK'
    BY DEF RtpTypeOK, IdsOK
<1>3. FrameOK' /\ BytesOK'
    BY <1>1 DEF FrameOK, BytesOK
<1>4. SequenceOK'
    BY <1>1 DEF SequenceOK
<1> QED BY <1>2, <1>3, <1>4

\* AudioFrame: the frame goes on from the number of its track.
LEMMA AudioFrameStep ==
    ASSUME RtpInv, NEW t \in Audio, NEW n \in Lengths, NEW room \in Rooms, AudioFrame(t, n, room)
    PROVE  RtpInv'
<1> USE DEF RtpInv
<1>1. /\ ~Sending /\ readyState = "pumping"
      /\ UNCHANGED <<stream, infoframe, readyState, tracks, index, attaches, heard, astray>>
      /\ excuses' = IF n >= AULimit THEN excuses \cup {"oversized"} ELSE excuses
      /\ owed' = IF n > 0 /\ excuses' = {} THEN owed + 1 ELSE owed
    BY DEF AudioFrame, source, remuxer
<1>2. PICK track \in tracks :
        /\ track.own
        /\ frame' = [id |-> track.id, SN |-> track.SN, live |-> TRUE,
                     n |-> n, size |-> room, i |-> 0, left |-> Count(n, room)]
    BY DEF AudioFrame
<1>3. n \in Nat /\ room \in Nat \ {0}
    BY RtpAssumption
<1>4. Count(n, room) \in Nat /\ Cut(Count(n, room), n, room)
    BY <1>3, CountCuts
<1>5. track \in TrackType /\ track.id \in IDs /\ track.id < index
    BY <1>2 DEF RtpTypeOK, IdsOK
<1>6. frame' \in FrameType /\ Sending'
  <2>1. frame' \in FrameType
      BY <1>2, <1>3, <1>4, <1>5 DEF FrameType, TrackType
  <2>2. frame'.id # 0
      BY <1>2, <1>5 DEF TrackType
  <2> QED BY <2>1, <2>2 DEF Sending, NoFrame
<1>7. /\ frame'.id = track.id /\ frame'.SN = track.SN /\ frame'.live
      /\ frame'.n = n /\ frame'.size = room /\ frame'.i = 0 /\ frame'.left = Count(n, room)
    BY <1>2
<1>8. RtpTypeOK'
    BY <1>1, <1>6 DEF RtpTypeOK
<1>9. IdsOK'
    BY <1>1 DEF IdsOK
<1>10. FrameOK'
  <2>1. n - 0 = n
      BY <1>3
  <2> QED BY <1>4, <1>7, <2>1 DEF FrameOK
<1>11. SequenceOK'
  <2>1. "overtaken" \in excuses' <=> "overtaken" \in excuses
      BY <1>1
  <2> QED BY <1>1, <1>2, <1>5, <1>6, <1>7, <2>1 DEF SequenceOK
<1>12. BytesOK'
  <2> SUFFICES ASSUME excuses' = {} PROVE BytesOK'
      BY DEF BytesOK
  <2>1. n < AULimit /\ excuses = {}
      BY <1>1, <1>3, RtpAssumption
  <2>2. owed = 0 /\ \A id \in IDs : heard[id].bytes = 0
      BY <1>1, <2>1 DEF BytesOK
  <2>3. Count(n, room) > 0 <=> n > 0
      BY <1>3, <1>4 DEF Cut
  <2>4. owed' = IF Count(n, room) > 0 THEN 1 ELSE 0
      BY <1>1, <2>2, <2>3
  <2> QED BY <1>1, <1>5, <1>6, <1>7, <2>1, <2>2, <2>4 DEF BytesOK
<1> QED BY <1>8, <1>9, <1>10, <1>11, <1>12

\* SendPacket: one packet less, and just its bytes more.
LEMMA SendPacketStep == ASSUME RtpInv, SendPacket PROVE RtpInv'
<1> USE DEF RtpInv
<1> DEFINE size == PacketSize
           sum == heard[frame.id].bytes + size
           whole == sum = AULength(frame.n)
           rest == frame.n - frame.i
<1>1. Sending /\ frame.left > 0 /\ frame \in FrameType
    BY FrameIsTyped DEF SendPacket
<1>2. /\ frame' = [frame EXCEPT !.SN = NextSN(@), !.i = @ + size, !.left = @ - 1]
      /\ heard' = [heard EXCEPT ![frame.id] =
                      [SN |-> NextSN(frame.SN), bytes |-> IF whole \/ excuses # {} THEN 0 ELSE sum]]
      /\ owed' = IF whole /\ excuses = {} THEN owed - 1 ELSE owed
      /\ astray' = (astray \/ readyState = "inactive"
                    \/ ~Follows(NextSN(frame.SN), heard[frame.id].SN))
      /\ UNCHANGED <<stream, infoframe, readyState, tracks, index, attaches, excuses>>
    BY DEF SendPacket, Hear, source, remuxer
<1>3. /\ frame.id \in IDs /\ frame.SN \in Numbers /\ frame.n \in Nat /\ frame.i \in Nat
      /\ frame.size \in Nat \ {0} /\ frame.left \in Nat \ {0} /\ rest \in Int
    BY <1>1 DEF FrameType
<1>4. Cut(frame.left, rest, frame.size)
    BY <1>1 DEF FrameOK
<1>5. /\ size \in Nat \ {0}
      /\ frame.left = 1 => rest - size = 0
      /\ frame.left # 1 => rest - size > 0
      /\ Cut(frame.left - 1, rest - size, frame.size)
  <2>1. CASE frame.left = 1
      BY <1>3, <1>4, <2>1, CutStep DEF PacketSize, Cut
  <2>2. CASE frame.left # 1
      BY <1>3, <1>4, <2>2, CutStep DEF PacketSize
  <2> QED BY <2>1, <2>2
<1>6. NextSN(frame.SN) \in Numbers /\ Follows(NextSN(frame.SN), frame.SN)
    BY <1>3, NextFollows
<1> HIDE DEF size
<1>7. frame' \in FrameType /\ Sending'
  <2>1. frame.i + size \in Nat /\ frame.left - 1 \in Nat
      BY <1>3, <1>5
  <2>2. frame' \in FrameType
      BY <1>1, <1>2, <1>6, <2>1 DEF FrameType
  <2>3. frame'.id # 0
      BY <2>2 DEF FrameType, IDs
  <2> QED BY <2>2, <2>3 DEF Sending, NoFrame
<1>8. /\ frame'.id = frame.id /\ frame'.SN = NextSN(frame.SN) /\ frame'.live = frame.live
      /\ frame'.n = frame.n /\ frame'.size = frame.size
      /\ frame'.i = frame.i + size /\ frame'.left = frame.left - 1
    BY <1>1, <1>2 DEF FrameType
<1>9. heard[frame.id] \in [SN : Numbers, bytes : Nat] /\ sum \in Nat
    BY <1>3, <1>5 DEF RtpTypeOK
<1>10. /\ heard'[frame.id].SN = NextSN(frame.SN)
       /\ heard'[frame.id].bytes = IF whole \/ excuses # {} THEN 0 ELSE sum
       /\ \A id \in IDs : id # frame.id => heard'[id] = heard[id]
    BY <1>2, <1>3 DEF RtpTypeOK
<1>11. RtpTypeOK'
  <2>1. heard' \in [IDs -> [SN : Numbers, bytes : Nat]]
      BY <1>2, <1>3, <1>6, <1>9 DEF RtpTypeOK
  <2>2. owed' \in Int /\ astray' \in BOOLEAN
      BY <1>2 DEF RtpTypeOK
  <2> QED BY <1>2, <1>7, <2>1, <2>2 DEF RtpTypeOK
<1>12. IdsOK'
    BY <1>2 DEF IdsOK
<1>13. FrameOK'
  <2>1. frame'.n - frame'.i = rest - size
      BY <1>3, <1>5, <1>8
  <2> QED BY <1>5, <1>8, <2>1 DEF FrameOK
<1>14. SequenceOK'
  <2> SUFFICES ASSUME "overtaken" \notin excuses' PROVE SequenceOK'
      BY DEF SequenceOK
  <2>1. /\ ~astray /\ readyState # "inactive" /\ frame.live /\ frame.id < index
        /\ heard[frame.id].SN = frame.SN
        /\ \A track \in tracks :
            track.own /\ track.id # frame.id => heard[track.id].SN = track.SN
        /\ \A id \in IDs : id >= index => heard[id].SN = 0
      BY <1>1, <1>2 DEF SequenceOK
  <2>2. ~astray'
      BY <1>2, <1>6, <2>1
  <2>3. \A track \in tracks : track.own => track.id \in IDs
      BY DEF IdsOK
  <2>4. \A track \in tracks' :
            track.own /\ track.id # frame'.id => heard'[track.id].SN = track.SN
      BY <1>2, <1>8, <1>10, <2>1, <2>3
  <2>5. \A id \in IDs : id >= index' => heard'[id].SN = 0
      BY <1>2, <1>3, <1>10, <2>1 DEF RtpTypeOK, IDs
  <2>6. /\ readyState' # "inactive" /\ frame'.live /\ frame'.id < index'
        /\ heard'[frame'.id].SN = frame'.SN
      BY <1>2, <1>8, <1>10, <2>1
  <2> QED BY <1>7, <2>2, <2>4, <2>5, <2>6 DEF SequenceOK
<1>15. BytesOK'
  <2> SUFFICES ASSUME excuses' = {} PROVE BytesOK'
      BY DEF BytesOK
  <2>1. /\ excuses = {} /\ owed = 1 /\ frame.n < AULimit /\ heard[frame.id].bytes = frame.i
        /\ \A id \in IDs : id # frame.id => heard[id].bytes = 0
      BY <1>1, <1>2 DEF BytesOK
  <2>2. sum = frame.i + size /\ AULength(frame.n) = frame.n
      BY <1>3, <2>1, ShortLength
  <2>3. whole <=> frame'.left = 0
      BY <1>3, <1>5, <1>8, <2>2
  <2>4. owed' = IF frame'.left > 0 THEN 1 ELSE 0
      BY <1>2, <1>3, <1>8, <2>1, <2>3
  <2>5. heard'[frame.id].bytes = IF frame'.left > 0 THEN frame'.i ELSE 0
      BY <1>3, <1>8, <1>10, <2>1, <2>2, <2>3
  <2> QED BY <1>7, <1>8, <1>10, <2>1, <2>4, <2>5 DEF BytesOK
<1> QED BY <1>11, <1>12, <1>13, <1>14, <1>15

\* EndFrame: the track takes the number over.
LEMMA EndFrameStep == ASSUME RtpInv, EndFrame PROVE RtpInv'
<1> USE DEF RtpInv
<1> DEFINE After(track) ==
        IF frame.live /\ track.id = frame.id THEN [track EXCEPT !.SN = frame.SN] ELSE track
<1>1. /\ Sending /\ frame.left = 0 /\ frame \in FrameType
      /\ frame' = NoFrame /\ ~Sending'
      /\ tracks' = {After(track) : track \in tracks}
      /\ UNCHANGED <<stream, infoframe, readyState, index, attaches, heard, owed, astray, excuses>>
    BY FrameIsTyped DEF EndFrame, Sending, source, player
<1>2. frame.SN \in Numbers /\ frame.id \in IDs
    BY <1>1 DEF FrameType
<1>3. \A track \in tracks :
        /\ After(track) \in TrackType
        /\ After(track).id = track.id /\ After(track).own = track.own
        /\ After(track).SN = IF frame.live /\ track.id = frame.id THEN frame.SN ELSE track.SN
    BY <1>2 DEF RtpTypeOK, TrackType
<1> HIDE DEF After
<1>4. RtpTypeOK'
    BY <1>1, <1>3 DEF RtpTypeOK
<1>5. IdsOK'
    BY <1>1, <1>3 DEF IdsOK
<1>6. FrameOK'
    BY <1>1 DEF FrameOK
<1>7. SequenceOK'
    BY <1>1, <1>3 DEF SequenceOK
<1>8. BytesOK'
    BY <1>1, <1>2 DEF BytesOK
<1> QED BY <1>4, <1>5, <1>6, <1>7, <1>8

LEMMA RtpInvStep == RtpInv /\ [RtpNext]_rtpVars => RtpInv'
<1> SUFFICES ASSUME RtpInv, [RtpNext]_rtpVars PROVE RtpInv'
    OBVIOUS
<1>1. CASE Source
    BY <1>1, SourceStep
<1>2. CASE RtpClose
    BY <1>2, CloseStep
<1>3. ASSUME NEW t \in Audio \cup {Video}, AddTrack(t) \/ RemoveTrack(t) \/ Header(t)
      PROVE  RtpInv'
  <2>1. t \in Tracks
      BY <1>3 DEF Tracks
  <2>2. CASE Header(t)
    <3>1. infoframe' \subseteq Tracks
        BY <2>1, <2>2 DEF Header, RtpInv, RtpTypeOK
    <3>2. Quiet /\ UNCHANGED <<heard, owed, astray, excuses>>
        BY <2>2, <3>1 DEF Header, Quiet, remuxer, player
    <3> QED BY <3>2, QuietStep
  <2> QED BY <1>3, <2>1, <2>2, AddTrackStep, RemoveTrackStep
<1>4. CASE Keyframe
    BY <1>4, QuietStep DEF Keyframe, Quiet, source, player, RtpInv, RtpTypeOK
<1>5. ASSUME NEW t \in Audio, NEW n \in Lengths, NEW room \in Rooms, AudioFrame(t, n, room)
      PROVE  RtpInv'
    BY <1>5, AudioFrameStep
<1>6. CASE SendPacket
    BY <1>6, SendPacketStep
<1>7. CASE EndFrame
    BY <1>7, EndFrameStep
<1>8. CASE UNCHANGED rtpVars
  <2>1. Quiet /\ UNCHANGED <<heard, owed, astray, excuses>>
      BY <1>8 DEF rtpVars, source, remuxer, player, Quiet, RtpInv, RtpTypeOK
  <2> QED BY <2>1, QuietStep
<1> QED BY <1>1, <1>2, <1>3, <1>4, <1>5, <1>6, <1>7, <1>8 DEF RtpNext

LEMMA RtpInvariance == RtpSpec => []RtpInv
BY RtpInvInit, RtpInvStep, PTL DEF RtpSpec

-----------------------------------------------------------------------------
(* The theorems.                                                           *)

\* The variables of RtpRemuxer keep their types: numbers stay in their 16 bits,
\* and tracks that packets are sent for have an id the player can know.
THEOREM RtpTypeCorrect == RtpSpec => []RtpTypeOK
<1>1. RtpInv => RtpTypeOK
    BY DEF RtpInv
<1> QED BY <1>1, RtpInvariance, PTL

\* getAACPackets cuts every frame into packets that fit and from which a player
\* gets it back, numbered without a gap, unless Close met it in the middle, for
\* any lengths, room in a packet and width of the number.
THEOREM FramesAreWhole == RtpSpec => []FramesArriveWhole
<1>1. RtpInv => FramesArriveWhole
  <2> SUFFICES ASSUME RtpInv PROVE FramesArriveWhole
      OBVIOUS
  <2>1. astray => "overtaken" \in excuses
      BY DEF RtpInv, SequenceOK
  <2>2. Sending /\ frame.left = 1 => frame.n - frame.i \in 1..frame.size
    <3> SUFFICES ASSUME Sending, frame.left = 1 PROVE frame.n - frame.i \in 1..frame.size
        OBVIOUS
    <3>1. frame \in FrameType /\ Cut(1, frame.n - frame.i, frame.size)
        BY FrameIsTyped DEF RtpInv, FrameOK
    <3>2. frame.n - frame.i \in Int /\ frame.size \in Nat \ {0} /\ 1 \in Nat /\ 1 > 0
        BY <3>1 DEF FrameType
    <3> QED BY <3>1, <3>2, CutStep
  <2>3. ~Sending /\ excuses = {} => owed = 0 /\ \A id \in IDs : heard[id].bytes = 0
      BY DEF RtpInv, BytesOK
  <2> QED BY <2>1, <2>2, <2>3 DEF FramesArriveWhole
<1> QED BY <1>1, RtpInvariance, PTL

-----------------------------------------------------------------------------
(* The segments of the FMP4 and CMAF remuxers.                             *)

\* A remainder is what is left of a number after whole turns of m.
LEMMA Turns ==
    ASSUME NEW m \in Nat \ {0}, NEW k \in Int, NEW r \in 0..(m - 1)
    PROVE  (k * m + r) % m = r
<1> DEFINE x == k * m + r
           q == x \div m
           s == x % m
<1>1. k * m \in Int
    OBVIOUS
<1>2. x \in Int
    BY <1>1
<1>3. q \in Int /\ s \in 0..(m - 1) /\ x = q * m + s
    <2> HIDE DEF x
    <2> QED
        BY <1>2
<1> DEFINE j == k - q
<1>4. j \in Int /\ j * m = s - r
    <2>1. j * m = k * m - q * m
        <3> HIDE DEF q
        <3> QED
            BY <1>3
    <2> QED
        BY <1>1, <1>3, <2>1
<1>5. j * m < m /\ j * m > -m
    BY <1>3, <1>4
<1> HIDE DEF x, q, s, j
<1>6. j * m >= m \/ j = 0 \/ j * m <= -m
    <2>1. CASE j >= 1
        BY <1>4, <2>1
    <2>2. CASE j <= -1
        <3>1. (-j) * m >= m
            BY <1>4, <2>2
        <3> QED
            BY <1>4, <3>1
    <2> QED
        BY <1>4, <2>1, <2>2
<1>7. j = 0
    BY <1>4, <1>5, <1>6
<1>8. s = r
    BY <1>3, <1>4, <1>7
<1> QED
    BY <1>8 DEF s, x

\* Whole turns make no difference.
LEMMA TurnsLeave ==
    ASSUME NEW m \in Nat \ {0}, NEW k \in Int, NEW x \in Int
    PROVE  (k * m + x) % m = x % m
<1> DEFINE q == x \div m
           r == x % m
<1>1. q \in Int /\ r \in 0..(m - 1) /\ x = q * m + r
    OBVIOUS
<1>2. k + q \in Int /\ (k + q) * m = k * m + q * m /\ k * m \in Int /\ q * m \in Int
    <2> HIDE DEF q, r
    <2> QED
        BY <1>1
<1>3. k * m + x = (k + q) * m + r
    <2> HIDE DEF q, r
    <2> QED
        BY <1>1, <1>2
<1>4. ((k + q) * m + r) % m = r
    <2> HIDE DEF q, r
    <2> QED
        BY <1>1, <1>2, Turns
<1> QED
    BY <1>3, <1>4

\* A remainder can be taken at once or in the end.
LEMMA TakenTwice ==
    ASSUME NEW m \in Nat \ {0}, NEW x \in Int, NEW y \in Int
    PROVE  (x + (y % m)) % m = (x + y) % m
<1> DEFINE q == y \div m
           r == y % m
<1>1. q \in Int /\ r \in 0..(m - 1) /\ y = q * m + r
    OBVIOUS
<1> HIDE DEF q, r
<1>2. x + r \in Int /\ q * m \in Int
    BY <1>1
<1>3. x + y = q * m + (x + r)
    BY <1>1, <1>2
<1>4. (q * m + (x + r)) % m = (x + r) % m
    BY <1>1, <1>2, TurnsLeave
<1> QED
    BY <1>3, <1>4 DEF r
-----------------------------------------------------------------------------
(* The invariant of the segments, and its steps.                           *)

SegTypesOK ==
    /\ attached \in [Sources -> {"none", "clone", "own"}]
    /\ TimeBase \in Int /\ start \in Int
    /\ Timestamp \in [Sources -> 0..(Wrap - 1)] /\ due \in [Sources -> 0..(Wrap - 1)]
    /\ phase \in {"inactive", "waiting", "pumping"}

PresentOK == present \subseteq Sources /\ headers \subseteq present \cup SegTracks

\* A track that has not been attached behind another is the first of its kind.
FirstOK ==
    /\ first \in [Kinds -> Sources \cup {"none"}]
    /\ \A t \in SegTracks : first[Kind(t)] \in OfKind(Kind(t)) /\ (t \in behind \/ t = first[Kind(t)])

\* The time base is the timestamp that started the pumping.
TimesOK ==
    ~rebased => /\ Timestamp = due
                /\ Pumping => TimeBase = start

\* There are no segments without the pumping and no tracks without a source.
StagesOK ==
    /\ ~Pumping => undecodable = {} /\ ~ahead
    /\ phase = "inactive" => SegTracks = {}

\* CMAF: the player of a track of the remuxer's own has the info frame of the
\* source, unless the track came behind it or behind another.
CmafOK ==
    format = "CMAF" =>
        /\ \A t \in Sources \cap headers : attached[t] = "own" => t \in announced \cup behind
        /\ undecodable \subseteq behind

\* FMP4: once all info frames went out with the first keyframe, none is new.
Fmp4OK ==
    format # "CMAF" /\ ahead /\ (Interleaved \/ "audio" \notin Mode) =>
        SegTracks \subseteq announced /\ undecodable \subseteq behind

SegInv == SegTypesOK /\ PresentOK /\ FirstOK /\ TimesOK /\ StagesOK /\ CmafOK /\ Fmp4OK

LEMMA SegInvInit == SegInit => SegInv
<1> SUFFICES ASSUME SegInit PROVE SegInv
    OBVIOUS
<1>1. SegTypesOK /\ PresentOK /\ FirstOK
    BY SegAssumption DEF SegAssumption, SegInit, SegTypesOK, PresentOK, FirstOK, SegTracks
<1>2. TimesOK /\ StagesOK /\ CmafOK /\ Fmp4OK
    BY DEF SegInit, TimesOK, StagesOK, CmafOK, Fmp4OK, Pumping, SegTracks
<1> QED
    BY <1>1, <1>2 DEF SegInv

\* The kind of a source of video, and of any.
LEMMA KindIs ==
    /\ \A t \in Sources : Kind(t) \in Kinds
    /\ \A t \in AudioSources : t \in Sources /\ Kind(t) = "audio"
    /\ \A t \in VideoSources : t \in Sources /\ Kind(t) = "video"
BY SegAssumption DEF SegAssumption, Sources, Kind, Kinds

LEMMA SegSourceStep ==
    ASSUME SegInv, NEW f \in {"CMAF", "FMP4"}, NEW m \in Modes, SegSource(f, m)
    PROVE  SegInv'
<1> DEFINE wanted == {t \in present : SegWanted(t, m)}
<1>1. SegTypesOK'
    BY DEF SegInv, SegSource, SegTypesOK, segStream, times
<1>2. FirstOK'
    <2>1. PICK order \in [Kinds -> wanted \cup {"none"}] :
            /\ \A k \in Kinds : order[k] \in AnyOf({t \in wanted : Kind(t) = k})
            /\ first' = order
        BY DEF SegSource
    <2>2. SegTracks' = {t \in Sources : t \in wanted} /\ behind' = {t \in wanted : t # first'[Kind(t)]}
        BY DEF SegSource, SegTracks
    <2>3. \A k \in Kinds : OfKind(k)' = {t \in Sources : t \in wanted /\ Kind(t) = k}
        BY <2>2 DEF OfKind
    <2>4. wanted \subseteq Sources
        BY DEF SegInv, PresentOK
    <2> HIDE DEF wanted
    <2>5. first' \in [Kinds -> Sources \cup {"none"}]
        BY <2>1, <2>4
    <2>6. ASSUME NEW t \in SegTracks' PROVE first'[Kind(t)] \in OfKind(Kind(t))'
        BY <2>1, <2>2, <2>3, <2>4, <2>6, KindIs DEF AnyOf
    <2> QED
        BY <2>2, <2>5, <2>6 DEF FirstOK
<1>3. TimesOK' /\ StagesOK'
    BY DEF SegInv, SegSource, TimesOK, StagesOK, Pumping, times
<1>4. CmafOK'
    BY DEF SegInv, SegSource, CmafOK, StagesOK, Pumping, SegTypesOK
<1>5. Fmp4OK'
    BY DEF SegInv, SegSource, Fmp4OK, StagesOK, Pumping
<1>6. PresentOK'
    BY DEF SegInv, SegSource, PresentOK, StagesOK, segStream
<1> QED
    BY <1>1, <1>2, <1>3, <1>4, <1>5, <1>6 DEF SegInv

LEMMA SegAddTrackStep ==
    ASSUME SegInv, NEW t \in Sources, NEW headed \in BOOLEAN, SegAddTrack(t, headed)
    PROVE  SegInv'
<1> USE DEF SegInv, SegAddTrack
<1>1. SegTypesOK' /\ PresentOK' /\ headers \subseteq present \cup SegTracks
    BY DEF SegTypesOK, PresentOK, SegTracks, times
<1>2. TimesOK'
    BY DEF TimesOK, Pumping, times
<1>3. CASE UNCHANGED <<attached, first, behind, ahead>> /\ (phase = "inactive" \/ ~SegWanted(t, Mode) \/ t \in SegTracks)
    <2>1. SegTracks' = SegTracks /\ \A k \in Kinds : OfKind(k)' = OfKind(k)
        BY <1>3 DEF SegTracks, OfKind
    <2>2. FirstOK'
        BY <1>3, <2>1, KindIs DEF FirstOK, SegTracks
    <2>3. StagesOK' /\ Fmp4OK'
        BY <1>3, <2>1 DEF StagesOK, Fmp4OK, Pumping, Interleaved
    <2>4. CmafOK'
        BY <1>3 DEF CmafOK, SegTracks
    <2> QED
        BY <1>1, <1>2, <2>2, <2>3, <2>4
<1>4. CASE /\ phase # "inactive" /\ t \notin SegTracks
           /\ attached' = [attached EXCEPT ![t] = IF format = "CMAF" THEN "own" ELSE "clone"]
           /\ IF OfKind(Kind(t)) = {}
              THEN first' = [first EXCEPT ![Kind(t)] = t]
              ELSE UNCHANGED first
           /\ behind' = IF OfKind(Kind(t)) # {} \/ (format = "CMAF" /\ headed)
                        THEN behind \cup {t} ELSE behind
           /\ ahead' = FALSE
    <2>1. /\ SegTracks' = SegTracks \cup {t}
          /\ \A k \in Kinds : OfKind(k)' = IF k = Kind(t) THEN OfKind(k) \cup {t} ELSE OfKind(k)
        <3>1. SegTracks' = SegTracks \cup {t}
            BY <1>4 DEF SegTypesOK, SegTracks
        <3> QED
            BY <3>1 DEF OfKind
    <2>2. FirstOK'
        <3>1. first' \in [Kinds -> Sources \cup {"none"}]
            BY <1>4 DEF FirstOK
        <3>2. ASSUME NEW u \in SegTracks'
              PROVE  first'[Kind(u)] \in OfKind(Kind(u))' /\ (u \in behind' \/ u = first'[Kind(u)])
            <4>1. u \in Sources /\ Kind(u) \in Kinds /\ Kind(t) \in Kinds
                BY <2>1, KindIs DEF SegTracks
            <4>2. CASE u = t
                <5>1. CASE OfKind(Kind(t)) = {}
                    BY <1>4, <2>1, <4>1, <4>2, <5>1 DEF FirstOK
                <5>2. CASE OfKind(Kind(t)) # {}
                    BY <1>4, <2>1, <4>1, <4>2, <5>2 DEF FirstOK, OfKind
                <5> QED
                    BY <5>1, <5>2
            <4>3. CASE u # t
                <5>1. u \in SegTracks /\ u \in OfKind(Kind(u))
                    BY <2>1, <4>3 DEF OfKind
                <5>2. first'[Kind(u)] = first[Kind(u)]
                    BY <1>4, <4>1, <5>1 DEF FirstOK
                <5> QED
                    BY <1>4, <2>1, <4>1, <5>1, <5>2 DEF FirstOK
            <4> QED
                BY <4>2, <4>3
        <3> QED
            BY <3>1, <3>2 DEF FirstOK
    <2>3. StagesOK' /\ Fmp4OK'
        BY <1>4 DEF StagesOK, Fmp4OK, Pumping
    <2>4. CmafOK'
        BY <1>1, <1>4 DEF CmafOK, SegTypesOK, SegTracks
    <2> QED
        BY <1>1, <1>2, <2>2, <2>3, <2>4
<1> QED
    BY <1>3, <1>4

LEMMA SegRemoveTrackStep ==
    ASSUME SegInv, NEW t \in Sources, SegRemoveTrack(t)
    PROVE  SegInv'
<1> USE DEF SegInv, SegRemoveTrack
<1>1. SegTypesOK' /\ PresentOK'
    BY SegAssumption DEF SegAssumption, SegTypesOK, PresentOK, SegTracks
<1>2. TimesOK' /\ SegTracks' = SegTracks \ {t}
    BY DEF TimesOK, Pumping, SegTypesOK, SegTracks
<1>3. \A k \in Kinds : OfKind(k)' = OfKind(k) \ {t}
    BY <1>2 DEF OfKind
<1>4. FirstOK'
    <2>1. first' \in [Kinds -> Sources \cup {"none"}]
        BY KindIs DEF FirstOK, AnyOf, OfKind, SegTracks
    <2>2. ASSUME NEW u \in SegTracks'
          PROVE  first'[Kind(u)] \in OfKind(Kind(u))' /\ (u \in behind' \/ u = first'[Kind(u)])
        <3>1. /\ u \in SegTracks /\ u # t /\ Kind(u) \in Kinds /\ Kind(t) \in Kinds
              /\ u \in OfKind(Kind(u)) \ {t} /\ OfKind(Kind(u))' = OfKind(Kind(u)) \ {t}
            BY <1>2, <1>3, KindIs DEF SegTracks, OfKind
        <3>2. CASE t = first[Kind(t)] /\ Kind(u) = Kind(t)
            <4>1. first'[Kind(u)] \in OfKind(Kind(u)) \ {t}
                BY <3>1, <3>2 DEF FirstOK, AnyOf
            <4> QED
                BY <3>1, <3>2, <4>1 DEF FirstOK
        <3>3. CASE ~(t = first[Kind(t)] /\ Kind(u) = Kind(t))
            <4>1. first'[Kind(u)] = first[Kind(u)] /\ first[Kind(u)] # t
                BY <3>1, <3>3 DEF FirstOK, OfKind
            <4> QED
                BY <3>1, <4>1 DEF FirstOK
        <3> QED
            BY <3>2, <3>3
    <2> QED
        BY <2>1, <2>2 DEF FirstOK
<1>5. StagesOK' /\ Fmp4OK'
    BY <1>2 DEF StagesOK, Fmp4OK, Pumping, Interleaved
<1>6. CmafOK'
    BY DEF CmafOK, SegTypesOK
<1> QED
    BY <1>1, <1>2, <1>4, <1>5, <1>6

LEMMA CloseStreamStep ==
    ASSUME SegInv, CloseStream
    PROVE  SegInv'
<1> USE DEF SegInv, CloseStream, times, told
<1>1. SegTypesOK' /\ PresentOK' /\ TimesOK' /\ StagesOK'
    BY DEF SegTypesOK, PresentOK, TimesOK, StagesOK, Pumping, SegTracks
<1>2. FirstOK' /\ CmafOK' /\ Fmp4OK'
    BY DEF FirstOK, OfKind, CmafOK, Fmp4OK, SegTracks, Interleaved
<1> QED
    BY <1>1, <1>2

LEMMA SegCloseStep ==
    ASSUME SegInv, SegClose
    PROVE  SegInv'
<1> USE DEF SegInv, SegClose
<1>1. SegTypesOK' /\ PresentOK'
    BY SegAssumption DEF SegAssumption, SegTypesOK, PresentOK, SegTracks
<1>2. TimesOK' /\ StagesOK' /\ FirstOK'
    BY DEF TimesOK, StagesOK, FirstOK, Pumping, SegTracks
<1>3. CmafOK' /\ Fmp4OK'
    BY DEF CmafOK, Fmp4OK, SegTracks
<1> QED
    BY <1>1, <1>2, <1>3

LEMMA MetadataStep ==
    ASSUME SegInv, Metadata
    PROVE  SegInv'
<1> USE DEF SegInv, Metadata, segStream
<1>1. SegTypesOK' /\ PresentOK'
    BY DEF SegTypesOK, PresentOK, SegTracks
<1>2. TimesOK' /\ StagesOK' /\ FirstOK'
    BY DEF TimesOK, StagesOK, FirstOK, OfKind, Pumping, SegTracks
<1>3. CmafOK' /\ Fmp4OK'
    BY DEF CmafOK, Fmp4OK, SegTracks, Interleaved
<1> QED
    BY <1>1, <1>2, <1>3

-----------------------------------------------------------------------------

\* An info frame goes on to the player, or nothing is ahead any more.
LEMMA InfoFrameStep ==
    ASSUME SegInv, NEW s \in Sources, NEW announce, InfoFrame(s, announce),
           s \in SegTracks /\ format = "CMAF" => first[Kind(s)] \in announce
    PROVE  SegInv'
<1> USE DEF SegInv, InfoFrame, NoSegment, Rest
<1>1. SegTypesOK' /\ PresentOK' /\ TimesOK' /\ StagesOK'
    BY DEF SegTypesOK, PresentOK, TimesOK, StagesOK, Pumping, SegTracks
<1>2. FirstOK'
    BY DEF FirstOK, OfKind, SegTracks
<1>3. CmafOK'
    <2> SUFFICES ASSUME format = "CMAF", NEW t \in Sources \cap headers', attached[t] = "own"
                 PROVE  t \in announced' \cup behind
        BY DEF CmafOK
    <2>1. CASE t # s
        BY <2>1 DEF CmafOK
    <2>2. CASE t = s
        BY <2>2 DEF FirstOK, SegTracks
    <2> QED
        BY <2>1, <2>2
<1>4. Fmp4OK'
    BY DEF Fmp4OK, SegTracks, Interleaved
<1> QED
    BY <1>1, <1>2, <1>3, <1>4

\* The decode time of a segment is the end of the last sample, if the time base
\* is the timestamp the pumping started with.
LEMMA SegmentTime ==
    ASSUME SegTypesOK, NEW s, NEW t \in Sources, NEW dts \in 0..(Wrap - 1), MediaSegment(s, t, dts),
           TimeBase' \in Int, start' \in Int
    PROVE  /\ Timestamp' \in [Sources -> 0..(Wrap - 1)] /\ due' \in [Sources -> 0..(Wrap - 1)]
           /\ Timestamp = due /\ TimeBase' = start' => Timestamp' = due'
<1>0. Wrap \in Nat \ {0} /\ dts \in Int /\ Timestamp[t] \in Int
    BY SegAssumption DEF SegAssumption, SegTypesOK
<1>1. CASE format = "CMAF" /\ attached[t] = "clone"
    BY <1>1 DEF MediaSegment, SegTypesOK
<1>2. CASE ~(format = "CMAF" /\ attached[t] = "clone")
    <2> DEFINE delta == dts - TimeBase' - Timestamp[t]
               new == (Timestamp[t] + RefSampleDuration + (delta % Wrap)) % Wrap
               end == (dts - start' + RefSampleDuration) % Wrap
    <2>1. Timestamp' = [Timestamp EXCEPT ![t] = new] /\ due' = [due EXCEPT ![t] = end]
        <3>1. Advance(t, dts) /\ due' = [due EXCEPT ![t] = end]
            BY <1>2 DEF MediaSegment
        <3> QED
            BY <3>1 DEF Advance
    <2>2. delta \in Int /\ Timestamp[t] + RefSampleDuration \in Int
        BY <1>0 DEF RefSampleDuration
    <2>3. new = (Timestamp[t] + RefSampleDuration + delta) % Wrap
        <3> HIDE DEF delta
        <3> QED
            BY <1>0, <2>2, TakenTwice
    <2>4. new \in 0..(Wrap - 1) /\ end \in 0..(Wrap - 1)
        <3>1. Timestamp[t] + RefSampleDuration + delta \in Int /\ dts - start' + RefSampleDuration \in Int
            BY <1>0 DEF RefSampleDuration
        <3>2. \A x \in Int : x % Wrap \in 0..(Wrap - 1)
            BY <1>0
        <3> HIDE DEF delta
        <3> QED
            BY <2>3, <3>1, <3>2
    <2>5. ASSUME TimeBase' = start' PROVE new = end
        <3>1. Timestamp[t] + RefSampleDuration + delta = dts - start' + RefSampleDuration
            BY <1>0, <2>5 DEF RefSampleDuration
        <3> HIDE DEF delta, new
        <3> QED
            BY <2>3, <3>1
    <2> HIDE DEF new, end
    <2> QED
        BY <2>1, <2>4, <2>5 DEF SegTypesOK
<1> QED
    BY <1>1, <1>2

\* A frame goes out on the first track of its kind: its source has not been
\* announced only if it came behind another, or what it needs came behind.
LEMMA FrameIsAnnounced ==
    ASSUME FirstOK, NEW s \in SegTracks, NEW dts, MediaSegment(s, first[Kind(s)], dts),
           s \in announced' \/ s \in behind, undecodable \subseteq behind
    PROVE  undecodable' \subseteq behind
<1>1. s \in behind \/ s = first[Kind(s)]
    BY DEF FirstOK
<1> QED
    BY <1>1 DEF MediaSegment

LEMMA SegAudioFrameStep ==
    ASSUME SegInv, NEW s \in AudioSources, NEW dts \in 0..(Wrap - 1), SegAudioFrame(s, dts)
    PROVE  SegInv'
<1> USE DEF SegInv, SegAudioFrame, Rest
<1>a. s \in SegTracks /\ s \in Sources /\ first[Kind(s)] = first["audio"] /\ first["audio"] \in Sources
    BY KindIs DEF FirstOK, OfKind, SegTracks
<1>0. /\ Timestamp' \in [Sources -> 0..(Wrap - 1)] /\ due' \in [Sources -> 0..(Wrap - 1)]
      /\ Timestamp = due /\ TimeBase' = start' => Timestamp' = due'
    BY <1>a, SegmentTime DEF SegTypesOK
<1>1. SegTypesOK' /\ PresentOK'
    BY <1>0 DEF SegTypesOK, PresentOK, SegTracks
<1>2. TimesOK'
    BY <1>0 DEF TimesOK, Pumping
<1>3. StagesOK' /\ FirstOK'
    BY DEF StagesOK, FirstOK, OfKind, Pumping, SegTracks
<1>4. CmafOK'
    <2>1. CASE format = "CMAF" /\ attached[first["audio"]] = "clone"
        BY <2>1 DEF MediaSegment, CmafOK
    <2>2. CASE format = "CMAF" /\ attached[first["audio"]] # "clone"
        <3>1. s \in announced' \/ s \in behind
            BY <1>a, <2>2 DEF CmafOK, FirstOK, SegTracks, OfKind, SegTypesOK
        <3>2. undecodable' \subseteq behind
            BY <1>a, <2>2, <3>1, FrameIsAnnounced DEF CmafOK
        <3> QED
            BY <3>2 DEF CmafOK
    <2>3. CASE format # "CMAF"
        BY <2>3 DEF CmafOK
    <2> QED
        BY <2>1, <2>2, <2>3
<1>5. Fmp4OK'
    <2> SUFFICES ASSUME format # "CMAF", ahead, Interleaved \/ "audio" \notin Mode
                 PROVE  undecodable' \subseteq behind
        BY DEF Fmp4OK, SegTracks, Interleaved
    <2> QED
        BY <1>a, FrameIsAnnounced DEF Fmp4OK
<1> QED
    BY <1>1, <1>2, <1>3, <1>4, <1>5

\* What a frame leaves as it is, whether or not it starts the pumping.
LEMMA SegVideoFrameStep ==
    ASSUME SegInv, NEW s \in VideoSources, NEW keyframe \in BOOLEAN, NEW dts \in 0..(Wrap - 1),
           SegVideoFrame(s, keyframe, dts)
    PROVE  SegInv'
<1> USE DEF SegInv, Rest
<1>a. /\ s \in SegTracks /\ s \in Sources /\ first[Kind(s)] = first["video"]
      /\ first["video"] \in SegTracks /\ first["video"] \in Sources
    BY KindIs DEF SegVideoFrame, FirstOK, OfKind, SegTracks
<1>1. /\ UNCHANGED headers
      /\ UNCHANGED <<present, format, Mode, sourced, attached, first, behind, rebased>>
      /\ SegTracks' = SegTracks
    BY DEF SegVideoFrame, SegTracks
<1>2. \/ Starts(keyframe) /\ StartPumping(dts)
      \/ UNCHANGED <<phase, TimeBase, start, ahead, announced>>
    BY DEF SegVideoFrame
<1>3. \/ NoSegment
      \/ phase' = "pumping" /\ first["video"] \in headers /\ MediaSegment(s, first["video"], dts)
    BY DEF SegVideoFrame
<1>4. /\ TimeBase' \in Int /\ start' \in Int /\ announced \subseteq announced'
      /\ phase' \in {"inactive", "waiting", "pumping"}
    <2>1. CASE StartPumping(dts)
        BY <1>1, <2>1, SegAssumption DEF StartPumping, InitSegment, SegTypesOK, SegAssumption
    <2>2. CASE UNCHANGED <<phase, TimeBase, start, ahead, announced>>
        BY <2>2 DEF SegTypesOK
    <2> QED
        BY <1>2, <2>1, <2>2
<1>5. /\ Timestamp' \in [Sources -> 0..(Wrap - 1)] /\ due' \in [Sources -> 0..(Wrap - 1)]
      /\ Timestamp = due /\ TimeBase' = start' => Timestamp' = due'
    <2>1. CASE NoSegment
        BY <2>1 DEF NoSegment, SegTypesOK
    <2>2. CASE MediaSegment(s, first["video"], dts)
        BY <1>a, <1>4, <2>2, SegmentTime
    <2> QED
        BY <1>3, <2>1, <2>2
<1>6. SegTypesOK' /\ PresentOK' /\ FirstOK'
    BY <1>1, <1>4, <1>5 DEF SegTypesOK, PresentOK, FirstOK, OfKind
<1>7. TimesOK'
    <2>1. CASE phase' = "pumping"
        <3>1. ~rebased => TimeBase' = start'
            <4>1. CASE StartPumping(dts)
                BY <4>1 DEF StartPumping
            <4>2. CASE UNCHANGED <<phase, TimeBase, start, ahead, announced>>
                BY <2>1, <4>2 DEF TimesOK, Pumping
            <4> QED
                BY <1>2, <4>1, <4>2
        <3> QED
            BY <1>1, <1>5, <3>1 DEF TimesOK
    <2>2. CASE phase' # "pumping"
        BY <1>1, <1>2, <1>3, <2>2 DEF StartPumping, NoSegment, TimesOK, Pumping
    <2> QED
        BY <2>1, <2>2
<1>8. StagesOK'
    <2>1. CASE Starts(keyframe) /\ StartPumping(dts)
        BY <2>1 DEF StagesOK, Pumping, StartPumping
    <2>2. CASE UNCHANGED <<phase, TimeBase, start, ahead, announced>>
        BY <1>1, <1>3, <2>2 DEF StagesOK, Pumping, NoSegment
    <2> QED
        BY <1>2, <2>1, <2>2
<1>9. CmafOK'
    <2> SUFFICES ASSUME format = "CMAF" PROVE CmafOK'
        BY <1>1 DEF CmafOK
    <2>1. \A t \in Sources \cap headers : attached[t] = "own" => t \in announced' \cup behind
        BY <1>4 DEF CmafOK
    <2>2. undecodable' \subseteq behind
        <3>1. CASE NoSegment \/ attached[first["video"]] = "clone"
            BY <1>3, <3>1 DEF CmafOK, MediaSegment, NoSegment
        <3>2. CASE ~NoSegment /\ attached[first["video"]] # "clone"
            <4>1. s \in announced' \/ s \in behind
                BY <1>a, <1>3, <2>1, <3>2 DEF FirstOK, SegTracks, SegTypesOK
            <4> QED
                BY <1>a, <1>3, <3>2, <4>1, FrameIsAnnounced DEF CmafOK
        <3> QED
            BY <3>1, <3>2
    <2> QED
        BY <1>1, <2>1, <2>2 DEF CmafOK
<1>10. Fmp4OK'
    <2> SUFFICES ASSUME format # "CMAF", ahead', Interleaved \/ "audio" \notin Mode
                 PROVE  SegTracks \subseteq announced' /\ undecodable' \subseteq behind
        BY <1>1 DEF Fmp4OK, Interleaved
    <2>1. SegTracks \subseteq announced' /\ undecodable \subseteq behind
        <3>1. CASE Starts(keyframe) /\ StartPumping(dts)
            <4>1. SegTracks \subseteq headers /\ undecodable = {}
                BY <3>1 DEF Starts, StartPumping, Waiting, Pumping, StagesOK
            <4>2. InitSegment(SegTracks)
                <5>1. Interleaved /\ "audio" \in Mode => OfKind("audio") = {} \/ first["audio"] \in headers
                    BY <4>1 DEF FirstOK, OfKind
                <5> QED
                    BY <3>1, <5>1 DEF StartPumping
            <4> QED
                BY <4>1, <4>2 DEF InitSegment
        <3>2. CASE UNCHANGED <<phase, TimeBase, start, ahead, announced>>
            BY <3>2 DEF Fmp4OK
        <3> QED
            BY <1>2, <3>1, <3>2
    <2>2. CASE NoSegment
        BY <2>1, <2>2 DEF NoSegment
    <2>3. CASE MediaSegment(s, first["video"], dts)
        BY <1>a, <2>1, <2>3, FrameIsAnnounced
    <2> QED
        BY <1>3, <2>1, <2>2, <2>3
<1> QED
    BY <1>6, <1>7, <1>8, <1>9, <1>10

LEMMA SegInvStep == SegInv /\ [SegNext]_segVars => SegInv'
<1> SUFFICES ASSUME SegInv, [SegNext]_segVars PROVE SegInv'
    OBVIOUS
<1>1. CASE UNCHANGED segVars
    BY <1>1 DEF segVars, segStream, times, told, SegInv, SegTypesOK, PresentOK, FirstOK, TimesOK,
                StagesOK, CmafOK, Fmp4OK, SegTracks, OfKind, Pumping, Interleaved
<1>2. ASSUME NEW f \in {"CMAF", "FMP4"}, NEW m \in Modes, SegSource(f, m) PROVE SegInv'
    BY <1>2, SegSourceStep
<1>3. ASSUME NEW t \in Sources, SegAddTrack(t, TRUE) \/ SegAddTrack(t, FALSE) \/ SegRemoveTrack(t)
      PROVE  SegInv'
    BY <1>3, SegAddTrackStep, SegRemoveTrackStep
<1>4. CASE CloseStream \/ SegClose \/ Metadata
    BY <1>4, CloseStreamStep, SegCloseStep, MetadataStep
<1>5. ASSUME NEW s \in AudioSources, AudioConfig(s) PROVE SegInv'
    BY <1>5, KindIs, InfoFrameStep DEF AudioConfig
<1>6. ASSUME NEW s \in VideoSources, VideoHeader(s) PROVE SegInv'
    BY <1>6, KindIs, InfoFrameStep DEF VideoHeader
<1>7. ASSUME NEW s \in AudioSources, NEW dts \in 0..(Wrap - 1), SegAudioFrame(s, dts) PROVE SegInv'
    BY <1>7, SegAudioFrameStep
<1>8. ASSUME NEW s \in VideoSources, NEW keyframe \in BOOLEAN, NEW dts \in 0..(Wrap - 1),
             SegVideoFrame(s, keyframe, dts)
      PROVE  SegInv'
    BY <1>8, SegVideoFrameStep
<1> QED
    BY <1>1, <1>2, <1>3, <1>4, <1>5, <1>6, <1>7, <1>8 DEF SegNext

LEMMA SegInvariance == SegSpec => []SegInv
BY SegInvInit, SegInvStep, PTL DEF SegSpec

\* However many info frames, sources, tracks of a kind and packets there are,
\* whatever their times, with the stream closed in between, in any mode: CMAF and
\* FMP4 send the frames of tracks that were not attached behind another of their
\* kind (or, in CMAF, their info frame) behind the init segment they were coded
\* with, at the time that is due.
THEOREM SegmentsPlay == SegSpec => []SegmentsArePlayable
<1>1. SegInv => SegmentsArePlayable
    BY DEF SegInv, TimesOK, CmafOK, Fmp4OK, SegmentsArePlayable
<1> QED
    BY <1>1, SegInvariance, PTL

-----------------------------------------------------------------------------
(* The packets of the FLV demuxer.  First, sequences.                      *)

Byte == 0..255

\* Concatenation under a name of its own, for the provers.
Cat(s, t) == s \o t

LEMMA CatProperties ==
    ASSUME NEW S, NEW s \in Seq(S), NEW t \in Seq(S)
    PROVE  /\ Cat(s, t) \in Seq(S)
           /\ Cat(s, <<>>) = s /\ Cat(<<>>, s) = s
BY ConcatProperties, ConcatEmptySeq DEF Cat

LEMMA CatAssociative ==
    ASSUME NEW S, NEW s \in Seq(S), NEW t \in Seq(S), NEW u \in Seq(S)
    PROVE  Cat(Cat(s, t), u) = Cat(s, Cat(t, u))
BY ConcatAssociative DEF Cat

\* FlattenSeq is computed sequence by sequence.
LEMMA FlattenSteps ==
    ASSUME NEW S, NEW ss \in Seq(Seq(S))
    PROVE  \E f \in [0..Len(ss) -> Seq(S)] :
             /\ f[0] = <<>> /\ \A i \in 1..Len(ss) : f[i] = Cat(f[i - 1], ss[i])
             /\ FlattenSeq(ss) = f[Len(ss)]
<1> DEFINE n == Len(ss)
           g == [i \in 1..n |-> [s \in Seq(S) |-> Cat(s, ss[i])]]
<1> SUFFICES \E f \in [0..n -> Seq(S)] :
               /\ f[0] = <<>> /\ \A i \in 1..n : f[i] = Cat(f[i - 1], ss[i])
               /\ FlattenSeq(ss) = f[n]
    OBVIOUS
<1>1. /\ n \in Nat /\ <<>> \in Seq(S) /\ ss \in [1..n -> Seq(S)]
      /\ \A i \in 1..n : ss[i] \in Seq(S)
    OBVIOUS
<1>2. g \in [1..n -> [Seq(S) -> Seq(S)]]
    BY <1>1, CatProperties
<1>3. PICK f \in [0..n -> Seq(S)] : f[0] = <<>> /\ \A i \in 1..n : f[i] = g[i][f[i - 1]]
    <2>1. AreSteps(g, n, Seq(S))
        BY <1>2 DEF AreSteps
    <2> HIDE DEF g, n
    <2>2. \E f : Solves(f, g, n, Seq(S), <<>>)
        BY <1>1, <2>1, Recursion
    <2> QED
        BY <2>2 DEF Solves
<1>4. \A i \in 1..n : f[i] = Cat(f[i - 1], ss[i])
    <2> SUFFICES ASSUME NEW i \in 1..n PROVE f[i] = Cat(f[i - 1], ss[i])
        OBVIOUS
    <2>1. i - 1 \in 0..n /\ f[i - 1] \in Seq(S)
        <3>1. n \in Nat
            BY <1>1
        <3> HIDE DEF n
        <3> QED
            BY <3>1
    <2>2. g[i] = [s \in Seq(S) |-> Cat(s, ss[i])]
        OBVIOUS
    <2> HIDE DEF g
    <2> QED
        BY <1>3, <2>1, <2>2
<1> HIDE DEF g, n
<1>5. CASE n = 0
    <2>1. ss = <<>> /\ FlattenSeq(ss) = ss
        BY <1>5, EmptySeq DEF FlattenSeq, n
    <2> QED
        BY <1>3, <1>4, <1>5, <2>1
<1>6. CASE n # 0
    <2> DEFINE Flat(h) == h = [i \in 1..n |-> IF i = 1 THEN ss[i] ELSE Cat(h[i - 1], ss[i])]
               flat == CHOOSE h : Flat(h)
               f1 == [i \in 1..n |-> f[i]]
    <2>1. Flat(f1)
        <3>1. ASSUME NEW i \in 1..n PROVE f1[i] = IF i = 1 THEN ss[i] ELSE Cat(f1[i - 1], ss[i])
            <4>1. CASE i = 1
                <5>1. f[1] = Cat(<<>>, ss[1]) /\ ss[1] \in Seq(S)
                    BY <1>1, <1>3, <1>4, <4>1
                <5> QED
                    BY <4>1, <5>1, CatProperties
            <4>2. CASE i # 1
                <5>1. i - 1 \in 1..n
                    BY <1>1, <4>2
                <5> QED
                    BY <1>4, <4>2, <5>1
            <4> QED
                BY <4>1, <4>2
        <3>2. f1 = [i \in 1..n |-> f1[i]]
            OBVIOUS
        <3> HIDE DEF f1
        <3> QED
            BY <3>1, <3>2, Zenon
    <2>2. Flat(flat)
        BY <2>1
    <2>3. FlattenSeq(ss) = flat[n]
        BY <1>6 DEF FlattenSeq, n, Cat
    <2>4. \A i \in 1..n : flat[i] = IF i = 1 THEN ss[i] ELSE Cat(flat[i - 1], ss[i])
        BY <2>2, Zenon
    <2>5. \A i \in 1..n : f1[i] = IF i = 1 THEN ss[i] ELSE Cat(f1[i - 1], ss[i])
        BY <2>1, Zenon
    <2>6. \A i \in 1..n : f1[i] = f[i]
        OBVIOUS
    <2> HIDE DEF flat, Flat, f1
    <2> DEFINE Differ == {i \in 1..n : flat[i] # f1[i]}
    <2>7. ASSUME Differ # {} PROVE FALSE
        <3>1. PICK i \in Differ : \A k \in Differ : i <= k
            <4>1. Differ \in SUBSET Nat
                BY <1>1
            <4> HIDE DEF Differ
            <4> QED
                BY <2>7, <4>1, HasLeast
        <3>2. i # 1 /\ i - 1 \in 1..n /\ i - 1 \notin Differ
            BY <1>1, <2>4, <2>5, <3>1
        <3> QED
            BY <1>1, <2>4, <2>5, <3>1, <3>2
    <2>8. flat[n] = f[n]
        <3>1. n \in 1..n
            BY <1>1, <1>6 DEF n
        <3> QED
            BY <2>6, <2>7, <3>1
    <2> QED
        BY <1>3, <1>4, <2>3, <2>8
<1> QED
    BY <1>5, <1>6

LEMMA FlattenType ==
    ASSUME NEW S, NEW ss \in Seq(Seq(S))
    PROVE  FlattenSeq(ss) \in Seq(S)
<1>1. PICK f \in [0..Len(ss) -> Seq(S)] : FlattenSeq(ss) = f[Len(ss)]
    BY FlattenSteps
<1> QED
    BY <1>1

LEMMA FlattenNothing == FlattenSeq(<<>>) = <<>>
BY DEF FlattenSeq

\* The first sequence comes first.
LEMMA FlattenFirst ==
    ASSUME NEW S, NEW ss \in Seq(Seq(S)), ss # <<>>
    PROVE  FlattenSeq(ss) = ss[1] \o FlattenSeq(Tail(ss))
<1> DEFINE rest == Tail(ss)
           n == Len(rest)
<1>1. /\ rest \in Seq(Seq(S)) /\ n \in Nat /\ Len(ss) = n + 1 /\ ss[1] \in Seq(S)
      /\ \A i \in 1..n : rest[i] = ss[i + 1] /\ rest[i] \in Seq(S)
    <2>1. rest \in Seq(Seq(S)) /\ Len(rest) = Len(ss) - 1 /\ \A i \in 1..Len(rest) : rest[i] = ss[i + 1]
        BY HeadTailProperties
    <2>2. Len(ss) \in Nat \ {0} /\ ss \in [1..Len(ss) -> Seq(S)]
        BY EmptySeq, LenProperties
    <2> HIDE DEF rest
    <2> QED
        BY <2>1, <2>2
<1> HIDE DEF rest
<1>2. PICK f \in [0..(n + 1) -> Seq(S)] :
             /\ f[0] = <<>> /\ \A i \in 1..(n + 1) : f[i] = Cat(f[i - 1], ss[i])
             /\ FlattenSeq(ss) = f[n + 1]
    <2>1. \E f \in [0..Len(ss) -> Seq(S)] :
             /\ f[0] = <<>> /\ \A i \in 1..Len(ss) : f[i] = Cat(f[i - 1], ss[i])
             /\ FlattenSeq(ss) = f[Len(ss)]
        BY FlattenSteps
    <2> HIDE DEF n
    <2> QED
        BY <1>1, <2>1
<1>3. PICK h \in [0..n -> Seq(S)] :
             /\ h[0] = <<>> /\ \A i \in 1..n : h[i] = Cat(h[i - 1], rest[i])
             /\ FlattenSeq(rest) = h[n]
    BY <1>1, FlattenSteps
<1> HIDE DEF n
<1> DEFINE Differ == {i \in 0..n : f[i + 1] # Cat(ss[1], h[i])}
<1>4. ASSUME Differ # {} PROVE FALSE
    <2>1. PICK i \in Differ : \A k \in Differ : i <= k
        <3>1. Differ \in SUBSET Nat
            BY <1>1
        <3> HIDE DEF Differ
        <3> QED
            BY <1>4, <3>1, HasLeast
    <2>2. CASE i = 0
        <3>1. f[1] = Cat(<<>>, ss[1]) /\ h[0] = <<>>
            BY <1>1, <1>2, <1>3
        <3>2. f[1] = ss[1] /\ Cat(ss[1], <<>>) = ss[1]
            BY <1>1, <3>1, CatProperties
        <3> QED
            BY <2>1, <2>2, <3>1, <3>2
    <2>3. CASE i # 0
        <3>1. i \in 0..n /\ i - 1 \in 0..n /\ i \in 1..n /\ i + 1 \in 1..(n + 1) /\ ~(i <= i - 1)
            BY <1>1, <2>1, <2>3
        <3>2. i - 1 \notin Differ
            <4> HIDE DEF Differ
            <4> QED
                BY <2>1, <3>1
        <3>3. f[i] = Cat(ss[1], h[i - 1])
            BY <3>1, <3>2
        <3>4. f[i + 1] = Cat(f[i], ss[i + 1]) /\ h[i] = Cat(h[i - 1], rest[i]) /\ rest[i] = ss[i + 1]
            BY <1>1, <1>2, <1>3, <3>1
        <3>5. Cat(Cat(ss[1], h[i - 1]), rest[i]) = Cat(ss[1], Cat(h[i - 1], rest[i]))
            <4>1. ss[1] \in Seq(S) /\ h[i - 1] \in Seq(S) /\ rest[i] \in Seq(S)
                BY <1>1, <1>3, <3>1
            <4> QED
                BY <4>1, CatAssociative
        <3> QED
            BY <2>1, <3>3, <3>4, <3>5
    <2> QED
        BY <2>2, <2>3
<1>5. f[n + 1] = Cat(ss[1], h[n])
    <2>1. n \in 0..n
        BY <1>1
    <2> QED
        BY <1>4, <2>1
<1> QED
    BY <1>2, <1>3, <1>5 DEF rest, Cat

LEMMA HeadOfConcat ==
    ASSUME NEW S, NEW s \in Seq(S), s # <<>>, NEW t \in Seq(S)
    PROVE  Head(s \o t) = Head(s) /\ Tail(s \o t) = Tail(s) \o t
<1>1. /\ s \o t \in Seq(S) /\ Len(s \o t) = Len(s) + Len(t)
      /\ Len(s) \in Nat \ {0} /\ Len(t) \in Nat
      /\ \A i \in 1..(Len(s) + Len(t)) : (s \o t)[i] = IF i <= Len(s) THEN s[i] ELSE t[i - Len(s)]
    BY ConcatProperties, EmptySeq, LenProperties
<1>2. s \o t # <<>> /\ (s \o t)[1] = s[1]
    BY <1>1
<1>3. Head(s \o t) = Head(s)
    BY <1>2
<1>4. /\ Tail(s) \in Seq(S) /\ Len(Tail(s)) = Len(s) - 1
      /\ \A i \in 1..(Len(s) - 1) : Tail(s)[i] = s[i + 1]
    BY HeadTailProperties
<1>5. /\ Tail(s \o t) \in Seq(S) /\ Len(Tail(s \o t)) = Len(s) + Len(t) - 1
      /\ \A i \in 1..(Len(s) + Len(t) - 1) : Tail(s \o t)[i] = (s \o t)[i + 1]
    BY <1>1, <1>2, HeadTailProperties
<1>6. /\ Tail(s) \o t \in Seq(S) /\ Len(Tail(s) \o t) = Len(s) + Len(t) - 1
      /\ \A i \in 1..(Len(s) + Len(t) - 1) :
            (Tail(s) \o t)[i] = IF i <= Len(s) - 1 THEN Tail(s)[i] ELSE t[i - (Len(s) - 1)]
    BY <1>1, <1>4, ConcatProperties
<1>7. ASSUME NEW i \in 1..(Len(s) + Len(t) - 1)
      PROVE  Tail(s \o t)[i] = (Tail(s) \o t)[i]
    <2>1. i + 1 \in 1..(Len(s) + Len(t)) /\ i + 1 - Len(s) = i - (Len(s) - 1)
        BY <1>1
    <2>2. Tail(s \o t)[i] = IF i + 1 <= Len(s) THEN s[i + 1] ELSE t[i + 1 - Len(s)]
        BY <1>1, <1>5, <2>1
    <2>3. CASE i + 1 <= Len(s)
        BY <1>1, <1>4, <1>6, <2>2, <2>3
    <2>4. CASE ~(i + 1 <= Len(s))
        BY <1>1, <1>6, <2>1, <2>2, <2>4
    <2> QED
        BY <2>3, <2>4
<1> QED
    BY <1>3, <1>5, <1>6, <1>7, SeqEqual

\* What is left of a sequence behind its n-th element.
LEMMA SubSeqBehind ==
    ASSUME NEW S, NEW s \in Seq(S), NEW n \in 0..Len(s)
    PROVE  /\ SubSeq(s, n + 1, Len(s)) \in Seq(S)
           /\ Len(SubSeq(s, n + 1, Len(s))) = Len(s) - n
           /\ \A i \in 1..(Len(s) - n) : SubSeq(s, n + 1, Len(s))[i] = s[n + i]
<1> DEFINE l == Len(s)
<1>1. l \in Nat /\ n \in Nat /\ n <= l /\ \A i \in 1..l : s[i] \in S
    BY ElementOfSeq, LenProperties
<1> HIDE DEF l
<1>2. /\ SubSeq(s, n + 1, l) \in Seq(S)
      /\ Len(SubSeq(s, n + 1, l)) = IF n + 1 <= l THEN l - (n + 1) + 1 ELSE 0
      /\ \A i \in 1..(l - (n + 1) + 1) : SubSeq(s, n + 1, l)[i] = s[n + 1 + i - 1]
    <2>1. n + 1 \in Int /\ l \in Int /\ \A i \in (n + 1)..l : s[i] \in S
        BY <1>1
    <2> QED
        BY <2>1, SubSeqProperties
<1>3. /\ SubSeq(s, n + 1, l) \in Seq(S) /\ Len(SubSeq(s, n + 1, l)) = l - n
      /\ \A i \in 1..(l - n) : SubSeq(s, n + 1, l)[i] = s[n + i]
    BY <1>1, <1>2
<1> QED
    BY <1>3 DEF l

\* Cutting a concatenation within its first part.
LEMMA CutConcat ==
    ASSUME NEW S, NEW s \in Seq(S), NEW t \in Seq(S), NEW n \in 0..Len(s)
    PROVE  /\ SubSeq(s \o t, 1, n) = SubSeq(s, 1, n)
           /\ SubSeq(s \o t, n + 1, Len(s \o t)) = SubSeq(s, n + 1, Len(s)) \o t
<1> DEFINE l == Len(s)
           m == Len(t)
           st == s \o t
           front == SubSeq(s, n + 1, l)
<1>1. /\ st \in Seq(S) /\ Len(st) = l + m /\ l \in Nat /\ m \in Nat /\ n \in Nat /\ n <= l
      /\ \A i \in 1..(l + m) : st[i] = IF i <= l THEN s[i] ELSE t[i - l]
      /\ \A i \in 1..l : s[i] \in S
      /\ \A i \in 1..(l + m) : st[i] \in S
    <2>1. st \in Seq(S) /\ \A i \in 1..Len(st) : st[i] \in S
        BY ConcatProperties, ElementOfSeq
    <2> QED
        BY <2>1, ConcatProperties, LenProperties
<1> HIDE DEF st, l, m
<1>2. SubSeq(st, 1, n) = SubSeq(s, 1, n)
    <2>1. /\ SubSeq(st, 1, n) \in Seq(S) /\ Len(SubSeq(st, 1, n)) = n
          /\ \A i \in 1..n : SubSeq(st, 1, n)[i] = st[i]
        <3>1. \A i \in 1..n : st[i] \in S
            BY <1>1
        <3> QED
            BY <1>1, <3>1, SubSeqProperties
    <2>2. /\ SubSeq(s, 1, n) \in Seq(S) /\ Len(SubSeq(s, 1, n)) = n
          /\ \A i \in 1..n : SubSeq(s, 1, n)[i] = s[i]
        <3>1. \A i \in 1..n : s[i] \in S
            BY <1>1
        <3> QED
            BY <1>1, <3>1, SubSeqProperties
    <2>3. \A i \in 1..n : st[i] = s[i]
        BY <1>1
    <2> QED
        BY <2>1, <2>2, <2>3, SeqEqual
<1>3. /\ front \in Seq(S) /\ Len(front) = l - n
      /\ \A i \in 1..(l - n) : front[i] = s[n + i]
    BY <1>1, SubSeqBehind DEF l
<1>4. /\ SubSeq(st, n + 1, l + m) \in Seq(S) /\ Len(SubSeq(st, n + 1, l + m)) = l + m - n
      /\ \A i \in 1..(l + m - n) : SubSeq(st, n + 1, l + m)[i] = st[n + i]
    <2>1. n \in 0..Len(st)
        BY <1>1
    <2> QED
        BY <1>1, <2>1, SubSeqBehind
<1> HIDE DEF front
<1>5. /\ front \o t \in Seq(S) /\ Len(front \o t) = l + m - n
      /\ \A i \in 1..(l + m - n) :
            (front \o t)[i] = IF i <= l - n THEN front[i] ELSE t[i - (l - n)]
    <2>1. /\ front \o t \in Seq(S) /\ Len(front \o t) = Len(front) + Len(t)
          /\ \A i \in 1..(Len(front) + Len(t)) :
                (front \o t)[i] = IF i <= Len(front) THEN front[i] ELSE t[i - Len(front)]
        BY <1>3, ConcatProperties
    <2> QED
        BY <1>1, <1>3, <2>1 DEF m
<1>6. ASSUME NEW i \in 1..(l + m - n)
      PROVE  SubSeq(st, n + 1, l + m)[i] = (front \o t)[i]
    <2>1. n + i \in 1..(l + m) /\ n + i - l = i - (l - n) /\ (n + i <= l <=> i <= l - n)
        BY <1>1
    <2>2. SubSeq(st, n + 1, l + m)[i] = IF n + i <= l THEN s[n + i] ELSE t[n + i - l]
        BY <1>1, <1>4, <2>1
    <2>3. CASE i <= l - n
        BY <1>1, <1>3, <1>5, <2>1, <2>2, <2>3
    <2>4. CASE ~(i <= l - n)
        BY <1>5, <2>1, <2>2, <2>4
    <2> QED
        BY <2>3, <2>4
<1>7. SubSeq(st, n + 1, l + m) = front \o t
    BY <1>4, <1>5, <1>6, SeqEqual
<1> QED
    BY <1>1, <1>2, <1>7 DEF front, st, l
-----------------------------------------------------------------------------
(* The bytes of a tag and of the stream.                                   *)

\* A concatenation, element by element.
LEMMA ConcatShape ==
    ASSUME NEW S, NEW s \in Seq(S), NEW t \in Seq(S)
    PROVE  /\ s \o t \in Seq(S) /\ Len(s \o t) = Len(s) + Len(t)
           /\ \A i \in 1..Len(s) : (s \o t)[i] = s[i]
           /\ \A i \in 1..Len(t) : (s \o t)[Len(s) + i] = t[i]
<1>1. /\ s \o t \in Seq(S) /\ Len(s \o t) = Len(s) + Len(t)
      /\ Len(s) \in Nat /\ Len(t) \in Nat
      /\ \A i \in 1..(Len(s) + Len(t)) : (s \o t)[i] = IF i <= Len(s) THEN s[i] ELSE t[i - Len(s)]
    BY ConcatProperties, LenProperties
<1>2. ASSUME NEW i \in 1..Len(s) PROVE (s \o t)[i] = s[i]
    BY <1>1
<1>3. ASSUME NEW i \in 1..Len(t) PROVE (s \o t)[Len(s) + i] = t[i]
    <2>1. /\ Len(s) + i \in 1..(Len(s) + Len(t)) /\ ~(Len(s) + i <= Len(s))
          /\ Len(s) + i - Len(s) = i
        BY <1>1
    <2> QED
        BY <1>1, <2>1
<1> QED
    BY <1>1, <1>2, <1>3

\* The parts of a tag have their places.
HasParts(b, S, n, p1, p2, p3, p4, p5) ==
    /\ b \in Seq(S) /\ Len(b) = n + 15
    /\ b[1] = p1[1] /\ b[2] = p2[1] /\ b[3] = p2[2] /\ b[4] = p2[3]
    /\ b[5] = p3[1] /\ b[6] = p3[2] /\ b[7] = p3[3] /\ b[8] = p3[4]
    /\ b[9] = p4[1] /\ b[10] = p4[2] /\ b[11] = p4[3]
    /\ \A i \in 1..n : b[11 + i] = p5[i]

LEMMA TagParts ==
    ASSUME NEW S, NEW n \in Nat, NEW p1 \in Seq(S), NEW p2 \in Seq(S), NEW p3 \in Seq(S),
           NEW p4 \in Seq(S), NEW p5 \in Seq(S), NEW p6 \in Seq(S)
    PROVE  /\ Len(p1) = 1 /\ Len(p2) = 3 /\ Len(p3) = 4 /\ Len(p4) = 3 /\ Len(p5) = n /\ Len(p6) = 4
           => HasParts(p1 \o p2 \o p3 \o p4 \o p5 \o p6, S, n, p1, p2, p3, p4, p5)
<1> DEFINE b == p1 \o p2 \o p3 \o p4 \o p5 \o p6
           c2 == p1 \o p2
           c3 == c2 \o p3
           c4 == c3 \o p4
           c5 == c4 \o p5
           c6 == c5 \o p6
<1>0. SUFFICES
        ASSUME Len(p1) = 1, Len(p2) = 3, Len(p3) = 4, Len(p4) = 3, Len(p5) = n, Len(p6) = 4
        PROVE  HasParts(b, S, n, p1, p2, p3, p4, p5)
    OBVIOUS
<1>1. /\ c2 \in Seq(S) /\ Len(c2) = 4 /\ \A i \in 1..1 : c2[i] = p1[i]
      /\ \A i \in 1..3 : c2[1 + i] = p2[i]
    <2>1. /\ c2 \in Seq(S) /\ Len(c2) = Len(p1) + Len(p2)
          /\ \A i \in 1..Len(p1) : c2[i] = p1[i]
          /\ \A i \in 1..Len(p2) : c2[Len(p1) + i] = p2[i]
        BY ConcatShape
    <2> HIDE DEF c2
    <2> QED
        BY <1>0, <2>1
<1> HIDE DEF c2
<1>2. /\ c3 \in Seq(S) /\ Len(c3) = 8 /\ \A i \in 1..4 : c3[i] = c2[i]
      /\ \A i \in 1..4 : c3[4 + i] = p3[i]
    <2>1. /\ c3 \in Seq(S) /\ Len(c3) = Len(c2) + Len(p3)
          /\ \A i \in 1..Len(c2) : c3[i] = c2[i]
          /\ \A i \in 1..Len(p3) : c3[Len(c2) + i] = p3[i]
        <3>1. c2 \in Seq(S)
            BY <1>1
        <3> QED
            BY <3>1, ConcatShape
    <2> HIDE DEF c3
    <2> QED
        BY <1>0, <1>1, <2>1
<1> HIDE DEF c3
<1>3. /\ c4 \in Seq(S) /\ Len(c4) = 11 /\ \A i \in 1..8 : c4[i] = c3[i]
      /\ \A i \in 1..3 : c4[8 + i] = p4[i]
    <2>1. /\ c4 \in Seq(S) /\ Len(c4) = Len(c3) + Len(p4)
          /\ \A i \in 1..Len(c3) : c4[i] = c3[i]
          /\ \A i \in 1..Len(p4) : c4[Len(c3) + i] = p4[i]
        <3>1. c3 \in Seq(S)
            BY <1>2
        <3> QED
            BY <3>1, ConcatShape
    <2> HIDE DEF c4
    <2> QED
        BY <1>0, <1>2, <2>1
<1> HIDE DEF c4
<1>4. /\ c5 \in Seq(S) /\ Len(c5) = (11 + n) /\ \A i \in 1..11 : c5[i] = c4[i]
      /\ \A i \in 1..n : c5[11 + i] = p5[i]
    <2>1. /\ c5 \in Seq(S) /\ Len(c5) = Len(c4) + Len(p5)
          /\ \A i \in 1..Len(c4) : c5[i] = c4[i]
          /\ \A i \in 1..Len(p5) : c5[Len(c4) + i] = p5[i]
        <3>1. c4 \in Seq(S)
            BY <1>3
        <3> QED
            BY <3>1, ConcatShape
    <2> HIDE DEF c5
    <2> QED
        BY <1>0, <1>3, <2>1
<1> HIDE DEF c5
<1>5. /\ c6 \in Seq(S) /\ Len(c6) = (n + 15) /\ \A i \in 1..(11 + n) : c6[i] = c5[i]
      /\ \A i \in 1..4 : c6[(11 + n) + i] = p6[i]
    <2>1. /\ c6 \in Seq(S) /\ Len(c6) = Len(c5) + Len(p6)
          /\ \A i \in 1..Len(c5) : c6[i] = c5[i]
          /\ \A i \in 1..Len(p6) : c6[Len(c5) + i] = p6[i]
        <3>1. c5 \in Seq(S)
            BY <1>4
        <3> QED
            BY <3>1, ConcatShape
    <2> HIDE DEF c6
    <2> QED
        BY <1>0, <1>4, <2>1
<1> HIDE DEF c6
<1>6. b = c6
    BY DEF c6, c5, c4, c3, c2
<1> HIDE DEF c6, b
<1>7. \A i \in 1..11 : b[i] = c4[i]
    <2>1. \A i \in 1..11 : i \in 1..(11 + n)
        OBVIOUS
    <2> QED
        BY <1>4, <1>5, <1>6, <2>1
<1>8. \A i \in 1..n : b[11 + i] = p5[i]
    <2>1. \A i \in 1..n : 11 + i \in 1..(11 + n)
        OBVIOUS
    <2> QED
        BY <1>4, <1>5, <1>6, <2>1
<1>9. \A i \in 1..4 : c4[i] = c2[i] /\ c4[4 + i] = p3[i]
    <2>1. \A i \in 1..4 : i \in 1..8 /\ 4 + i \in 1..8
        OBVIOUS
    <2>2. \A i \in 1..4 : c4[i] = c3[i] /\ c4[4 + i] = c3[4 + i]
        BY <1>3, <2>1
    <2> QED
        BY <1>2, <2>2
<1>10. /\ c4[1] = p1[1] /\ c4[2] = p2[1] /\ c4[3] = p2[2] /\ c4[4] = p2[3]
       /\ c4[5] = p3[1] /\ c4[6] = p3[2] /\ c4[7] = p3[3] /\ c4[8] = p3[4]
    <2>1. c2[1] = p1[1] /\ c2[1 + 1] = p2[1] /\ c2[1 + 2] = p2[2] /\ c2[1 + 3] = p2[3]
        BY <1>1
    <2>2. c4[4 + 1] = p3[1] /\ c4[4 + 2] = p3[2] /\ c4[4 + 3] = p3[3] /\ c4[4 + 4] = p3[4]
        BY <1>9
    <2>3. c4[1] = c2[1] /\ c4[2] = c2[2] /\ c4[3] = c2[3] /\ c4[4] = c2[4]
        BY <1>9
    <2> QED
        BY <2>1, <2>2, <2>3
<1>11. c4[9] = p4[1] /\ c4[10] = p4[2] /\ c4[11] = p4[3]
    <2>1. c4[8 + 1] = p4[1] /\ c4[8 + 2] = p4[2] /\ c4[8 + 3] = p4[3]
        BY <1>3
    <2> QED
        BY <2>1
<1> QED
    BY <1>5, <1>6, <1>7, <1>8, <1>10, <1>11 DEF HasParts

LEMMA IsSequence ==
    ASSUME NEW n \in Nat, NEW S, NEW f \in [1..n -> S]
    PROVE  f \in Seq(S) /\ Len(f) = n
<1>1. f \in Seq(S)
    BY SeqDef
<1>2. DOMAIN f = 1..n /\ DOMAIN f = 1..Len(f) /\ Len(f) \in Nat
    BY <1>1, LenProperties
<1> QED
    BY <1>1, <1>2


\* A number cut into bytes.
AreBytes(b, n, k, w) ==
    b \in Seq(Byte) /\ Len(b) = k /\ \A i \in 1..k : b[i] = (n \div w[i]) % 256

LEMMA BytesShape ==
    ASSUME NEW n \in Nat, NEW k \in Nat, NEW w \in [1..k -> Nat \ {0}]
    PROVE  AreBytes(Bytes(n, w), n, k, w)
<1>1. Bytes(n, w) = [i \in 1..k |-> (n \div w[i]) % 256]
    BY DEF Bytes
<1>2. ASSUME NEW i \in 1..k PROVE (n \div w[i]) % 256 \in Byte
    <2>1. n \div w[i] \in Int
        OBVIOUS
    <2>2. \A z \in Int : z % 256 \in Byte
        BY DEF Byte
    <2> QED
        BY <2>1, <2>2, Zenon
<1>3. Bytes(n, w) \in [1..k -> Byte]
    BY <1>1, <1>2
<1> QED
    BY <1>1, <1>3, IsSequence DEF AreBytes

\* The bytes of a tag before its backpointer.
Spells(b, t) ==
    /\ b[1] = t.kind
    /\ b[2] = (Len(t.payload) \div 65536) % 256 /\ b[3] = (Len(t.payload) \div 256) % 256
    /\ b[4] = Len(t.payload) % 256
    /\ b[5] = (t.timestamp \div 65536) % 256 /\ b[6] = (t.timestamp \div 256) % 256
    /\ b[7] = t.timestamp % 256 /\ b[8] = (t.timestamp \div 16777216) % 256
    /\ b[9] = 0 /\ b[10] = 0 /\ b[11] = 0
    /\ \A i \in 1..Len(t.payload) : b[11 + i] = t.payload[i]

LEMMA TagShape ==
    ASSUME NEW t \in Tag
    PROVE  /\ t.payload \in Seq(Byte) /\ Len(t.payload) \in Nat /\ t.timestamp \in Nat
           /\ TagBytes(t) \in Seq(Byte) /\ Len(TagBytes(t)) = Len(t.payload) + 15
           /\ Spells(TagBytes(t), t)
<1> DEFINE n == Len(t.payload)
           time == t.timestamp
           w2 == <<65536, 256, 1>>
           w3 == <<65536, 256, 1, 16777216>>
           w6 == <<16777216, 65536, 256, 1>>
           p1 == <<t.kind>>
           p2 == Bytes(n, w2)
           p3 == Bytes(time, w3)
           p4 == <<0, 0, 0>>
           p5 == t.payload
           p6 == Bytes(n + 11, w6)
           b == TagBytes(t)
           three == 3
           four == 4
<1>1. /\ t.kind \in Byte /\ time \in Nat /\ p5 \in Seq(Byte) /\ n \in Nat
      /\ Len(p5) = n
    BY DEF Tag, KindAudio, KindVideo, KindScript, Byte
<1>2. p1 \in Seq(Byte) /\ Len(p1) = 1 /\ p1[1] = t.kind
    <2>1. t.kind \in Byte
        BY <1>1
    <2> QED
        BY <2>1
<1>5. p4 \in Seq(Byte) /\ Len(p4) = 3 /\ p4[1] = 0 /\ p4[2] = 0 /\ p4[3] = 0
    <2>1. 0 \in Byte
        BY DEF Byte
    <2> QED
        BY <2>1
<1>7. b = p1 \o p2 \o p3 \o p4 \o p5 \o p6
    BY SMT DEF TagBytes
<1>8. p5 = t.payload /\ n = Len(t.payload) /\ time = t.timestamp /\ b = TagBytes(t)
    OBVIOUS
<1>10. /\ w2 \in [1..three -> Nat \ {0}] /\ w3 \in [1..four -> Nat \ {0}]
       /\ w6 \in [1..four -> Nat \ {0}] /\ three \in Nat /\ four \in Nat
    BY SMT
<1>12. /\ w2[1] = 65536 /\ w2[2] = 256 /\ w2[3] = 1
       /\ w3[1] = 65536 /\ w3[2] = 256 /\ w3[3] = 1 /\ w3[4] = 16777216
    BY SMT
<1>13. three = 3 /\ four = 4
    OBVIOUS
<1> HIDE DEF w2, w3, w6, n, time, b, three, four
<1>3. /\ p2 \in Seq(Byte) /\ Len(p2) = 3
      /\ p2[1] = (n \div 65536) % 256 /\ p2[2] = (n \div 256) % 256 /\ p2[3] = n % 256
    <2>1. 1 \in 1..3 /\ 2 \in 1..3 /\ 3 \in 1..3
        OBVIOUS
    <2>5. AreBytes(p2, n, three, w2)
        BY <1>1, <1>10, BytesShape, Zenon
    <2> HIDE DEF p2
    <2>2. p2 \in Seq(Byte) /\ Len(p2) = 3 /\ \A i \in 1..3 : p2[i] = (n \div w2[i]) % 256
        BY <1>13, <2>5 DEF AreBytes
    <2>3. p2[1] = (n \div w2[1]) % 256 /\ p2[2] = (n \div w2[2]) % 256 /\ p2[3] = (n \div w2[3]) % 256
        BY <2>1, <2>2
    <2>4. n \div 1 = n
        BY <1>1
    <2> QED
        BY <1>12, <2>2, <2>3, <2>4, SMT
<1>4. /\ p3 \in Seq(Byte) /\ Len(p3) = 4
      /\ p3[1] = (time \div 65536) % 256 /\ p3[2] = (time \div 256) % 256 /\ p3[3] = time % 256
      /\ p3[4] = (time \div 16777216) % 256
    <2>1. 1 \in 1..4 /\ 2 \in 1..4 /\ 3 \in 1..4 /\ 4 \in 1..4
        OBVIOUS
    <2>5. AreBytes(p3, time, four, w3)
        BY <1>1, <1>10, BytesShape, Zenon
    <2> HIDE DEF p3
    <2>2. p3 \in Seq(Byte) /\ Len(p3) = 4 /\ \A i \in 1..4 : p3[i] = (time \div w3[i]) % 256
        BY <1>13, <2>5 DEF AreBytes
    <2>3. /\ p3[1] = (time \div w3[1]) % 256 /\ p3[2] = (time \div w3[2]) % 256
          /\ p3[3] = (time \div w3[3]) % 256 /\ p3[4] = (time \div w3[4]) % 256
        BY <2>1, <2>2
    <2>4. time \div 1 = time
        BY <1>1
    <2> QED
        BY <1>12, <2>2, <2>3, <2>4, SMT
<1>6. p6 \in Seq(Byte) /\ Len(p6) = 4
    <2>1. n + 11 \in Nat
        BY <1>1
    <2>2. AreBytes(p6, n + 11, four, w6)
        BY <1>10, <2>1, BytesShape, Zenon
    <2> QED
        BY <1>13, <2>2 DEF AreBytes
<1> HIDE DEF p1, p2, p3, p4, p5, p6
<1>9. /\ b \in Seq(Byte) /\ Len(b) = n + 15
      /\ b[1] = p1[1] /\ b[2] = p2[1] /\ b[3] = p2[2] /\ b[4] = p2[3]
      /\ b[5] = p3[1] /\ b[6] = p3[2] /\ b[7] = p3[3] /\ b[8] = p3[4]
      /\ b[9] = p4[1] /\ b[10] = p4[2] /\ b[11] = p4[3]
      /\ \A i \in 1..n : b[11 + i] = p5[i]
    <2>1. /\ p1 \in Seq(Byte) /\ p2 \in Seq(Byte) /\ p3 \in Seq(Byte) /\ p4 \in Seq(Byte)
          /\ p5 \in Seq(Byte) /\ p6 \in Seq(Byte) /\ n \in Nat
        BY <1>1, <1>2, <1>3, <1>4, <1>5, <1>6
    <2>2. Len(p1) = 1 /\ Len(p2) = 3 /\ Len(p3) = 4 /\ Len(p4) = 3 /\ Len(p5) = n /\ Len(p6) = 4
        BY <1>1, <1>2, <1>3, <1>4, <1>5, <1>6
    <2>3. HasParts(p1 \o p2 \o p3 \o p4 \o p5 \o p6, Byte, n, p1, p2, p3, p4, p5)
        BY <2>1, <2>2, TagParts, Zenon
    <2> QED
        BY <1>7, <2>3, Zenon DEF HasParts
<1>11. /\ b \in Seq(Byte) /\ Len(b) = n + 15 /\ n \in Nat /\ time \in Nat
       /\ b[1] = t.kind
       /\ b[2] = (n \div 65536) % 256 /\ b[3] = (n \div 256) % 256 /\ b[4] = n % 256
       /\ b[5] = (time \div 65536) % 256 /\ b[6] = (time \div 256) % 256
       /\ b[7] = time % 256 /\ b[8] = (time \div 16777216) % 256
       /\ b[9] = 0 /\ b[10] = 0 /\ b[11] = 0
       /\ \A i \in 1..n : b[11 + i] = p5[i]
    <2>1. b[1] = t.kind /\ b[9] = 0 /\ b[10] = 0 /\ b[11] = 0
        BY <1>2, <1>5, <1>9
    <2>2. b[2] = (n \div 65536) % 256 /\ b[3] = (n \div 256) % 256 /\ b[4] = n % 256
        BY <1>3, <1>9, SMT
    <2>3. /\ b[5] = (time \div 65536) % 256 /\ b[6] = (time \div 256) % 256
          /\ b[7] = time % 256 /\ b[8] = (time \div 16777216) % 256
        BY <1>4, <1>9, SMT
    <2> QED
        BY <1>1, <1>9, <2>1, <2>2, <2>3
<1> QED
    BY <1>1, <1>8, <1>11, SMT DEF Spells

\* The bytes of the tags behind the k-th.
Wire(ts, k) == FlattenSeq([i \in 1..(Len(ts) - k) |-> TagBytes(ts[i + k])])

LEMMA WireOf ==
    ASSUME NEW ts \in Seq(Tag), NEW k \in 0..Len(ts)
    PROVE  LET p == [i \in 1..(Len(ts) - k) |-> TagBytes(ts[i + k])]
           IN  p \in Seq(Seq(Byte)) /\ Len(p) = Len(ts) - k
<1>1. Len(ts) \in Nat /\ Len(ts) - k \in Nat
    OBVIOUS
<1>2. ASSUME NEW i \in 1..(Len(ts) - k) PROVE TagBytes(ts[i + k]) \in Seq(Byte)
    <2>1. i + k \in 1..Len(ts)
        BY <1>1
    <2>2. ts[i + k] \in Tag
        BY <2>1, ElementOfSeq
    <2> QED
        BY <2>2, TagShape
<1> QED
    BY <1>1, <1>2, IsSequence

LEMMA WireType ==
    ASSUME NEW ts \in Seq(Tag), NEW k \in 0..Len(ts)
    PROVE  Wire(ts, k) \in Seq(Byte)
BY WireOf, FlattenType DEF Wire

\* There is nothing behind the last tag.
LEMMA WireEnds ==
    ASSUME NEW ts \in Seq(Tag)
    PROVE  Wire(ts, Len(ts)) = <<>>
<1> DEFINE p == [i \in 1..(Len(ts) - Len(ts)) |-> TagBytes(ts[i + Len(ts)])]
<1>1. p \in Seq(Seq(Byte)) /\ Len(p) = 0
    <2>1. Len(ts) \in 0..Len(ts) /\ Len(ts) - Len(ts) = 0
        OBVIOUS
    <2>2. p \in Seq(Seq(Byte)) /\ Len(p) = Len(ts) - Len(ts)
        BY <2>1, WireOf
    <2> QED
        BY <2>1, <2>2
<1> HIDE DEF p
<1>2. p = <<>>
    BY <1>1, EmptySeq
<1> QED
    BY <1>2, FlattenNothing DEF Wire, p

\* The bytes begin with those of the next tag.
LEMMA WireNext ==
    ASSUME NEW ts \in Seq(Tag), NEW k \in 0..Len(ts), k < Len(ts)
    PROVE  /\ ts[k + 1] \in Tag /\ k + 1 \in 0..Len(ts)
           /\ Wire(ts, k) = TagBytes(ts[k + 1]) \o Wire(ts, k + 1)
<1> DEFINE l == Len(ts)
           p == [i \in 1..(l - k) |-> TagBytes(ts[i + k])]
           q == [i \in 1..(l - (k + 1)) |-> TagBytes(ts[i + (k + 1)])]
<1>1. l \in Nat /\ k \in Nat /\ k < l /\ k + 1 \in 0..l /\ k + 1 \in 1..l /\ k \in 0..l
    OBVIOUS
<1>2. p \in Seq(Seq(Byte)) /\ Len(p) = l - k
    BY WireOf
<1>3. q \in Seq(Seq(Byte)) /\ Len(q) = l - (k + 1)
    BY <1>1, WireOf
<1>4. ASSUME NEW i \in 1..(l - (k + 1)) PROVE p[i + 1] = q[i]
    <2>1. i + 1 \in 1..(l - k) /\ i + 1 + k = i + (k + 1)
        BY <1>1
    <2> QED
        BY <2>1
<1>5. p[1] = TagBytes(ts[k + 1])
    <2>1. 1 \in 1..(l - k) /\ 1 + k = k + 1
        BY <1>1
    <2> QED
        BY <2>1
<1>6. ts[k + 1] \in Tag
    BY <1>1, ElementOfSeq
<1>7. Wire(ts, k) = FlattenSeq(p) /\ Wire(ts, k + 1) = FlattenSeq(q)
    BY DEF Wire
<1> HIDE DEF p, q, l
<1>8. p # <<>>
    BY <1>1, <1>2
<1>9. Tail(p) = q
    <2>1. /\ Tail(p) \in Seq(Seq(Byte)) /\ Len(Tail(p)) = l - k - 1
          /\ \A i \in 1..(l - k - 1) : Tail(p)[i] = p[i + 1]
        BY <1>2, <1>8, HeadTailProperties
    <2>2. l - k - 1 = l - (k + 1)
        BY <1>1
    <2> QED
        BY <1>3, <1>4, <2>1, <2>2, SeqEqual
<1>10. FlattenSeq(p) = p[1] \o FlattenSeq(q)
    BY <1>2, <1>8, <1>9, FlattenFirst
<1> QED
    BY <1>1, <1>5, <1>6, <1>7, <1>10 DEF l

\* What Open puts on the wire.
LEMMA WireStarts ==
    ASSUME NEW ts \in Seq(Tag)
    PROVE  FlattenSeq([i \in DOMAIN ts |-> TagBytes(ts[i])]) = Wire(ts, 0)
<1>1. DOMAIN ts = 1..Len(ts) /\ Len(ts) \in Nat
    OBVIOUS
<1>2. \A i \in 1..Len(ts) : i + 0 = i
    OBVIOUS
<1>3. Len(ts) - 0 = Len(ts)
    BY <1>1
<1>4. [i \in DOMAIN ts |-> TagBytes(ts[i])] = [i \in 1..(Len(ts) - 0) |-> TagBytes(ts[i + 0])]
    BY <1>1, <1>2, <1>3
<1> QED
    BY <1>4 DEF Wire

-----------------------------------------------------------------------------
(* Reading.                                                                *)

\* What is left of s behind its n-th byte, and then w, is what is ahead.
Ahead(b, rest, s, n, w) == b \o rest = SubSeq(s, n + 1, Len(s)) \o w

\* The byte behind the n-th of s.
LEMMA ReadFrom ==
    ASSUME NEW b \in Seq(Byte), NEW rest \in Seq(Byte), NEW s \in Seq(Byte), NEW w \in Seq(Byte),
           NEW n \in Nat, n < Len(s), b # <<>>, Ahead(b, rest, s, n, w)
    PROVE  Head(b) = s[n + 1] /\ Ahead(Tail(b), rest, s, n + 1, w)
<1> DEFINE u == SubSeq(s, n + 1, Len(s))
           v == SubSeq(s, n + 2, Len(s))
<1>1. /\ u \in Seq(Byte) /\ Len(u) = Len(s) - n
      /\ \A i \in 1..(Len(s) - n) : u[i] = s[n + i]
    <2>1. n \in 0..Len(s)
        OBVIOUS
    <2> QED
        BY <2>1, SubSeqBehind
<1>2. /\ v \in Seq(Byte) /\ Len(v) = Len(s) - (n + 1)
      /\ \A i \in 1..(Len(s) - (n + 1)) : v[i] = s[n + 1 + i]
    <2>1. n + 1 \in 0..Len(s) /\ n + 2 = (n + 1) + 1
        OBVIOUS
    <2> QED
        BY <2>1, SubSeqBehind
<1>3. Len(s) \in Nat
    OBVIOUS
<1> HIDE DEF u, v
<1>4. u # <<>> /\ Head(u) = s[n + 1]
    BY <1>1, <1>3
<1>5. Tail(u) = v
    <2>1. /\ Tail(u) \in Seq(Byte) /\ Len(Tail(u)) = Len(s) - n - 1
          /\ \A i \in 1..(Len(s) - n - 1) : Tail(u)[i] = u[i + 1]
        BY <1>1, <1>3, <1>4, HeadTailProperties
    <2>2. Len(s) - n - 1 = Len(s) - (n + 1)
        BY <1>3
    <2>3. ASSUME NEW i \in 1..(Len(s) - (n + 1)) PROVE Tail(u)[i] = v[i]
        <3>1. i + 1 \in 1..(Len(s) - n) /\ n + (i + 1) = n + 1 + i
            BY <1>3
        <3> QED
            BY <1>1, <1>2, <2>1, <2>2, <3>1
    <2> QED
        BY <1>2, <2>1, <2>2, <2>3, SeqEqual
<1>6. b \o rest = u \o w
    BY DEF u, Ahead
<1> QED
    <2>1. Head(b) = Head(u) /\ Tail(b) \o rest = Tail(u) \o w
        <3>1. Head(b \o rest) = Head(b) /\ Tail(b \o rest) = Tail(b) \o rest
            BY HeadOfConcat, Zenon
        <3>2. Head(u \o w) = Head(u) /\ Tail(u \o w) = Tail(u) \o w
            BY <1>1, <1>4, HeadOfConcat, Zenon
        <3> QED
            BY <1>6, <3>1, <3>2, Zenon
    <2>2. Tail(b) \o rest = SubSeq(s, n + 1 + 1, Len(s)) \o w
        <3>1. n + 1 + 1 = n + 2
            OBVIOUS
        <3> QED
            BY <1>5, <2>1, <3>1 DEF v
    <2> QED
        BY <1>4, <2>1, <2>2, Zenon DEF Ahead

-----------------------------------------------------------------------------
(* The packet being read.                                                  *)

\* The fields of the packet when the demuxer is in state s of its tag: each
\* byte that has been read has its weight.
LengthTo(b, s) ==
    (IF s > 14 THEN b[2] * 65536 ELSE 0) + (IF s > 15 THEN b[3] * 256 ELSE 0)
    + (IF s > 16 THEN b[4] ELSE 0)

TimeTo(b, s) ==
    (IF s > 17 THEN b[5] * 65536 ELSE 0) + (IF s > 18 THEN b[6] * 256 ELSE 0)
    + (IF s > 19 THEN b[7] ELSE 0) + (IF s > 20 THEN b[8] * 16777216 ELSE 0)

Fields(kind, length, time) ==
    [kind |-> kind, Length |-> length, Timestamp |-> time, StreamID |-> 0, Payload |-> <<>>]

Partial(t, s) == Fields(t.kind, LengthTo(TagBytes(t), s), TimeTo(TagBytes(t), s))

\* The bytes of a length and of a timestamp add up to them.
LEMMA LengthAddsUp ==
    ASSUME NEW n \in Nat, n < 16777216
    PROVE  ((n \div 65536) % 256) * 65536 + ((n \div 256) % 256) * 256 + (n % 256) = n
OBVIOUS

LEMMA TimeAddsUp ==
    ASSUME NEW n \in Nat, n \div 16777216 < 256
    PROVE  ((n \div 65536) % 256) * 65536 + ((n \div 256) % 256) * 256 + (n % 256)
           + ((n \div 16777216) % 256) * 16777216 = n
OBVIOUS

\* When the fields are complete, they are those of the tag.
LEMMA PartialEnds ==
    ASSUME NEW t \in Tag
    PROVE  Partial(t, 24) = [Packet(t) EXCEPT !.Payload = <<>>]
<1> DEFINE n == Len(t.payload)
           time == t.timestamp
           b == TagBytes(t)
<1>1. n \in Nat /\ time \in Nat /\ Spells(b, t)
    BY TagShape
<1>2. n < 16777216 /\ time \div 16777216 < 256
    BY DEF Tag
<1>3. /\ LengthTo(b, 24) = b[2] * 65536 + b[3] * 256 + b[4]
      /\ TimeTo(b, 24) = b[5] * 65536 + b[6] * 256 + b[7] + b[8] * 16777216
    BY SMT DEF LengthTo, TimeTo
<1>4. [Packet(t) EXCEPT !.Payload = <<>>] = Fields(t.kind, n, time)
    BY DEF Packet, Fields
<1>8. Partial(t, 24) = Fields(t.kind, LengthTo(b, 24), TimeTo(b, 24))
    BY DEF Partial
<1>5. /\ b[2] = (n \div 65536) % 256 /\ b[3] = (n \div 256) % 256 /\ b[4] = n % 256
      /\ b[5] = (time \div 65536) % 256 /\ b[6] = (time \div 256) % 256
      /\ b[7] = time % 256 /\ b[8] = (time \div 16777216) % 256
    BY <1>1, SMT DEF Spells
<1> HIDE DEF n, time, b
<1>6. b[2] * 65536 + b[3] * 256 + b[4] = n
    <2>1. ((n \div 65536) % 256) * 65536 + ((n \div 256) % 256) * 256 + (n % 256) = n
        BY <1>1, <1>2, LengthAddsUp, SMT
    <2> QED
        BY <1>5, <2>1, SMT
<1>7. b[5] * 65536 + b[6] * 256 + b[7] + b[8] * 16777216 = time
    <2>1. ((time \div 65536) % 256) * 65536 + ((time \div 256) % 256) * 256 + (time % 256)
          + ((time \div 16777216) % 256) * 16777216 = time
        BY <1>1, <1>2, TimeAddsUp, SMT
    <2> QED
        BY <1>5, <2>1, SMT
<1> QED
    BY <1>3, <1>4, <1>6, <1>7, <1>8, SMT

\* The first byte sets the kind, each of the others adds to its field.
LEMMA PartialStarts ==
    ASSUME NEW t \in Tag
    PROVE  [NoPacket EXCEPT !.kind = t.kind] = Partial(t, 14)
<1>1. LengthTo(TagBytes(t), 14) = 0 /\ TimeTo(TagBytes(t), 14) = 0
    BY SMT DEF LengthTo, TimeTo
<1>2. [NoPacket EXCEPT !.kind = t.kind] = Fields(t.kind, 0, 0)
    BY DEF NoPacket, Fields
<1> QED
    BY <1>1, <1>2 DEF Partial

LEMMA LengthGrows ==
    ASSUME NEW b, NEW s \in 14..23, \A i \in 2..8 : b[i] \in Nat
    PROVE  /\ LengthTo(b, s) \in Nat
           /\ LengthTo(b, s + 1) =
                LengthTo(b, s)
                + CASE s = 14 -> b[2] * 65536 [] s = 15 -> b[3] * 256 [] s = 16 -> b[4] [] OTHER -> 0
<1>1. b[2] \in Nat /\ b[3] \in Nat /\ b[4] \in Nat
    OBVIOUS
<1> QED
    BY <1>1, SMT DEF LengthTo

LEMMA TimeGrows ==
    ASSUME NEW b, NEW s \in 14..23, \A i \in 2..8 : b[i] \in Nat
    PROVE  /\ TimeTo(b, s) \in Nat
           /\ TimeTo(b, s + 1) =
                TimeTo(b, s)
                + CASE s = 17 -> b[5] * 65536 [] s = 18 -> b[6] * 256 [] s = 19 -> b[7]
                    [] s = 20 -> b[8] * 16777216 [] OTHER -> 0
<1>1. b[5] \in Nat /\ b[6] \in Nat /\ b[7] \in Nat /\ b[8] \in Nat
    OBVIOUS
<1>2. TimeTo(b, s) \in Nat
    BY <1>1, SMT DEF TimeTo
<1>3. CASE s \in 14..17
    BY <1>1, <1>3, SMT DEF TimeTo
<1>4. CASE s = 18
    BY <1>1, <1>4, SMT DEF TimeTo
<1>5. CASE s = 19
    BY <1>1, <1>5, SMT DEF TimeTo
<1>6. CASE s = 20
    BY <1>1, <1>6, SMT DEF TimeTo
<1>7. CASE s \in 21..23
    BY <1>1, <1>7, SMT DEF TimeTo
<1> QED
    BY <1>2, <1>3, <1>4, <1>5, <1>6, <1>7

IsFieldAt(s, f, w) == ByteOf[s - 14 + 1] = <<f, w>>
Grown(p, f, x) == [p EXCEPT ![f] = @ + x]

LEMMA PartialGrows ==
    ASSUME NEW t \in Tag, NEW s \in 14..23, NEW f, NEW w, IsFieldAt(s, f, w)
    PROVE  Grown(Partial(t, s), f, TagBytes(t)[s - 12] * w) = Partial(t, s + 1)
<1> DEFINE b == TagBytes(t)
           kind == t.kind
           l == LengthTo(b, s)
           m == TimeTo(b, s)
<1>1. \A i \in 1..11 : b[i] \in Nat
    <2>1. Len(t.payload) \in Nat /\ b \in Seq(Byte) /\ Len(b) = Len(t.payload) + 15
        BY TagShape
    <2>2. \A i \in 1..11 : i \in 1..Len(b)
        BY <2>1
    <2>3. \A i \in 1..11 : b[i] \in Byte
        BY <2>1, <2>2, ElementOfSeq
    <2>4. \A x \in Byte : x \in Nat
        BY DEF Byte
    <2> QED
        BY <2>3, <2>4
<1>2. b[9] = 0 /\ b[10] = 0 /\ b[11] = 0
    <2>1. Spells(b, t)
        BY TagShape
    <2> QED
        BY <2>1, SMT DEF Spells
<1>3. /\ b[2] \in Nat /\ b[3] \in Nat /\ b[4] \in Nat /\ b[5] \in Nat /\ b[6] \in Nat
      /\ b[7] \in Nat /\ b[8] \in Nat
    BY <1>1
<1>4. Partial(t, s) = Fields(kind, l, m)
    BY DEF Partial
<1>5. Partial(t, s + 1) = Fields(kind, LengthTo(b, s + 1), TimeTo(b, s + 1))
    BY DEF Partial
<1>6. b = TagBytes(t)
    OBVIOUS
<1>7. /\ l \in Nat
      /\ LengthTo(b, s + 1) =
           l + CASE s = 14 -> b[2] * 65536 [] s = 15 -> b[3] * 256 [] s = 16 -> b[4] [] OTHER -> 0
    <2>1. \A i \in 2..8 : b[i] \in Nat
        BY <1>1
    <2> QED
        BY <2>1, LengthGrows
<1>8. /\ m \in Nat
      /\ TimeTo(b, s + 1) =
           m + CASE s = 17 -> b[5] * 65536 [] s = 18 -> b[6] * 256 [] s = 19 -> b[7]
                 [] s = 20 -> b[8] * 16777216 [] OTHER -> 0
    <2>1. \A i \in 2..8 : b[i] \in Nat
        BY <1>1
    <2> QED
        BY <2>1, TimeGrows
<1> HIDE DEF b, kind, l, m
<1>9. /\ \A x : [Fields(kind, l, m) EXCEPT !["Length"] = @ + x] = Fields(kind, l + x, m)
      /\ \A x : [Fields(kind, l, m) EXCEPT !["Timestamp"] = @ + x] = Fields(kind, l, m + x)
      /\ \A x : [Fields(kind, l, m) EXCEPT !["StreamID"] = @ + 0] = Fields(kind, l, m)
    BY SMT DEF Fields
<1> SUFFICES [Fields(kind, l, m) EXCEPT ![f] = @ + b[s - 12] * w]
               = Fields(kind, LengthTo(b, s + 1), TimeTo(b, s + 1))
    BY <1>4, <1>5, <1>6 DEF Grown
<1>13. ByteOf[s - 14 + 1] = <<f, w>>
    BY DEF IsFieldAt
<1>10. CASE s \in 14..16
    <2>1. f = "Length" /\ TimeTo(b, s + 1) = m
        BY <1>8, <1>10, <1>13, SMT DEF ByteOf
    <2>2. LengthTo(b, s + 1) = l + b[s - 12] * w
        BY <1>3, <1>7, <1>10, <1>13, SMT DEF ByteOf
    <2> QED
        BY <1>9, <2>1, <2>2
<1>11. CASE s \in 17..20
    <2>1. f = "Timestamp" /\ LengthTo(b, s + 1) = l
        BY <1>7, <1>11, <1>13, SMT DEF ByteOf
    <2>2. TimeTo(b, s + 1) = m + b[s - 12] * w
        BY <1>3, <1>8, <1>11, <1>13, SMT DEF ByteOf
    <2> QED
        BY <1>9, <2>1, <2>2
<1>12. CASE s \in 21..23
    <2>1. f = "StreamID" /\ LengthTo(b, s + 1) = l /\ TimeTo(b, s + 1) = m
        BY <1>7, <1>8, <1>12, <1>13, SMT DEF ByteOf
    <2>2. b[s - 12] * w = 0
        BY <1>2, <1>12, <1>13, SMT DEF ByteOf
    <2> QED
        BY <1>9, <2>1, <2>2
<1> QED
    BY <1>10, <1>11, <1>12

-----------------------------------------------------------------------------
(* The invariant: what has not been read is the rest of what is being      *)
(* read, and then the bytes of the tags that follow.                       *)

\* What has not been read, how many tags have been delivered, and the next one.
Unread == bytes \o input
Got == Len(delivered)
Coming == tags[Got + 1]

DemuxTypes ==
    /\ tags \in Seq(Tag) /\ input \in Seq(Byte) /\ bytes \in Seq(Byte)
    /\ delivered \in Seq({Packet(t) : t \in Tag})

\* Nothing to read: no stream, or the demuxer has been reset.
Idle == state = 0 /\ tags = <<>> /\ delivered = <<>> /\ Unread = <<>>

\* The bytes of the header; its last four are read as a backpointer.
AtHeader ==
    /\ state \in 0..8 /\ delivered = <<>>
    /\ Unread = SubSeq(FlvHeader, state + 1, Len(FlvHeader)) \o Wire(tags, Got)

\* A backpointer, whatever it says.
AtPointer ==
    /\ state \in 9..12
    /\ \E b \in Seq(Byte) : Len(b) = 13 - state /\ Unread = b \o Wire(tags, Got)

AtTag == state = 13 /\ Unread = Wire(tags, Got)

\* The fields of a tag: the packet has those that have been read.
AtField ==
    /\ state \in 14..23 /\ Got < Len(tags)
    /\ packet = Partial(Coming, state)
    /\ Unread = SubSeq(TagBytes(Coming), state - 12, Len(TagBytes(Coming))) \o Wire(tags, Got + 1)

HasRead(n) ==
    /\ packet = [Packet(Coming) EXCEPT !.Payload = SubSeq(Coming.payload, 1, n)]
    /\ Unread = SubSeq(TagBytes(Coming), 12 + n, Len(TagBytes(Coming))) \o Wire(tags, Got + 1)

\* n bytes of the payload have been read.
AtPayload ==
    /\ state = 24 /\ Got < Len(tags)
    /\ \E n \in 0..Len(Coming.payload) : HasRead(n)

\* Append has panicked on a tag that is too short, and would again.
Broken ==
    /\ state = 24 /\ Got < Len(tags)
    /\ packet = Packet(Coming) /\ TooShort(packet) /\ panicked

OnTrack ==
    /\ DemuxTypes /\ ~erred
    /\ Got <= Len(tags) /\ \A i \in DOMAIN delivered : delivered[i] = Packet(tags[i])
    /\ \/ ~panicked /\ (Idle \/ AtHeader \/ AtPointer \/ AtTag \/ AtField \/ AtPayload)
       \/ Broken

DemuxInv == ~damaged /\ ~misled => OnTrack

LEMMA StateOf ==
    /\ (Idle => state = 0) /\ (AtHeader => state \in 0..8) /\ (AtPointer => state \in 9..12)
    /\ (AtTag => state = 13) /\ (AtField => state \in 14..23) /\ (AtPayload => state = 24)
    /\ (Broken => state = 24)
BY Zenon DEF Idle, AtHeader, AtPointer, AtTag, AtField, AtPayload, Broken

LEMMA DemuxInvInit == DemuxInit => DemuxInv
<1> SUFFICES ASSUME DemuxInit PROVE OnTrack
    BY DEF DemuxInv
<1>1. /\ tags = <<>> /\ input = <<>> /\ bytes = <<>> /\ delivered = <<>> /\ state = 0
      /\ erred = FALSE /\ panicked = FALSE
    BY DEF DemuxInit, sw_f
<1>2. Unread = <<>> /\ Got = 0 /\ Len(tags) = 0
    BY <1>1 DEF Unread, Got
<1>3. DemuxTypes
    BY <1>1 DEF DemuxTypes
<1>4. Idle
    BY <1>1, <1>2 DEF Idle
<1>5. DOMAIN delivered = {}
    BY <1>1
<1> QED
    BY <1>1, <1>2, <1>3, <1>4, <1>5 DEF OnTrack

LEMMA HeaderType == FlvHeader \in Seq(Byte) /\ Len(FlvHeader) = 13
<1>1. \A i \in 0..100 : i \in Byte
    BY DEF Byte
<1> QED
    BY <1>1 DEF FlvHeader

\* What a state says of the tag that is being read.
LEMMA TagAhead ==
    ASSUME DemuxTypes, Got < Len(tags)
    PROVE  /\ Got \in 0..Len(tags) /\ Got + 1 \in 0..Len(tags)
           /\ Coming \in Tag /\ Wire(tags, Got + 1) \in Seq(Byte)
           /\ Wire(tags, Got) = TagBytes(Coming) \o Wire(tags, Got + 1)
           /\ TagBytes(Coming) \in Seq(Byte) /\ Coming.payload \in Seq(Byte)
           /\ Len(Coming.payload) \in Nat /\ Len(TagBytes(Coming)) = Len(Coming.payload) + 15
<1>1. Got \in Nat /\ Len(tags) \in Nat /\ tags \in Seq(Tag)
    BY DEF DemuxTypes, Got
<1>2. Got \in 0..Len(tags) /\ Got + 1 \in 0..Len(tags)
    BY <1>1
<1>3. Coming \in Tag /\ Wire(tags, Got) = TagBytes(Coming) \o Wire(tags, Got + 1)
    BY <1>1, <1>2, WireNext DEF Coming
<1>4. Wire(tags, Got + 1) \in Seq(Byte)
    BY <1>1, <1>2, WireType
<1> QED
    BY <1>2, <1>3, <1>4, TagShape

\* A step that delivers nothing.
LEMMA GoesOn ==
    ASSUME OnTrack, ~panicked, DemuxTypes',
           UNCHANGED <<tags, delivered, erred, panicked>>,
           AtHeader' \/ AtPointer' \/ AtTag' \/ AtField' \/ AtPayload'
    PROVE  OnTrack'
BY DEF OnTrack, Got

LEMMA OpenStep ==
    ASSUME NEW ts \in Streams, Open(ts, FALSE), state = 0
    PROVE  OnTrack'
<1>1. /\ tags' = ts /\ bytes' = <<>> /\ state' = 0 /\ delivered' = <<>>
      /\ erred' = FALSE /\ panicked' = FALSE
      /\ input' = FlvHeader \o FlattenSeq([i \in DOMAIN ts |-> TagBytes(ts[i])])
    BY DEF Open
<1>2. ts \in Seq(Tag)
    BY DemuxAssumption
<1>3. input' = FlvHeader \o Wire(ts, 0)
    BY <1>1, <1>2, WireStarts
<1>4. Wire(ts, 0) \in Seq(Byte)
    <2>1. 0 \in 0..Len(ts)
        BY <1>2
    <2> QED
        BY <1>2, <2>1, WireType
<1>5. input' \in Seq(Byte) /\ Unread' = input'
    <2>1. input' \in Seq(Byte)
        BY <1>3, <1>4, HeaderType, ConcatProperties
    <2> QED
        BY <1>1, <2>1, ConcatEmptySeq DEF Unread
<1>6. Got' = 0
    BY <1>1 DEF Got
<1>7. SubSeq(FlvHeader, 1, Len(FlvHeader)) = FlvHeader
    BY HeaderType, SubSeqBehind, SeqEqual
<1>8. AtHeader'
    <2>1. Unread' = SubSeq(FlvHeader, state' + 1, Len(FlvHeader)) \o Wire(tags', Got')
        BY <1>1, <1>3, <1>5, <1>6, <1>7
    <2> QED
        BY <1>1, <2>1 DEF AtHeader
<1>9. DemuxTypes'
    BY <1>1, <1>2, <1>5 DEF DemuxTypes
<1>10. Got' <= Len(tags') /\ DOMAIN delivered' = {}
    BY <1>1, <1>2, <1>6
<1> QED
    BY <1>1, <1>8, <1>9, <1>10 DEF OnTrack

LEMMA AppendBytesStep ==
    ASSUME OnTrack, NEW n \in 1..Len(input), AppendBytes(n)
    PROVE  OnTrack'
<1>1. /\ bytes = <<>> /\ bytes' = SubSeq(input, 1, n)
      /\ input' = SubSeq(input, n + 1, Len(input))
      /\ UNCHANGED <<tags, state, packet, delivered, erred, panicked>>
    BY DEF AppendBytes
<1>2. DemuxTypes
    BY DEF OnTrack
<1>3. input \in Seq(Byte) /\ Len(input) \in Nat
    BY <1>2 DEF DemuxTypes
<1>4. /\ SubSeq(input, 1, n) \in Seq(Byte) /\ Len(SubSeq(input, 1, n)) = n
      /\ \A i \in 1..n : SubSeq(input, 1, n)[i] = input[i]
    <2>1. \A i \in 1..n : input[i] \in Byte
        BY <1>3, ElementOfSeq
    <2> QED
        BY <1>3, <2>1, SubSeqProperties
<1>5. /\ SubSeq(input, n + 1, Len(input)) \in Seq(Byte)
      /\ Len(SubSeq(input, n + 1, Len(input))) = Len(input) - n
      /\ \A i \in 1..(Len(input) - n) : SubSeq(input, n + 1, Len(input))[i] = input[n + i]
    BY <1>3, SubSeqBehind
<1>6. SubSeq(input, 1, n) \o SubSeq(input, n + 1, Len(input)) = input
    <2> DEFINE u == SubSeq(input, 1, n)
               v == SubSeq(input, n + 1, Len(input))
               l == Len(input)
    <2>1. /\ u \in Seq(Byte) /\ Len(u) = n /\ v \in Seq(Byte) /\ Len(v) = l - n
          /\ \A i \in 1..n : u[i] = input[i]
          /\ \A i \in 1..(l - n) : v[i] = input[n + i]
          /\ l \in Nat /\ n \in 1..l
        BY <1>3, <1>4, <1>5
    <2> HIDE DEF u, v
    <2>2. /\ u \o v \in Seq(Byte) /\ Len(u \o v) = l
          /\ \A i \in 1..l : (u \o v)[i] = IF i <= n THEN u[i] ELSE v[i - n]
        BY <2>1, ConcatProperties
    <2>3. \A i \in 1..l : (u \o v)[i] = input[i]
        <3> SUFFICES ASSUME NEW i \in 1..l PROVE (u \o v)[i] = input[i]
            OBVIOUS
        <3>1. CASE i <= n
            BY <2>1, <2>2, <3>1
        <3>2. CASE ~(i <= n)
            <4>1. i - n \in 1..(l - n) /\ n + (i - n) = i
                BY <2>1, <3>2
            <4> QED
                BY <2>1, <2>2, <3>2, <4>1
        <3> QED
            BY <3>1, <3>2
    <2>4. u \o v = input
        BY <1>3, <2>2, <2>3, SeqEqual
    <2> QED
        BY <2>4 DEF u, v
<1>7. Unread' = Unread
    <2>1. Unread = input
        BY <1>1, <1>3, ConcatEmptySeq DEF Unread
    <2>2. Unread' = input
        BY <1>1, <1>6 DEF Unread
    <2> QED
        BY <2>1, <2>2
<1>8. DemuxTypes'
    BY <1>1, <1>2, <1>4, <1>5 DEF DemuxTypes
<1>9. Got' = Got /\ Coming' = Coming
    BY <1>1 DEF Got, Coming
<1>10. /\ (Idle => Idle') /\ (AtHeader => AtHeader') /\ (AtPointer => AtPointer')
       /\ (AtTag => AtTag') /\ (AtField => AtField') /\ (AtPayload => AtPayload')
       /\ (Broken => Broken')
    <2>1. (Idle => Idle') /\ (AtHeader => AtHeader')
        BY <1>1, <1>7, <1>9 DEF Idle, AtHeader
    <2>2. (AtPointer => AtPointer') /\ (AtTag => AtTag')
        BY <1>1, <1>7, <1>9 DEF AtPointer, AtTag
    <2>3. (AtField => AtField')
        BY <1>1, <1>7, <1>9 DEF AtField
    <2>4. (AtPayload => AtPayload')
        BY <1>1, <1>7, <1>9 DEF AtPayload, HasRead
    <2>5. (Broken => Broken')
        BY <1>1, <1>7, <1>9 DEF Broken
    <2> QED
        BY <2>1, <2>2, <2>3, <2>4, <2>5
<1> QED
    BY <1>1, <1>8, <1>9, <1>10 DEF OnTrack

\* A step that consumes a byte.
LEMMA ConsumeTypes ==
    ASSUME DemuxTypes, bytes # <<>>, NEW p, Consume(p)
    PROVE  /\ DemuxTypes' /\ Got' = Got /\ Coming' = Coming /\ Unread' = Tail(bytes) \o input
           /\ UNCHANGED <<tags, delivered, erred, panicked>>
           /\ state' = state + 1 /\ packet' = p
<1>1. /\ state' = state + 1 /\ bytes' = Tail(bytes) /\ packet' = p
      /\ UNCHANGED <<tags, input, delivered, erred, panicked>>
    BY DEF Consume, Unchanged
<1>2. Tail(bytes) \in Seq(Byte)
    BY HeadTailProperties DEF DemuxTypes
<1> QED
    BY <1>1, <1>2 DEF DemuxTypes, Got, Coming, Unread

LEMMA SignatureStep ==
    ASSUME OnTrack, Signature
    PROVE  OnTrack'
<1>1. DemuxTypes /\ bytes # <<>> /\ state < 3
    BY DEF OnTrack, Signature, sw_version
<1>2. bytes \in Seq(Byte) /\ input \in Seq(Byte)
    BY <1>1 DEF DemuxTypes
<1>3. ~Idle
    <2>1. Unread # <<>>
        BY <1>1, <1>2, ConcatEmptySeq, ConcatProperties, EmptySeq DEF Unread
    <2> QED
        BY <2>1 DEF Idle
<1>4. AtHeader /\ ~panicked
    BY <1>1, <1>3, StateOf DEF OnTrack
<1>5. state \in 0..2 /\ delivered = <<>>
      /\ bytes \o input = SubSeq(FlvHeader, state + 1, Len(FlvHeader)) \o Wire(tags, Got)
    BY <1>1, <1>4 DEF AtHeader, Unread
<1>6. Wire(tags, Got) \in Seq(Byte)
    <2>1. tags \in Seq(Tag) /\ Got = 0
        BY <1>1, <1>5 DEF DemuxTypes, Got
    <2>2. Got \in 0..Len(tags)
        BY <2>1
    <2> QED
        BY <2>1, <2>2, WireType
<1>7. /\ Head(bytes) = FlvHeader[state + 1]
      /\ Ahead(Tail(bytes), input, FlvHeader, state + 1, Wire(tags, Got))
    <2>1. state \in Nat /\ state < Len(FlvHeader)
        BY <1>5, HeaderType
    <2>2. Ahead(bytes, input, FlvHeader, state, Wire(tags, Got))
        BY <1>5 DEF Ahead
    <2> QED
        <3>1. FlvHeader \in Seq(Byte)
            BY HeaderType
        <3> QED
            BY <1>1, <1>2, <1>6, <2>1, <2>2, <3>1, ReadFrom
<1>8. Consume(packet)
    BY <1>7 DEF Signature
<1>9. /\ DemuxTypes' /\ Got' = Got /\ Unread' = Tail(bytes) \o input
      /\ UNCHANGED <<tags, delivered, erred, panicked>> /\ state' = state + 1
    BY <1>1, <1>8, ConsumeTypes
<1>10. AtHeader'
    <2>1. state + 1 = state' /\ state' \in 0..8
        BY <1>5, <1>9
    <2>2. Unread' = SubSeq(FlvHeader, state' + 1, Len(FlvHeader)) \o Wire(tags', Got')
        BY <1>7, <1>9, <2>1 DEF Ahead
    <2> QED
        BY <1>5, <1>9, <2>1, <2>2 DEF AtHeader
<1> QED
    BY <1>4, <1>9, <1>10, GoesOn

\* The rest of the header is read over.
LEMMA HeaderSkips ==
    ASSUME OnTrack, SkipByte, AtHeader, ~panicked
    PROVE  OnTrack'
<1>1. DemuxTypes /\ bytes # <<>> /\ Consume(packet) /\ 3 <= state
    BY DEF OnTrack, SkipByte, sw_version
<1>2. bytes \in Seq(Byte) /\ input \in Seq(Byte)
    BY <1>1 DEF DemuxTypes
<1>5. state \in 3..8 /\ delivered = <<>>
      /\ bytes \o input = SubSeq(FlvHeader, state + 1, Len(FlvHeader)) \o Wire(tags, Got)
    BY <1>1 DEF AtHeader, Unread
<1>6. Wire(tags, Got) \in Seq(Byte)
    <2>1. tags \in Seq(Tag) /\ Got = 0
        BY <1>1, <1>5 DEF DemuxTypes, Got
    <2>2. Got \in 0..Len(tags)
        BY <2>1
    <2> QED
        BY <2>1, <2>2, WireType
<1>7. Ahead(Tail(bytes), input, FlvHeader, state + 1, Wire(tags, Got))
    <2>1. state \in Nat /\ state < Len(FlvHeader)
        BY <1>5, HeaderType
    <2>2. Ahead(bytes, input, FlvHeader, state, Wire(tags, Got))
        BY <1>5 DEF Ahead
    <2> QED
        <3>1. FlvHeader \in Seq(Byte)
            BY HeaderType
        <3> QED
            BY <1>1, <1>2, <1>6, <2>1, <2>2, <3>1, ReadFrom
<1>9. /\ DemuxTypes' /\ Got' = Got /\ Unread' = Tail(bytes) \o input
      /\ UNCHANGED <<tags, delivered, erred, panicked>> /\ state' = state + 1
    BY <1>1, ConsumeTypes
<1>10. CASE state < 8
    <2>1. state + 1 = state' /\ state' \in 0..8
        BY <1>5, <1>9, <1>10
    <2>2. Unread' = SubSeq(FlvHeader, state' + 1, Len(FlvHeader)) \o Wire(tags', Got')
        BY <1>7, <1>9, <2>1 DEF Ahead
    <2>3. AtHeader'
        BY <1>5, <1>9, <2>1, <2>2 DEF AtHeader
    <2> QED
        BY <1>9, <2>3, GoesOn
<1>11. CASE state = 8
    <2> DEFINE b == SubSeq(FlvHeader, 10, Len(FlvHeader))
    <2>1. b \in Seq(Byte) /\ Len(b) = 4
        <3>1. 9 \in 0..Len(FlvHeader) /\ 9 + 1 = 10 /\ Len(FlvHeader) - 9 = 4
            BY HeaderType
        <3> QED
            BY <3>1, HeaderType, SubSeqBehind
    <2>2. state' = 9 /\ state + 1 + 1 = 10
        BY <1>9, <1>11
    <2>3. Unread' = b \o Wire(tags', Got')
        BY <1>7, <1>9, <2>2 DEF Ahead
    <2> HIDE DEF b
    <2>4. AtPointer'
        <3>1. Len(b) = 13 - state' /\ state' \in 9..12
            BY <2>1, <2>2
        <3> QED
            BY <2>1, <2>3, <3>1 DEF AtPointer
    <2> QED
        BY <1>9, <2>4, GoesOn
<1> QED
    BY <1>5, <1>10, <1>11

\* So is the backpointer of a tag.
LEMMA PointerSkips ==
    ASSUME OnTrack, SkipByte, AtPointer, ~panicked
    PROVE  OnTrack'
<1>1. DemuxTypes /\ bytes # <<>> /\ Consume(packet) /\ Got <= Len(tags)
    BY DEF OnTrack, SkipByte
<1>2. bytes \in Seq(Byte) /\ input \in Seq(Byte)
    BY <1>1 DEF DemuxTypes
<1>3. PICK b \in Seq(Byte) : Len(b) = 13 - state /\ Unread = b \o Wire(tags, Got)
    BY DEF AtPointer
<1>4. state \in 9..12
    BY DEF AtPointer
<1>5. Wire(tags, Got) \in Seq(Byte)
    <2>1. tags \in Seq(Tag) /\ Got \in Nat
        BY <1>1 DEF DemuxTypes, Got
    <2>2. Got \in 0..Len(tags)
        BY <1>1, <2>1
    <2> QED
        BY <2>1, <2>2, WireType
<1>6. b # <<>>
    BY <1>3, <1>4
<1>7. Tail(bytes) \o input = Tail(b) \o Wire(tags, Got)
    <2>1. Tail(bytes \o input) = Tail(bytes) \o input
        BY <1>1, <1>2, HeadOfConcat
    <2>2. Tail(b \o Wire(tags, Got)) = Tail(b) \o Wire(tags, Got)
        BY <1>5, <1>6, HeadOfConcat
    <2> QED
        BY <1>3, <2>1, <2>2 DEF Unread
<1>8. Tail(b) \in Seq(Byte) /\ Len(Tail(b)) = 12 - state
    BY <1>3, <1>4, <1>6, HeadTailProperties
<1>9. /\ DemuxTypes' /\ Got' = Got /\ Unread' = Tail(bytes) \o input
      /\ UNCHANGED <<tags, delivered, erred, panicked>> /\ state' = state + 1
    BY <1>1, ConsumeTypes
<1>10. CASE state < 12
    <2>1. Len(Tail(b)) = 13 - state' /\ state' \in 9..12
        BY <1>4, <1>8, <1>9, <1>10
    <2>2. Unread' = Tail(b) \o Wire(tags', Got')
        BY <1>7, <1>9
    <2>3. AtPointer'
        BY <1>8, <2>1, <2>2 DEF AtPointer
    <2> QED
        BY <1>9, <2>3, GoesOn
<1>11. CASE state = 12
    <2>3. Len(Tail(b)) = 0
        BY <1>8, <1>11
    <2>5. Tail(b) = <<>>
        BY <1>8, <2>3, EmptySeq
    <2>1. Tail(b) = <<>> /\ state' = 13
        BY <1>9, <1>11, <2>5
    <2>2. Unread' = Wire(tags', Got')
        BY <1>5, <1>7, <1>9, <2>1, ConcatEmptySeq
    <2>4. AtTag'
        BY <2>1, <2>2 DEF AtTag
    <2> QED
        BY <1>9, <2>4, GoesOn
<1> QED
    BY <1>4, <1>10, <1>11

LEMMA SkipByteStep ==
    ASSUME OnTrack, SkipByte
    PROVE  OnTrack'
<1>1. 3 <= state /\ state < 13
    BY DEF SkipByte, sw_version, sw_type
<1>2. (AtHeader \/ AtPointer) /\ ~panicked
    BY <1>1, StateOf DEF OnTrack
<1> QED
    BY <1>2, HeaderSkips, PointerSkips

LEMMA TagTypeStep ==
    ASSUME OnTrack, TagType
    PROVE  OnTrack'
<1>1. DemuxTypes /\ bytes # <<>> /\ state = 13 /\ Got <= Len(tags)
    BY DEF OnTrack, TagType, sw_type
<1>2. AtTag /\ ~panicked
    BY <1>1, StateOf DEF OnTrack
<1>3. bytes \in Seq(Byte) /\ input \in Seq(Byte) /\ tags \in Seq(Tag) /\ Got \in Nat
    BY <1>1 DEF DemuxTypes, Got
<1>4. bytes \o input = Wire(tags, Got)
    BY <1>2 DEF AtTag, Unread
<1>5. Got < Len(tags)
    <2>1. ASSUME Got = Len(tags) PROVE FALSE
        <3>1. bytes \o input = <<>>
            BY <1>3, <1>4, <2>1, WireEnds
        <3>2. Len(bytes \o input) = Len(bytes) + Len(input)
            BY <1>3, ConcatProperties
        <3>3. Len(bytes) \in Nat \ {0} /\ Len(input) \in Nat
            BY <1>1, <1>3, EmptySeq, LenProperties
        <3> QED
            BY <3>1, <3>2, <3>3
    <2>2. Len(tags) \in Nat
        BY <1>3
    <2> QED
        BY <1>1, <1>3, <2>1, <2>2
<1> DEFINE b == TagBytes(Coming)
           w == Wire(tags, Got + 1)
<1>6. /\ Coming \in Tag /\ b \in Seq(Byte) /\ w \in Seq(Byte) /\ Wire(tags, Got) = b \o w
      /\ Len(b) = Len(Coming.payload) + 15 /\ Len(Coming.payload) \in Nat
    BY <1>1, <1>5, TagAhead
<1>7. b[1] = Coming.kind
    <2>1. Spells(b, Coming)
        BY <1>6, TagShape
    <2> QED
        BY <2>1, SMT DEF Spells
<1> HIDE DEF b, w
<1>8. Ahead(bytes, input, b, 0, w)
    <2>1. SubSeq(b, 1, Len(b)) = b
        BY <1>6, SubSeqBehind, SeqEqual
    <2>2. 0 + 1 = 1
        OBVIOUS
    <2> QED
        BY <1>4, <1>6, <2>1, <2>2 DEF Ahead
<1>9. Head(bytes) = b[0 + 1] /\ Ahead(Tail(bytes), input, b, 0 + 1, w)
    <2>1. 0 \in Nat /\ 0 < Len(b)
        BY <1>6
    <2> QED
        BY <1>1, <1>3, <1>6, <1>8, <2>1, ReadFrom
<1>10. Head(bytes) = Coming.kind
    BY <1>7, <1>9
<1>11. Consume([NoPacket EXCEPT !.kind = Head(bytes)])
    <2>1. Coming.kind \in {KindAudio, KindVideo, KindScript}
        BY <1>6 DEF Tag
    <2> QED
        BY <1>10, <2>1 DEF TagType
<1>12. /\ DemuxTypes' /\ Got' = Got /\ Coming' = Coming /\ Unread' = Tail(bytes) \o input
       /\ UNCHANGED <<tags, delivered, erred, panicked>> /\ state' = state + 1
       /\ packet' = [NoPacket EXCEPT !.kind = Head(bytes)]
    BY <1>1, <1>11, ConsumeTypes
<1>13. packet' = Partial(Coming, 14) /\ state' = 14
    BY <1>1, <1>6, <1>10, <1>12, PartialStarts
<1>14. Unread' = SubSeq(b, state' - 12, Len(b)) \o w
    <2>1. state' - 12 = 0 + 1 + 1
        BY <1>13
    <2> QED
        BY <1>9, <1>12, <2>1 DEF Ahead
<1>15. AtField'
    <2>1. Got' < Len(tags') /\ state' \in 14..23 /\ packet' = Partial(Coming', state')
        BY <1>5, <1>12, <1>13
    <2>2. Unread' = SubSeq(TagBytes(Coming'), state' - 12, Len(TagBytes(Coming'))) \o Wire(tags', Got' + 1)
        BY <1>12, <1>14 DEF b, w
    <2> QED
        BY <2>1, <2>2 DEF AtField
<1> QED
    BY <1>2, <1>12, <1>15, GoesOn

LEMMA FieldsArePairs == \A i \in 1..10 : ByteOf[i] = <<ByteOf[i][1], ByteOf[i][2]>>
BY SMT DEF ByteOf

LEMMA TagFieldStep ==
    ASSUME OnTrack, TagField
    PROVE  OnTrack'
<1>1. DemuxTypes /\ bytes # <<>> /\ 14 <= state /\ state <= 23
    BY DEF OnTrack, TagField, sw_length0, sw_streamid2
<1>2. AtField /\ ~panicked
    BY <1>1, StateOf DEF OnTrack
<1>3. bytes \in Seq(Byte) /\ input \in Seq(Byte)
    BY <1>1 DEF DemuxTypes
<1> DEFINE b == TagBytes(Coming)
           w == Wire(tags, Got + 1)
           f == ByteOf[state - 14 + 1]
<1>4. /\ state \in 14..23 /\ Got < Len(tags) /\ packet = Partial(Coming, state)
      /\ bytes \o input = SubSeq(b, state - 12, Len(b)) \o w
    BY <1>2 DEF AtField, Unread
<1>5. /\ Coming \in Tag /\ b \in Seq(Byte) /\ w \in Seq(Byte)
      /\ Len(b) = Len(Coming.payload) + 15 /\ Len(Coming.payload) \in Nat
      /\ Coming.payload \in Seq(Byte)
    BY <1>1, <1>4, TagAhead
<1>6. f = <<f[1], f[2]>>
    <2>1. state - 14 + 1 \in 1..10
        BY <1>4
    <2> QED
        BY <2>1, FieldsArePairs
<1>7. Consume([packet EXCEPT ![f[1]] = @ + Head(bytes) * f[2]])
    BY DEF TagField, sw_length0
<1>8. b = TagBytes(Coming) /\ w = Wire(tags, Got + 1) /\ f = ByteOf[state - 14 + 1]
    OBVIOUS
<1> HIDE DEF b, w, f
<1>9. Head(bytes) = b[state - 12] /\ Ahead(Tail(bytes), input, b, state - 12, w)
    <2>1. state - 13 \in Nat /\ state - 13 < Len(b) /\ state - 13 + 1 = state - 12
        BY <1>4, <1>5
    <2>2. Ahead(bytes, input, b, state - 13, w)
        BY <1>4, <2>1 DEF Ahead
    <2>3. Head(bytes) = b[state - 13 + 1] /\ Ahead(Tail(bytes), input, b, state - 13 + 1, w)
        BY <1>1, <1>3, <1>5, <2>1, <2>2, ReadFrom
    <2> QED
        BY <2>1, <2>3
<1>10. /\ DemuxTypes' /\ Got' = Got /\ Coming' = Coming /\ Unread' = Tail(bytes) \o input
       /\ UNCHANGED <<tags, delivered, erred, panicked>> /\ state' = state + 1
       /\ packet' = [packet EXCEPT ![f[1]] = @ + Head(bytes) * f[2]]
    BY <1>1, <1>7, ConsumeTypes
<1>11. packet' = Partial(Coming, state + 1)
    <2>1. IsFieldAt(state, f[1], f[2])
        BY <1>6, <1>8 DEF IsFieldAt
    <2>2. Grown(Partial(Coming, state), f[1], TagBytes(Coming)[state - 12] * f[2])
            = Partial(Coming, state + 1)
        BY <1>4, <1>5, <2>1, PartialGrows
    <2> QED
        BY <1>4, <1>8, <1>9, <1>10, <2>2 DEF Grown
<1>12. Unread' = SubSeq(b, state - 12 + 1, Len(b)) \o w
    BY <1>9, <1>10 DEF Ahead
<1>13. CASE state < 23
    <2>1. state' \in 14..23 /\ state - 12 + 1 = state' - 12
        BY <1>4, <1>10, <1>13
    <2>2. Got' < Len(tags') /\ packet' = Partial(Coming', state')
        BY <1>4, <1>10, <1>11
    <2>3. Unread' = SubSeq(TagBytes(Coming'), state' - 12, Len(TagBytes(Coming'))) \o Wire(tags', Got' + 1)
        BY <1>8, <1>10, <1>12, <2>1
    <2>4. AtField'
        BY <2>1, <2>2, <2>3 DEF AtField
    <2> QED
        BY <1>2, <1>10, <2>4, GoesOn
<1>14. CASE state = 23
    <2>1. state' = 24 /\ state - 12 + 1 = 12 + 0 /\ state + 1 = 24
        BY <1>10, <1>14
    <2>2. SubSeq(Coming.payload, 1, 0) = <<>>
        BY <1>5, SubSeqProperties, EmptySeq
    <2>3. packet' = [Packet(Coming) EXCEPT !.Payload = SubSeq(Coming.payload, 1, 0)]
        BY <1>5, <1>11, <2>1, <2>2, PartialEnds
    <2>4. Unread' = SubSeq(b, 12 + 0, Len(b)) \o w
        BY <1>12, <2>1
    <2>5. 0 \in 0..Len(Coming.payload)
        BY <1>5
    <2>6. AtPayload'
        <3>1. Got' < Len(tags') /\ 0 \in 0..Len(Coming'.payload)
            BY <1>4, <1>10, <2>5
        <3>2. /\ packet' = [Packet(Coming') EXCEPT !.Payload = SubSeq(Coming'.payload, 1, 0)]
              /\ Unread' = SubSeq(TagBytes(Coming'), 12 + 0, Len(TagBytes(Coming'))) \o Wire(tags', Got' + 1)
            BY <1>8, <1>10, <2>3, <2>4
        <3> QED
            BY <2>1, <3>1, <3>2 DEF AtPayload, HasRead
    <2> QED
        BY <1>2, <1>10, <2>6, GoesOn
<1> QED
    BY <1>4, <1>13, <1>14

\* A part of p and the next bytes of it are a longer part of it.
Continues(u, p, n, k) ==
    n + k <= Len(p) /\ k <= Len(u) /\ \A i \in 1..k : u[i] = p[n + i]

LEMMA PartGrows ==
    ASSUME NEW S, NEW p \in Seq(S), NEW u \in Seq(S), NEW n \in Nat, NEW k \in Nat,
           Continues(u, p, n, k)
    PROVE  SubSeq(p, 1, n) \o SubSeq(u, 1, k) = SubSeq(p, 1, n + k)
<1> DEFINE q == SubSeq(p, 1, n)
           r == SubSeq(u, 1, k)
           l == SubSeq(p, 1, n + k)
<1>0. n + k <= Len(p) /\ k <= Len(u) /\ \A i \in 1..k : u[i] = p[n + i]
    BY DEF Continues
<1>1. q \in Seq(S) /\ Len(q) = n /\ \A i \in 1..n : q[i] = p[i]
    <2>1. \A i \in 1..n : p[i] \in S
        <3>1. \A i \in 1..n : i \in 1..Len(p)
            BY <1>0
        <3> QED
            BY <3>1, ElementOfSeq
    <2> QED
        BY <2>1, SubSeqProperties
<1>2. r \in Seq(S) /\ Len(r) = k /\ \A i \in 1..k : r[i] = u[i]
    <2>1. \A i \in 1..k : u[i] \in S
        <3>1. \A i \in 1..k : i \in 1..Len(u)
            BY <1>0
        <3> QED
            BY <3>1, ElementOfSeq
    <2> QED
        BY <2>1, SubSeqProperties
<1>3. l \in Seq(S) /\ Len(l) = n + k /\ \A i \in 1..(n + k) : l[i] = p[i]
    <2>1. n + k \in Nat /\ \A i \in 1..(n + k) : p[i] \in S
        <3>1. \A i \in 1..(n + k) : i \in 1..Len(p)
            BY <1>0
        <3> QED
            BY <3>1, ElementOfSeq
    <2> QED
        BY <2>1, SubSeqProperties
<1> HIDE DEF q, r, l
<1>4. /\ q \o r \in Seq(S) /\ Len(q \o r) = n + k
      /\ \A i \in 1..(n + k) : (q \o r)[i] = IF i <= n THEN q[i] ELSE r[i - n]
    BY <1>1, <1>2, ConcatProperties
<1>5. ASSUME NEW i \in 1..(n + k) PROVE (q \o r)[i] = l[i]
    <2>1. CASE i <= n
        <3>1. i \in 1..n
            BY <2>1
        <3> QED
            BY <1>1, <1>3, <1>4, <2>1, <3>1
    <2>2. CASE ~(i <= n)
        <3>1. i - n \in 1..k /\ n + (i - n) = i
            BY <2>2
        <3>2. u[i - n] = p[n + (i - n)]
            BY <1>0, <3>1
        <3> QED
            BY <1>2, <1>3, <1>4, <2>2, <3>1, <3>2
    <2> QED
        BY <2>1, <2>2
<1>6. q \o r = l
    BY <1>3, <1>4, <1>5, SeqEqual
<1> QED
    BY <1>6 DEF q, r, l

\* What is behind the k-th of what is behind the n-th.
LEMMA BehindBehind ==
    ASSUME NEW S, NEW s \in Seq(S), NEW n \in Nat, NEW k \in Nat, n + k <= Len(s)
    PROVE  LET u == SubSeq(s, n + 1, Len(s))
           IN  SubSeq(u, k + 1, Len(u)) = SubSeq(s, n + k + 1, Len(s))
<1> DEFINE u == SubSeq(s, n + 1, Len(s))
           v == SubSeq(u, k + 1, Len(u))
           w == SubSeq(s, n + k + 1, Len(s))
           l == Len(s)
<1>1. l \in Nat /\ n \in 0..l /\ n + k \in 0..l
    OBVIOUS
<1>2. u \in Seq(S) /\ Len(u) = l - n /\ \A i \in 1..(l - n) : u[i] = s[n + i]
    BY <1>1, SubSeqBehind
<1>3. w \in Seq(S) /\ Len(w) = l - (n + k) /\ \A i \in 1..(l - (n + k)) : w[i] = s[n + k + i]
    BY <1>1, SubSeqBehind
<1> HIDE DEF u
<1>4. v \in Seq(S) /\ Len(v) = Len(u) - k /\ \A i \in 1..(Len(u) - k) : v[i] = u[k + i]
    <2>1. k \in 0..Len(u)
        BY <1>1, <1>2
    <2> QED
        BY <1>2, <2>1, SubSeqBehind
<1> HIDE DEF v, w, l
<1>5. ASSUME NEW i \in 1..(l - (n + k)) PROVE v[i] = w[i]
    <2>1. i \in 1..(Len(u) - k) /\ k + i \in 1..(l - n) /\ n + (k + i) = n + k + i
        BY <1>1, <1>2
    <2> QED
        BY <1>2, <1>3, <1>4, <2>1
<1>6. Len(v) = l - (n + k)
    BY <1>1, <1>2, <1>4
<1>7. v = w
    BY <1>3, <1>4, <1>5, <1>6, SeqEqual
<1> QED
    BY <1>7 DEF u, v, w

\* Reading k bytes of the payload when n of them have been read.
LEMMA PayloadReads ==
    ASSUME DemuxTypes, Got < Len(tags), NEW n \in 0..Len(Coming.payload), HasRead(n),
           NEW k \in 0..Len(bytes), n + k <= Len(Coming.payload)
    PROVE  /\ [packet EXCEPT !.Payload = @ \o SubSeq(bytes, 1, k)]
                = [Packet(Coming) EXCEPT !.Payload = SubSeq(Coming.payload, 1, n + k)]
           /\ Piece(k) \in Seq(Byte)
           /\ Piece(k) \o input
                = SubSeq(TagBytes(Coming), 12 + (n + k), Len(TagBytes(Coming))) \o Wire(tags, Got + 1)
<1> DEFINE b == TagBytes(Coming)
           w == Wire(tags, Got + 1)
           p == Coming.payload
           u == SubSeq(b, 11 + n + 1, Len(b))
<1>1. /\ Coming \in Tag /\ b \in Seq(Byte) /\ w \in Seq(Byte) /\ p \in Seq(Byte)
      /\ Len(b) = Len(p) + 15 /\ Len(p) \in Nat
    BY TagAhead
<1>2. bytes \in Seq(Byte) /\ input \in Seq(Byte) /\ Len(bytes) \in Nat
    BY DEF DemuxTypes
<1>3. \A i \in 1..Len(p) : b[11 + i] = p[i]
    <2>1. Spells(b, Coming)
        BY <1>1, TagShape
    <2> QED
        BY <2>1, SMT DEF Spells
<1>4. bytes \o input = u \o w
    <2>1. 12 + n = 11 + n + 1
        OBVIOUS
    <2> QED
        BY <2>1 DEF HasRead, Unread
<1>5. packet.Payload = SubSeq(p, 1, n)
    BY DEF HasRead, Packet
<1>6. /\ [packet EXCEPT !.Payload = @ \o SubSeq(bytes, 1, k)]
           = [Packet(Coming) EXCEPT !.Payload = SubSeq(p, 1, n) \o SubSeq(bytes, 1, k)]
    BY <1>5 DEF HasRead, Packet
<1>7. p = Coming.payload /\ b = TagBytes(Coming) /\ w = Wire(tags, Got + 1)
    OBVIOUS
<1>16. n \in Nat /\ k \in Nat /\ n <= Len(p) /\ n + k <= Len(p)
    BY <1>1, <1>2
<1> HIDE DEF b, w, p
<1>8. /\ u \in Seq(Byte) /\ Len(u) = Len(p) + 4 - n
      /\ \A i \in 1..(Len(p) + 4 - n) : u[i] = b[11 + n + i]
    <2>1. 11 + n \in 0..Len(b) /\ Len(b) - (11 + n) = Len(p) + 4 - n
        BY <1>1, <1>16
    <2> QED
        BY <1>1, <2>1, SubSeqBehind
<1>9. SubSeq(u, k + 1, Len(u)) = SubSeq(b, 11 + n + k + 1, Len(b))
    <2>1. 11 + n \in Nat /\ k \in Nat /\ 11 + n + k <= Len(b)
        BY <1>1, <1>16
    <2> QED
        BY <1>1, <2>1, BehindBehind
<1> HIDE DEF u
<1>10. /\ SubSeq(bytes \o input, 1, k) = SubSeq(bytes, 1, k)
       /\ SubSeq(bytes \o input, k + 1, Len(bytes \o input)) = Piece(k) \o input
    BY <1>2, CutConcat DEF Piece
<1>11. /\ SubSeq(u \o w, 1, k) = SubSeq(u, 1, k)
       /\ SubSeq(u \o w, k + 1, Len(u \o w)) = SubSeq(u, k + 1, Len(u)) \o w
    <2>1. k \in 0..Len(u)
        BY <1>1, <1>8, <1>16
    <2> QED
        BY <1>1, <1>8, <2>1, CutConcat
<1>12. SubSeq(bytes, 1, k) = SubSeq(u, 1, k) /\ Piece(k) \o input = SubSeq(u, k + 1, Len(u)) \o w
    BY <1>4, <1>10, <1>11
<1>13. SubSeq(p, 1, n) \o SubSeq(u, 1, k) = SubSeq(p, 1, n + k)
    <2>1. n \in Nat /\ k \in Nat /\ n + k <= Len(p) /\ k <= Len(u)
        BY <1>1, <1>8, <1>16
    <2>2. \A i \in 1..k : u[i] = p[n + i]
        <3> SUFFICES ASSUME NEW i \in 1..k PROVE u[i] = p[n + i]
            OBVIOUS
        <3>1. i \in 1..(Len(p) + 4 - n) /\ n + i \in 1..Len(p) /\ 11 + n + i = 11 + (n + i)
            BY <1>1, <2>1
        <3> QED
            BY <1>3, <1>8, <3>1
    <2>3. Continues(u, p, n, k)
        BY <2>1, <2>2 DEF Continues
    <2> QED
        BY <1>1, <1>8, <2>1, <2>3, PartGrows
<1>14. Piece(k) \in Seq(Byte)
    BY <1>2, SubSeqBehind DEF Piece
<1>15. 11 + n + k + 1 = 12 + (n + k)
    BY <1>2
<1> QED
    BY <1>6, <1>7, <1>9, <1>12, <1>13, <1>14, <1>15

LEMMA PayloadStep ==
    ASSUME OnTrack, AtPayload, ~panicked, Payload
    PROVE  OnTrack'
<1>1. DemuxTypes /\ ~erred /\ state = 24 /\ Got < Len(tags)
    BY DEF OnTrack, AtPayload
<1> DEFINE b == TagBytes(Coming)
           w == Wire(tags, Got + 1)
           t == Coming
           l == Len(t.payload)
<1>2. PICK n \in 0..l : HasRead(n)
    BY DEF AtPayload
<1>3. /\ t \in Tag /\ t.payload \in Seq(Byte) /\ l \in Nat /\ b \in Seq(Byte) /\ w \in Seq(Byte)
      /\ Len(b) = l + 15
    BY <1>1, TagAhead
<1>4. bytes # <<>> /\ UNCHANGED <<tags, input>> /\ Len(bytes) \in Nat
    BY <1>1 DEF Payload, Unchanged, DemuxTypes
<1> DEFINE left == packet.Length - Len(packet.Payload)
           k == IF left < Len(bytes) THEN left ELSE Len(bytes)
           p == [packet EXCEPT !.Payload = @ \o SubSeq(bytes, 1, k)]
<1>5. left = l - n /\ n \in Nat /\ n <= l
    <2>1. packet.Length = l /\ packet.Payload = SubSeq(t.payload, 1, n)
        BY <1>2 DEF HasRead, Packet
    <2>2. Len(SubSeq(t.payload, 1, n)) = n
        <3>1. \A i \in 1..n : t.payload[i] \in Byte
            <4>1. \A i \in 1..n : i \in 1..Len(t.payload)
                BY <1>3
            <4> QED
                BY <1>3, <4>1, ElementOfSeq
        <3> QED
            BY <3>1, SubSeqProperties
    <2>3. l \in Nat /\ n \in 0..l
        BY <1>3
    <2>4. left = l - n
        BY <2>1, <2>2
    <2> HIDE DEF left, l
    <2> QED
        BY <2>3, <2>4
<1>6. k \in 0..Len(bytes) /\ n + k <= l /\ k \in Nat /\ k <= left
    <2> HIDE DEF left
    <2> QED
        BY <1>3, <1>4, <1>5
<1>7. \/ k < left /\ packet' = p /\ bytes' = Piece(k)
         /\ UNCHANGED <<state, delivered, erred, panicked>>
      \/ k = left /\ TooShort(p) /\ panicked' = TRUE /\ packet' = p /\ bytes' = <<>>
         /\ UNCHANGED <<state, delivered, erred>>
      \/ /\ k = left /\ ~TooShort(p)
         /\ delivered' = Append(delivered, p) /\ bytes' = Piece(k) /\ state' = 9
         /\ UNCHANGED <<erred, panicked>>
    BY DEF Payload, sw_backpointer0
<1> HIDE DEF left, k, b, w, t, l
<1>8. /\ [packet EXCEPT !.Payload = @ \o SubSeq(bytes, 1, k)]
           = [Packet(t) EXCEPT !.Payload = SubSeq(t.payload, 1, n + k)]
      /\ Piece(k) \in Seq(Byte)
      /\ Piece(k) \o input = SubSeq(b, 12 + (n + k), Len(b)) \o w
    BY <1>1, <1>2, <1>6, PayloadReads DEF b, w, t, l
<1>9. p = [Packet(t) EXCEPT !.Payload = SubSeq(t.payload, 1, n + k)]
    BY <1>8
<1> HIDE DEF p
<1>10. n + k = l => p = Packet(t)
    <2>1. SubSeq(t.payload, 1, Len(t.payload)) = t.payload
        BY <1>3, SubSeqBehind, SeqEqual
    <2>2. [Packet(t) EXCEPT !.Payload = t.payload] = Packet(t)
        BY DEF Packet
    <2> QED
        BY <1>9, <2>1, <2>2 DEF l
<1>11. CASE /\ k < left /\ packet' = p /\ bytes' = Piece(k)
            /\ UNCHANGED <<state, delivered, erred, panicked>>
    <2>1. DemuxTypes'
        BY <1>1, <1>4, <1>8, <1>11 DEF DemuxTypes
    <2>2. Got' = Got /\ Coming' = t /\ tags' = tags /\ state' = 24
        BY <1>1, <1>4, <1>11 DEF Got, Coming, t
    <2>3. Unread' = SubSeq(b, 12 + (n + k), Len(b)) \o w
        BY <1>4, <1>8, <1>11 DEF Unread
    <2>4. n + k \in 0..l
        BY <1>3, <1>5, <1>6
    <2>5. AtPayload'
        <3>1. /\ packet' = [Packet(Coming') EXCEPT !.Payload = SubSeq(Coming'.payload, 1, n + k)]
              /\ Unread' = SubSeq(TagBytes(Coming'), 12 + (n + k), Len(TagBytes(Coming')))
                         \o Wire(tags', Got' + 1)
            BY <1>9, <1>11, <2>2, <2>3 DEF b, w, t
        <3>2. n + k \in 0..Len(Coming'.payload) /\ Got' < Len(tags') /\ state' = 24
            BY <1>1, <2>2, <2>4 DEF l
        <3> QED
            BY <3>1, <3>2 DEF AtPayload, HasRead
    <2> QED
        BY <1>4, <1>11, <2>1, <2>5, GoesOn
<1>12. CASE /\ k = left /\ TooShort(p) /\ panicked' = TRUE /\ packet' = p /\ bytes' = <<>>
            /\ UNCHANGED <<state, delivered, erred>>
    <2>1. DemuxTypes'
        BY <1>1, <1>4, <1>12 DEF DemuxTypes
    <2>2. Got' = Got /\ Coming' = t /\ tags' = tags /\ state' = 24
        BY <1>1, <1>4, <1>12 DEF Got, Coming, t
    <2>3. p = Packet(t)
        BY <1>3, <1>5, <1>6, <1>10, <1>12
    <2>4. Broken'
        BY <1>1, <1>12, <2>2, <2>3 DEF Broken
    <2> QED
        BY <1>4, <1>12, <2>1, <2>2, <2>4 DEF OnTrack
<1>13. CASE /\ k = left /\ ~TooShort(p)
            /\ delivered' = Append(delivered, p) /\ bytes' = Piece(k) /\ state' = 9
            /\ UNCHANGED <<erred, panicked>>
    <2>1. n + k = l /\ p = Packet(t)
        BY <1>3, <1>5, <1>6, <1>10, <1>13
    <2>2. /\ delivered \in Seq({Packet(x) : x \in Tag}) /\ p \in {Packet(x) : x \in Tag}
          /\ Got \in Nat /\ Len(tags) \in Nat
        BY <1>1, <1>3, <2>1 DEF DemuxTypes, Got
    <2>3. /\ delivered' \in Seq({Packet(x) : x \in Tag}) /\ Len(delivered') = Got + 1
          /\ \A i \in 1..Got : delivered'[i] = delivered[i]
          /\ delivered'[Got + 1] = p
        BY <1>13, <2>2, AppendProperties DEF Got
    <2>4. DemuxTypes'
        BY <1>1, <1>4, <1>8, <1>13, <2>3 DEF DemuxTypes
    <2>5. Got' = Got + 1 /\ tags' = tags /\ Got' <= Len(tags')
        BY <1>1, <1>4, <2>2, <2>3 DEF Got
    <2>6. \A i \in DOMAIN delivered' : delivered'[i] = Packet(tags'[i])
        <3> SUFFICES ASSUME NEW i \in DOMAIN delivered' PROVE delivered'[i] = Packet(tags[i])
            BY <2>5
        <3>1. i \in 1..(Got + 1)
            BY <2>3
        <3>2. CASE i = Got + 1
            BY <2>1, <2>3, <3>2 DEF t, Coming
        <3>3. CASE i # Got + 1
            <4>1. i \in 1..Got /\ DOMAIN delivered = 1..Got
                BY <2>2, <3>1, <3>3 DEF Got
            <4> QED
                BY <2>3, <4>1 DEF OnTrack
        <3> QED
            BY <3>2, <3>3
    <2> DEFINE v == SubSeq(b, 12 + l, Len(b))
    <2>7. v \in Seq(Byte) /\ Len(v) = 4
        <3>1. 11 + l \in 0..Len(b) /\ 11 + l + 1 = 12 + l /\ Len(b) - (11 + l) = 4
            BY <1>3
        <3> QED
            BY <1>3, <3>1, SubSeqBehind
    <2>8. Unread' = v \o Wire(tags', Got')
        BY <1>4, <1>8, <1>13, <2>1, <2>5 DEF Unread, w
    <2> HIDE DEF v
    <2>9. AtPointer'
        <3>1. state' \in 9..12 /\ Len(v) = 13 - state'
            BY <1>13, <2>7
        <3> QED
            BY <2>7, <2>8, <3>1 DEF AtPointer
    <2> QED
        BY <1>1, <1>13, <2>4, <2>5, <2>6, <2>9 DEF OnTrack
<1> QED
    BY <1>7, <1>11, <1>12, <1>13

\* After a panic the demuxer panics again.
LEMMA BrokenStep ==
    ASSUME OnTrack, Broken, Payload
    PROVE  OnTrack'
<1>1. /\ DemuxTypes /\ state = 24 /\ Got < Len(tags) /\ packet = Packet(Coming)
      /\ TooShort(packet)
    BY DEF OnTrack, Broken
<1>2. Coming \in Tag /\ Coming.payload \in Seq(Byte) /\ Len(Coming.payload) \in Nat
    BY <1>1, TagAhead
<1>3. packet.Length - Len(packet.Payload) = 0
    BY <1>1, <1>2 DEF Packet
<1>4. bytes # <<>> /\ Len(bytes) \in Nat \ {0}
    BY <1>1, EmptySeq, LenProperties DEF Payload, DemuxTypes
<1>5. packet.Payload \o SubSeq(bytes, 1, 0) = packet.Payload
    <2>1. SubSeq(bytes, 1, 0) = <<>>
        BY <1>1, SubSeqProperties, EmptySeq DEF DemuxTypes
    <2>2. packet.Payload = Coming.payload
        BY <1>1 DEF Packet
    <2> QED
        BY <1>2, <2>1, <2>2, ConcatEmptySeq
<1>6. [packet EXCEPT !.Payload = @ \o SubSeq(bytes, 1, 0)] = packet
    BY <1>1, <1>5 DEF Packet
<1>7. /\ packet' = packet /\ bytes' = <<>> /\ panicked' = TRUE
      /\ UNCHANGED <<tags, input, state, delivered, erred>>
    <2> DEFINE left == packet.Length - Len(packet.Payload)
               n == IF left < Len(bytes) THEN left ELSE Len(bytes)
               p == [packet EXCEPT !.Payload = @ \o SubSeq(bytes, 1, n)]
    <2>1. \/ n < left
          \/ /\ n = left /\ TooShort(p) /\ panicked' = TRUE /\ packet' = p /\ bytes' = <<>>
             /\ UNCHANGED <<state, delivered, erred>>
          \/ n = left /\ ~TooShort(p)
        BY DEF Payload
    <2>2. left = 0 /\ n = 0
        BY <1>3, <1>4
    <2>3. p = packet
        BY <1>6, <2>2
    <2> HIDE DEF left, n, p
    <2> QED
        BY <1>1, <2>1, <2>2, <2>3 DEF Payload, Unchanged
<1>8. DemuxTypes'
    BY <1>1, <1>7 DEF DemuxTypes
<1>9. Got' = Got /\ Coming' = Coming /\ Broken'
    BY <1>1, <1>7 DEF Got, Coming, Broken
<1> QED
    BY <1>7, <1>8, <1>9 DEF OnTrack

LEMMA DemuxInvStep == DemuxInv /\ [DemuxNext]_demuxVars => DemuxInv'
<1> SUFFICES ASSUME DemuxInv, [DemuxNext]_demuxVars, ~damaged', ~misled' PROVE OnTrack'
    BY DEF DemuxInv
<1>1. ASSUME NEW ts \in Streams, NEW bad \in BOOLEAN, Open(ts, bad) PROVE OnTrack'
    <2>1. bad = FALSE /\ state = 0
        BY <1>1 DEF Open, sw_f
    <2> QED
        BY <1>1, <2>1, OpenStep
<1>2. CASE Reset
    <2>1. /\ tags' = <<>> /\ input' = <<>> /\ bytes' = <<>> /\ delivered' = <<>> /\ state' = 0
          /\ erred' = FALSE /\ panicked' = FALSE
        BY <1>2 DEF Reset, sw_f
    <2>2. Unread' = <<>> /\ Got' = 0 /\ Len(tags') = 0 /\ DOMAIN delivered' = {}
        BY <2>1 DEF Unread, Got
    <2>3. DemuxTypes'
        BY <2>1 DEF DemuxTypes
    <2>4. Idle'
        BY <2>1, <2>2 DEF Idle
    <2> QED
        BY <2>1, <2>2, <2>3, <2>4 DEF OnTrack
<1>3. ASSUME NEW n \in 1..Len(input), AppendBytes(n) PROVE OnTrack'
    <2>1. OnTrack
        BY <1>3 DEF DemuxInv, AppendBytes
    <2> QED
        BY <1>3, <2>1, AppendBytesStep
<1>4. CASE Signature
    <2>1. OnTrack
        BY <1>4 DEF DemuxInv, Signature, Consume, DataError, Unchanged
    <2> QED
        BY <1>4, <2>1, SignatureStep
<1>5. CASE SkipByte
    <2>1. OnTrack
        BY <1>5 DEF DemuxInv, SkipByte, Consume, Unchanged
    <2> QED
        BY <1>5, <2>1, SkipByteStep
<1>6. CASE TagType
    <2>1. OnTrack
        BY <1>6 DEF DemuxInv, TagType, Consume, DataError, Unchanged
    <2> QED
        BY <1>6, <2>1, TagTypeStep
<1>7. CASE TagField
    <2>1. OnTrack
        BY <1>7 DEF DemuxInv, TagField, Consume, Unchanged
    <2> QED
        BY <1>7, <2>1, TagFieldStep
<1>8. CASE Payload
    <2>1. misled' = misled /\ damaged' = damaged
        BY <1>8 DEF Payload, Unchanged
    <2>2. OnTrack
        BY <2>1 DEF DemuxInv
    <2>3. state = 24
        BY <1>8 DEF Payload, sw_payload
    <2>4. CASE AtPayload /\ ~panicked
        BY <1>8, <2>2, <2>4, PayloadStep
    <2>5. CASE Broken
        BY <1>8, <2>2, <2>5, BrokenStep
    <2> QED
        BY <2>2, <2>3, <2>4, <2>5, StateOf DEF OnTrack
<1>9. CASE UNCHANGED demuxVars
    <2>1. UNCHANGED <<tags, input, bytes, state, packet, delivered, damaged, erred, panicked, misled>>
        BY <1>9 DEF demuxVars
    <2>2. OnTrack
        BY <2>1 DEF DemuxInv
    <2>3. Got' = Got /\ Coming' = Coming /\ Unread' = Unread /\ DemuxTypes' = DemuxTypes
        BY <2>1 DEF Got, Coming, Unread, DemuxTypes
    <2>4. /\ Idle' = Idle /\ AtHeader' = AtHeader /\ AtPointer' = AtPointer /\ AtTag' = AtTag
          /\ AtField' = AtField /\ AtPayload' = AtPayload /\ Broken' = Broken
        BY <2>1, <2>3 DEF Idle, AtHeader, AtPointer, AtTag, AtField, AtPayload, HasRead, Broken
    <2> QED
        BY <2>1, <2>2, <2>3, <2>4 DEF OnTrack
<1> QED
    BY <1>1, <1>2, <1>3, <1>4, <1>5, <1>6, <1>7, <1>8, <1>9 DEF DemuxNext

LEMMA DemuxInvariance == DemuxSpec => []DemuxInv
BY DemuxInvInit, DemuxInvStep, PTL DEF DemuxSpec

\* Nothing is left only when the last tag has been delivered.
LEMMA NothingLeft ==
    ASSUME OnTrack, input = <<>>, bytes = <<>>, ~panicked
    PROVE  Len(delivered) = Len(tags)
<1>1. DemuxTypes /\ Got <= Len(tags) /\ Got \in Nat /\ Len(tags) \in Nat /\ Unread = <<>>
    <2>1. DemuxTypes /\ Got <= Len(tags)
        BY DEF OnTrack
    <2> QED
        BY <2>1 DEF Got, Unread, DemuxTypes
<1>2. ASSUME NEW u \in Seq(Byte), NEW v \in Seq(Byte), Len(u) \in Nat \ {0}, u \o v = <<>> PROVE FALSE
    <2>1. Len(u \o v) = Len(u) + Len(v) /\ Len(v) \in Nat
        BY ConcatProperties, LenProperties
    <2>2. Len(u \o v) = 0
        BY <1>2
    <2> QED
        BY <1>2, <2>1, <2>2
<1>3. Wire(tags, Got) \in Seq(Byte)
    <2>1. Got \in 0..Len(tags)
        BY <1>1
    <2> QED
        BY <1>1, <2>1, WireType DEF DemuxTypes
<1>4. CASE Idle
    BY <1>4 DEF Idle
<1>5. ~AtHeader
    <2> SUFFICES ASSUME AtHeader PROVE FALSE
        OBVIOUS
    <2> DEFINE u == SubSeq(FlvHeader, state + 1, Len(FlvHeader))
    <2>1. state \in 0..8 /\ u \o Wire(tags, Got) = <<>>
        BY <1>1 DEF AtHeader
    <2>2. u \in Seq(Byte) /\ Len(u) = 13 - state
        <3>1. state \in 0..Len(FlvHeader)
            BY <2>1, HeaderType
        <3> QED
            BY <3>1, HeaderType, SubSeqBehind
    <2> HIDE DEF u
    <2>3. Len(u) \in Nat \ {0}
        BY <2>1, <2>2
    <2> QED
        BY <1>2, <1>3, <2>1, <2>2, <2>3
<1>6. ~AtPointer
    <2> SUFFICES ASSUME AtPointer PROVE FALSE
        OBVIOUS
    <2>1. PICK b \in Seq(Byte) : Len(b) = 13 - state /\ Unread = b \o Wire(tags, Got)
        BY DEF AtPointer
    <2>2. Len(b) \in Nat \ {0}
        BY <2>1 DEF AtPointer
    <2> QED
        BY <1>1, <1>2, <1>3, <2>1, <2>2
<1>7. Got < Len(tags) => Unread # Wire(tags, Got) /\ ~AtField /\ ~AtPayload
    <2> SUFFICES ASSUME Got < Len(tags) PROVE Unread # Wire(tags, Got) /\ ~AtField /\ ~AtPayload
        OBVIOUS
    <2> DEFINE b == TagBytes(Coming)
               w == Wire(tags, Got + 1)
    <2>1. /\ b \in Seq(Byte) /\ w \in Seq(Byte) /\ Wire(tags, Got) = b \o w
          /\ Len(b) = Len(Coming.payload) + 15 /\ Len(Coming.payload) \in Nat
        BY <1>1, TagAhead
    <2> HIDE DEF b, w
    <2>2. Unread # Wire(tags, Got)
        <3>1. Len(b) \in Nat \ {0}
            BY <2>1
        <3> QED
            BY <1>1, <1>2, <2>1, <3>1
    <2>3. ASSUME NEW m \in Nat, m < Len(b) PROVE Unread # SubSeq(b, m + 1, Len(b)) \o w
        <3>1. m \in 0..Len(b)
            BY <2>1, <2>3
        <3>2. SubSeq(b, m + 1, Len(b)) \in Seq(Byte) /\ Len(SubSeq(b, m + 1, Len(b))) = Len(b) - m
            BY <2>1, <3>1, SubSeqBehind
        <3>3. Len(SubSeq(b, m + 1, Len(b))) \in Nat \ {0}
            BY <2>1, <2>3, <3>2
        <3> QED
            BY <1>1, <1>2, <2>1, <3>2, <3>3
    <2>4. ~AtField
        <3> SUFFICES ASSUME AtField PROVE FALSE
            OBVIOUS
        <3>1. state \in 14..23 /\ Unread = SubSeq(b, state - 12, Len(b)) \o w
            BY DEF AtField, b, w
        <3>2. state - 13 \in Nat /\ state - 13 < Len(b) /\ state - 13 + 1 = state - 12
            BY <2>1, <3>1
        <3> QED
            BY <2>3, <3>1, <3>2
    <2>5. ~AtPayload
        <3> SUFFICES ASSUME AtPayload PROVE FALSE
            OBVIOUS
        <3>1. PICK n \in 0..Len(Coming.payload) : Unread = SubSeq(b, 12 + n, Len(b)) \o w
            BY DEF AtPayload, HasRead, b, w
        <3>2. 11 + n \in Nat /\ 11 + n < Len(b) /\ 11 + n + 1 = 12 + n
            BY <2>1
        <3> QED
            BY <2>3, <3>1, <3>2
    <2> QED
        BY <2>2, <2>4, <2>5
<1>8. CASE AtTag
    BY <1>1, <1>7, <1>8 DEF AtTag, Got
<1>9. AtField \/ AtPayload => Got < Len(tags)
    BY DEF AtField, AtPayload
<1>10. ~Broken
    BY DEF Broken
<1> QED
    BY <1>4, <1>5, <1>6, <1>7, <1>8, <1>9, <1>10 DEF OnTrack

\* However the bytes of a stream are cut, the packets delivered are its tags,
\* and none is missing when the last byte has been read.
THEOREM PacketsAreDelivered == DemuxSpec => []PacketsAreTheTags
<1>1. DemuxInv => PacketsAreTheTags
    <2> SUFFICES ASSUME OnTrack
                 PROVE  /\ ~erred /\ Len(delivered) <= Len(tags)
                        /\ \A i \in DOMAIN delivered : delivered[i] = Packet(tags[i])
                        /\ panicked => TooShort(Packet(tags[Len(delivered) + 1]))
                        /\ input = <<>> /\ bytes = <<>> /\ ~panicked => Len(delivered) = Len(tags)
        BY DEF DemuxInv, PacketsAreTheTags
    <2>1. /\ ~erred /\ Len(delivered) <= Len(tags)
          /\ \A i \in DOMAIN delivered : delivered[i] = Packet(tags[i])
        BY DEF OnTrack, Got
    <2>2. panicked => TooShort(Packet(tags[Len(delivered) + 1]))
        BY DEF OnTrack, Broken, Coming, Got
    <2> QED
        BY <2>1, <2>2, NothingLeft
<1> QED
    BY <1>1, DemuxInvariance, PTL
=============================================================================
