------------------------------ MODULE AckWindow ------------------------------
(***************************************************************************)
(* The acknowledgement window of an RTMP connection: NetConnection.read    *)
(* counts the bytes it has received in a uint32 and sends the count to the *)
(* peer whenever at least farAckWindowSize of them have not been           *)
(* acknowledged.  The peer sets the window by a message, which is parsed   *)
(* after the check of the Read that brought it.                            *)
(***************************************************************************)
EXTENDS Integers

CONSTANTS
    W,          \* 2^32: the counter wraps
    MaxRead,    \* size of the read buffer
    Windows,    \* windows a peer may set
    Default     \* 2500000, the first window

ASSUME AckAssumption ==
    /\ W \in Nat /\ MaxRead \in Nat \ {0}
    /\ Default \in Windows
    /\ \A v \in Windows : v \in Nat /\ v + MaxRead < W

VARIABLES
    bytesIn,            \* BytesIn
    lastAckWindowSize,  \* its value when the last acknowledgement was sent
    farAckWindowSize,
    reading,            \* read has not returned
    unacked,            \* history: the bytes received since that
    window              \* history: the window the last check went by

ackVars == <<bytesIn, lastAckWindowSize, farAckWindowSize, reading, unacked, window>>

Add(a, n) == IF a + n < W THEN a + n ELSE a + n - W
Sub(a, b) == IF b <= a THEN a - b ELSE a - b + W

AckInit ==
    /\ bytesIn = 0 /\ lastAckWindowSize = 0
    /\ farAckWindowSize = Default
    /\ reading = TRUE
    /\ unacked = 0 /\ window = Default

Receive(n) ==
    /\ reading
    /\ bytesIn' = Add(bytesIn, n)
    /\ window' = farAckWindowSize
    /\ UNCHANGED farAckWindowSize

\* Mutation: a window that is just full is not acknowledged.
ReadInclusive(n) ==
    /\ Receive(n)
    /\ Sub(bytesIn', lastAckWindowSize) <= farAckWindowSize
    /\ unacked' = unacked + n
    /\ UNCHANGED <<lastAckWindowSize, reading>>

\* A Read that need not be acknowledged.
Read(n) ==
    /\ Receive(n)
    /\ Sub(bytesIn', lastAckWindowSize) < farAckWindowSize
    /\ unacked' = unacked + n
    /\ UNCHANGED <<lastAckWindowSize, reading>>

\* SendAckSequenceNumber, with the count just read.
Acknowledge(n) ==
    /\ Receive(n)
    /\ Sub(bytesIn', lastAckWindowSize) >= farAckWindowSize
    /\ lastAckWindowSize' = bytesIn'
    /\ unacked' = 0
    /\ UNCHANGED reading

\* The acknowledgement cannot be sent: read returns.
AckFails(n) ==
    /\ Receive(n)
    /\ Sub(bytesIn', lastAckWindowSize) >= farAckWindowSize
    /\ unacked' = unacked + n
    /\ reading' = FALSE
    /\ UNCHANGED lastAckWindowSize

\* process, ACK_WINDOW_SIZE.
SetWindow(v) ==
    /\ reading
    /\ farAckWindowSize' = v
    /\ UNCHANGED <<bytesIn, lastAckWindowSize, reading, unacked, window>>

AckNext ==
    \/ \E n \in 1..MaxRead : Read(n) \/ Acknowledge(n) \/ AckFails(n)
    \/ \E v \in Windows : SetWindow(v)

AckSpec == AckInit /\ [][AckNext]_ackVars

-----------------------------------------------------------------------------
(* Properties.                                                             *)

AckTypeOK ==
    /\ bytesIn \in 0..(W - 1) /\ lastAckWindowSize \in 0..(W - 1)
    /\ farAckWindowSize \in Windows /\ window \in Windows
    /\ reading \in BOOLEAN
    /\ unacked \in Nat

\* A peer that waits for an acknowledgement after a window of bytes always
\* gets it: as long as the connection is read, fewer bytes are outstanding
\* than the window in force at the last check, wherever the counter wraps.
AckedInTime == reading => unacked = 0 \/ unacked < window

\* The difference of the two counters is the number of outstanding bytes:
\* the check of read never mistakes a whole turn of the counter for nothing.
\* AckedInTime rests on it; it is proved in NetConnectionProofs.
CountsOutstanding == reading => Sub(bytesIn, lastAckWindowSize) = unacked
=============================================================================
