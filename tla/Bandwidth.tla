----------------------------- MODULE Bandwidth ------------------------------
(***************************************************************************)
(* bw.Manager and the Readers that share its bandwidth, each used by a     *)
(* goroutine of its own.  Writers are the same with avgOut.  A Reader has  *)
(* a pointer to the share, so that NewReader changes the share of all.     *)
(*                                                                         *)
(* next is a time in seconds to which a second in nanoseconds is added:    *)
(* the difference to now stays positive for thirty years, and the sleep is *)
(* a second whenever next has been set, and none when it has not.          *)
(***************************************************************************)
EXTENDS Integers, FiniteSets

CONSTANTS
    Readers,
    Bandwidths,   \* values of the configured bandwidth, in bytes
    MaxRead,      \* the largest buffer passed to Read
    MaxCount      \* bound: the count of a Reader that never sleeps

ASSUME BandwidthAssumption ==
    Bandwidths \subseteq Nat /\ MaxRead \in Nat \ {0} /\ MaxCount \in Nat

VARIABLES
    in,           \* the bandwidth of the manager, -1 before Init
    readers,      \* the readers of the manager
    avgIn,        \* the share of each
    count,        \* cnt of each Reader
    next,         \* whether next of each Reader has been set
    at,           \* where each Read is: "idle", "loop" or "read"
    avg,          \* the share that Read has loaded
    cnt,          \* the local count of its loop
    burst         \* history: bytes counted since the last sleep

own == <<count, next, at, avg, cnt, burst>>
vars == <<in, readers, avgIn, own>>

Init ==
    /\ in = -1 /\ readers = {} /\ avgIn = 0
    /\ count = [r \in Readers |-> 0]
    /\ next = [r \in Readers |-> FALSE]
    /\ at = [r \in Readers |-> "idle"]
    /\ avg = [r \in Readers |-> 0]
    /\ cnt = [r \in Readers |-> 0]
    /\ burst = [r \in Readers |-> 0]

InitManager(n) ==
    /\ in = -1
    /\ in' = n
    /\ UNCHANGED <<readers, avgIn, own>>

\* The share is set before the Reader looks at it; without one, next stays 0.
NewReader(r) ==
    /\ in # -1 /\ r \notin readers /\ at[r] = "idle"
    /\ avgIn' = in \div (Cardinality(readers) + 1)
    /\ readers' = readers \cup {r}
    /\ next' = [next EXCEPT ![r] = avgIn' > 0]
    /\ count' = [count EXCEPT ![r] = 0]
    /\ avg' = [avg EXCEPT ![r] = 0]
    /\ cnt' = [cnt EXCEPT ![r] = 0]
    /\ burst' = [burst EXCEPT ![r] = 0]
    /\ UNCHANGED <<in, at>>

\* The others keep their share until the next NewReader.
Close(r) ==
    /\ r \in readers /\ at[r] = "idle"
    /\ readers' = readers \ {r}
    /\ UNCHANGED <<in, avgIn, own>>

\* Read loads the share; 0 is no limit.
LoadShare(r) ==
    /\ r \in readers /\ at[r] = "idle"
    /\ avg' = [avg EXCEPT ![r] = avgIn]
    /\ cnt' = [cnt EXCEPT ![r] = count[r]]
    /\ at' = [at EXCEPT ![r] = IF avgIn > 0 THEN "loop" ELSE "read"]
    /\ UNCHANGED <<in, readers, avgIn, count, next, burst>>

\* Mutation: a count that has reached the share does not sleep.
OverExceeded(r) == cnt[r] > avg[r]

Over(r) == cnt[r] >= avg[r]

\* One turn of the loop for every share that has been used up.
Sleep(r) ==
    /\ at[r] = "loop" /\ Over(r)
    /\ cnt' = [cnt EXCEPT ![r] = @ - avg[r]]
    /\ \/ /\ next[r]
          /\ count' = [count EXCEPT ![r] = cnt[r] - avg[r]]
          /\ burst' = [burst EXCEPT ![r] = 0]
       \/ ~next[r] /\ UNCHANGED <<count, burst>>
    /\ UNCHANGED <<in, readers, avgIn, next, at, avg>>

LoopEnds(r) ==
    /\ at[r] = "loop" /\ ~Over(r)
    /\ at' = [at EXCEPT ![r] = "read"]
    /\ UNCHANGED <<in, readers, avgIn, count, next, avg, cnt, burst>>

\* The source gives n bytes; they count if there was a share.
Read(r, n) ==
    /\ at[r] = "read"
    /\ at' = [at EXCEPT ![r] = "idle"]
    /\ \/ /\ avg[r] > 0 /\ count[r] + n <= MaxCount
          /\ count' = [count EXCEPT ![r] = @ + n]
          /\ burst' = [burst EXCEPT ![r] = @ + n]
       \/ avg[r] = 0 /\ UNCHANGED <<count, burst>>
    /\ UNCHANGED <<in, readers, avgIn, next, avg, cnt>>

Next ==
    \/ \E n \in Bandwidths : InitManager(n)
    \/ \E r \in Readers :
        \/ NewReader(r) \/ Close(r)
        \/ LoadShare(r) \/ Sleep(r) \/ LoopEnds(r)
        \/ \E n \in 0..MaxRead : Read(r, n)

Spec == Init /\ [][Next]_vars

-----------------------------------------------------------------------------
(* Properties.                                                             *)

\* The shares never exceed the bandwidth together, whoever comes and goes, and
\* between two sleeps a Reader takes less than its share and a buffer.  A
\* Reader that began with a share of 0 never sleeps and is not held to it, and
\* what is read while the share is 0 is not counted.
BandwidthIsShared ==
    /\ avgIn * Cardinality(readers) <= in \/ in = -1
    /\ \A r \in readers :
        next[r] /\ avg[r] > 0 /\ at[r] = "idle" => burst[r] < avg[r] + MaxRead
=============================================================================
