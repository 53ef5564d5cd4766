-------------------------------- MODULE Timer --------------------------------
(***************************************************************************)
(* utils/timer: a Timer ticks on a time.Ticker, read by a goroutine that   *)
(* every successful Start spawns.  State and counter are atomics; the      *)
(* ticker field is not, and wait reads it afresh before every tick.        *)
(*                                                                         *)
(* Start, Stop and Reset are called by goroutines of the program (Callers) *)
(* and by the listeners of the timer's own events, which run in the        *)
(* spawned goroutine.  Ticker and waiter k belong to the k-th Start.       *)
(***************************************************************************)
EXTENDS Integers, FiniteSets

CONSTANTS
    Callers,        \* goroutines that use the timer
    RepeatCounts,   \* what Init is given as repeatCount; 0 is without end
    MaxStarts,      \* bound: tickers created
    MaxResets,      \* bound: resets
    MaxCount,       \* bound: currentCount
    NoTicker, NoOwner

Waiters == 1..MaxStarts
Threads == Callers \cup Waiters

ASSUME TimerAssumption ==
    /\ RepeatCounts \subseteq Nat /\ MaxStarts \in Nat
    /\ MaxResets \in Nat /\ MaxCount \in Nat
    /\ Callers \cap Waiters = {}
    /\ NoTicker \notin Waiters /\ NoOwner \notin Threads

VARIABLES
    repeatCount,
    state,          \* "initialized" or "running"
    ticker,         \* the ticker field
    live,           \* tickers that have not been stopped
    ticked,         \* tickers with a tick in their channel, which holds one
    currentCount,
    call,           \* where each thread is in Start, Stop or Reset
    wait,           \* where each spawned goroutine is in wait
    channel,        \* the ticker each waiter receives from
    n,              \* the count of its last tick
    owner,          \* the waiter that holds the event dispatcher
    overlapped,     \* history: a call changed the state while another that
                    \* had changed it had not got at the ticker yet
    starts, resets, \* history: tickers created, counters cleared
    completes       \* history: COMPLETE events dispatched

calls == <<call, starts, resets>>
waiters == <<wait, channel, n, owner, completes>>
fixed == <<repeatCount, overlapped>>
timerVars == <<fixed, state, ticker, live, ticked, currentCount, calls, waiters>>

TimerInit ==
    /\ repeatCount \in RepeatCounts /\ overlapped = FALSE
    /\ state = "initialized"
    /\ ticker = NoTicker
    /\ live = {} /\ ticked = {}
    /\ currentCount = 0
    /\ call = [t \in Threads |-> "none"]
    /\ wait = [w \in Waiters |-> "unborn"]
    /\ channel = [w \in Waiters |-> NoTicker]
    /\ n = [w \in Waiters |-> 0]
    /\ owner = NoOwner
    /\ starts = 0 /\ resets = 0 /\ completes = 0

-----------------------------------------------------------------------------
(* Start, Stop, Reset.  A Start of a running timer and a Stop of an idle   *)
(* one return at once.                                                     *)

Alive == \A t \in Threads : call[t] # "panicked"

InHandler(t) == t \in Waiters /\ wait[t] \in {"timer", "complete"}
MayCall(t) == call[t] = "none" /\ (t \in Callers \/ InHandler(t))

Starting == {t \in Threads : call[t] = "start"}
AtTicker == {t \in Threads : call[t] \in {"start", "stop", "reset"}}
Resetting == {t \in Threads : call[t] \in {"reset", "clear"}}

StartTimer(t) ==
    /\ MayCall(t)
    /\ starts + Cardinality(Starting) < MaxStarts
    /\ state = "initialized"
    /\ state' = "running"
    /\ call' = [call EXCEPT ![t] = "start"]
    /\ UNCHANGED <<ticker, live, ticked, currentCount, starts, resets, waiters>>

NewTicker(t) ==
    /\ call[t] = "start"
    /\ starts' = starts + 1
    /\ ticker' = starts + 1
    /\ live' = live \cup {starts + 1}
    /\ wait' = [wait EXCEPT ![starts + 1] = "select"]
    /\ call' = [call EXCEPT ![t] = "none"]
    /\ UNCHANGED <<state, ticked, currentCount, resets, channel, n, owner, completes>>

\* The compare-and-swap of Stop: how says who called it.
Swap(t, how) ==
    /\ state = "running"
    /\ state' = "initialized"
    /\ call' = [call EXCEPT ![t] = how]
    /\ UNCHANGED <<ticker, live, ticked, currentCount, starts, resets, waiters>>

Stop(t) == MayCall(t) /\ Swap(t, "stop")

Reset(t) ==
    /\ MayCall(t)
    /\ resets + Cardinality(Resetting) < MaxResets
    /\ \/ Swap(t, "reset")
       \/ /\ state # "running"
          /\ call' = [call EXCEPT ![t] = "clear"]
          /\ UNCHANGED <<state, ticker, live, ticked, currentCount, starts, resets, waiters>>

\* me.ticker.Stop(): of whatever ticker the field holds by now.
StopTicker(t) ==
    /\ call[t] \in {"stop", "reset"}
    /\ live' = live \ {ticker}
    /\ call' = [call EXCEPT ![t] = IF ticker = NoTicker THEN "panicked"
                                   ELSE IF @ = "stop" THEN "none" ELSE "clear"]
    /\ UNCHANGED <<state, ticker, ticked, currentCount, starts, resets, waiters>>

Clear(t) ==
    /\ call[t] = "clear"
    /\ currentCount' = 0
    /\ resets' = resets + 1
    /\ call' = [call EXCEPT ![t] = "none"]
    /\ UNCHANGED <<state, ticker, live, ticked, starts, waiters>>

-----------------------------------------------------------------------------
(* The ticker and wait.                                                    *)

Tick(k) ==
    /\ k \in live \ ticked
    /\ ticked' = ticked \cup {k}
    /\ UNCHANGED <<state, ticker, live, currentCount, calls, waiters>>

\* The select evaluates me.ticker.C, then blocks on that channel.
Select(w) ==
    /\ wait[w] = "select"
    /\ call[w] = "none"
    /\ channel' = [channel EXCEPT ![w] = ticker]
    /\ wait' = [wait EXCEPT ![w] = "blocked"]
    /\ UNCHANGED <<state, ticker, live, ticked, currentCount, calls, n, owner, completes>>

Receive(w) ==
    /\ wait[w] = "blocked"
    /\ channel[w] \in ticked
    /\ ticked' = ticked \ {channel[w]}
    /\ wait' = [wait EXCEPT ![w] = "received"]
    /\ UNCHANGED <<state, ticker, live, currentCount, calls, channel, n, owner, completes>>

CheckState(w) ==
    /\ wait[w] = "received"
    /\ wait' = [wait EXCEPT ![w] = IF state = "running" THEN "count" ELSE "gone"]
    /\ UNCHANGED <<state, ticker, live, ticked, currentCount, calls, channel, n, owner, completes>>

Count(w) ==
    /\ wait[w] = "count"
    /\ currentCount < MaxCount
    /\ currentCount' = currentCount + 1
    /\ n' = [n EXCEPT ![w] = currentCount + 1]
    /\ wait' = [wait EXCEPT ![w] = "dispatch"]
    /\ UNCHANGED <<state, ticker, live, ticked, calls, channel, owner, completes>>

\* DispatchEvent runs the listeners with the dispatcher locked.
DispatchTimer(w) ==
    /\ wait[w] = "dispatch"
    /\ owner = NoOwner
    /\ owner' = w
    /\ wait' = [wait EXCEPT ![w] = "timer"]
    /\ UNCHANGED <<state, ticker, live, ticked, currentCount, calls, channel, n, completes>>

\* Mutation: every tick from the last one on completes the run.
TimerHandledAtLeast(w) ==
    /\ wait[w] = "timer" /\ call[w] = "none"
    /\ owner' = NoOwner
    /\ wait' = [wait EXCEPT ![w] = IF repeatCount > 0 /\ n[w] >= repeatCount
                                   THEN "last" ELSE "select"]
    /\ UNCHANGED <<state, ticker, live, ticked, currentCount, calls, channel, n, completes>>

\* Mutation: wait returns after a tick.
TimerHandledReturns(w) ==
    /\ wait[w] = "timer" /\ call[w] = "none"
    /\ owner' = NoOwner
    /\ wait' = [wait EXCEPT ![w] = IF repeatCount > 0 /\ n[w] = repeatCount
                                   THEN "last" ELSE "gone"]
    /\ UNCHANGED <<state, ticker, live, ticked, currentCount, calls, channel, n, completes>>

TimerHandled(w) ==
    /\ wait[w] = "timer" /\ call[w] = "none"
    /\ owner' = NoOwner
    /\ wait' = [wait EXCEPT ![w] = IF repeatCount > 0 /\ n[w] = repeatCount
                                   THEN "last" ELSE "select"]
    /\ UNCHANGED <<state, ticker, live, ticked, currentCount, calls, channel, n, completes>>

DispatchComplete(w) ==
    /\ wait[w] = "last"
    /\ owner = NoOwner
    /\ owner' = w
    /\ wait' = [wait EXCEPT ![w] = "complete"]
    /\ completes' = completes + 1
    /\ UNCHANGED <<state, ticker, live, ticked, currentCount, calls, channel, n>>

CompleteHandled(w) ==
    /\ wait[w] = "complete" /\ call[w] = "none"
    /\ owner' = NoOwner
    /\ wait' = [wait EXCEPT ![w] = "stop"]
    /\ UNCHANGED <<state, ticker, live, ticked, currentCount, calls, channel, n, completes>>

\* me.Stop() of wait, then the next round of its loop.
StopSelf(w) ==
    /\ wait[w] = "stop"
    /\ wait' = [wait EXCEPT ![w] = "select"]
    /\ IF state = "running"
       THEN state' = "initialized" /\ call' = [call EXCEPT ![w] = "stop"]
       ELSE UNCHANGED <<state, call>>
    /\ UNCHANGED <<ticker, live, ticked, currentCount, starts, resets, channel, n, owner, completes>>

-----------------------------------------------------------------------------
Begin(t) ==
    /\ Alive
    /\ StartTimer(t) \/ Stop(t) \/ Reset(t)
    /\ overlapped' = (overlapped \/ (state' # state /\ AtTicker # {}))
    /\ UNCHANGED repeatCount

Continue(t) ==
    /\ Alive
    /\ NewTicker(t) \/ StopTicker(t) \/ Clear(t)
    /\ UNCHANGED fixed

TickerTicks(w) == Alive /\ Tick(w) /\ UNCHANGED fixed

Wait(w) ==
    /\ Alive
    /\ \/ Select(w) \/ Receive(w) \/ CheckState(w) \/ Count(w)
       \/ DispatchTimer(w) \/ TimerHandled(w)
       \/ DispatchComplete(w) \/ CompleteHandled(w) \/ StopSelf(w)
    /\ UNCHANGED fixed

TimerNext ==
    \/ \E t \in Threads : Begin(t) \/ Continue(t)
    \/ \E w \in Waiters : TickerTicks(w) \/ Wait(w)

TimerSpec == TimerInit /\ [][TimerNext]_timerVars

\* Goroutines run on once they have begun, and a live ticker ticks.
FairTimerSpec ==
    /\ TimerSpec
    /\ \A t \in Threads : WF_timerVars(Continue(t))
    /\ \A w \in Waiters : WF_timerVars(TickerTicks(w)) /\ WF_timerVars(Wait(w))

-----------------------------------------------------------------------------
(* Properties.                                                             *)

WaitStates == {"unborn", "select", "blocked", "received", "count", "dispatch",
               "timer", "last", "complete", "stop", "gone"}

TimerTypeOK ==
    /\ repeatCount \in RepeatCounts /\ overlapped \in BOOLEAN
    /\ state \in {"initialized", "running"}
    /\ ticker \in Waiters \cup {NoTicker}
    /\ live \subseteq Waiters /\ ticked \subseteq Waiters
    /\ currentCount \in Nat
    /\ call \in [Threads -> {"none", "start", "stop", "reset", "clear", "panicked"}]
    /\ wait \in [Waiters -> WaitStates]
    /\ channel \in [Waiters -> Waiters \cup {NoTicker}]
    /\ n \in [Waiters -> Nat]
    /\ owner \in Waiters \cup {NoOwner}
    /\ starts \in 0..MaxStarts /\ resets \in Nat /\ completes \in Nat

\* COMPLETE is dispatched at most once for every time the counter is set to
\* zero, whatever the interleaving of ticks, restarts and resets: the count
\* that completes a run (n == me.repeatCount in wait) is reached only once.
CompletesOncePerReset == completes <= resets + 1

Quiet == \A t \in Threads : call[t] = "none"
Endless == repeatCount = 0 /\ ~overlapped

\* A timer without end that runs with no call under way keeps ticking (up to
\* the bound) unless somebody stops it, whoever calls Start, Stop and Reset,
\* goroutines of the program or its own listeners, as long as none of them
\* swaps the state between another's swap and that one's use of the ticker:
\* it has a live ticker and a goroutine that receives from it, stale ticks and
\* waiters of earlier runs notwithstanding (Start, Stop, wait).
KeepsTicking ==
    Endless /\ state = "running" /\ Quiet ~>
        ~Endless \/ state # "running" \/ currentCount = MaxCount

\* timer.go:81, "Running returns the timer's current state; true if the
\* timer is running": a timer that says so, with no call under way, can tick.
RunningIsTrue == state = "running" /\ Quiet => ticker \in live
=============================================================================
