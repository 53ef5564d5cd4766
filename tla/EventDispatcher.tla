--------------------------- MODULE EventDispatcher ---------------------------
(***************************************************************************)
(* events.EventDispatcher: the object every other component of the library *)
(* derives from.  One mutex guards the listener table; it is made          *)
(* re-entrant by recording in goid which goroutine holds it, so that a     *)
(* handler may add, remove, query and dispatch on the dispatcher that is   *)
(* calling it.  DispatchEvent recovers from every panic.                   *)
(*                                                                         *)
(* A goroutine is a stack of frames, one per call in progress on this      *)
(* dispatcher: a frame above another one is a call made by the handler the *)
(* lower frame is running.  What a handler does is the environment's       *)
(* choice: nested calls, a return with or without StopPropagation, or a    *)
(* panic.                                                                  *)
(***************************************************************************)
EXTENDS Naturals, Sequences

CONSTANTS
    Threads,        \* goroutines that call the dispatcher
    NoThread,       \* the zero goid, and a mutex nobody holds
    Events,         \* event types
    Listeners,      \* *EventListener objects
    NoListener,     \* no listener (field unused by the operation)
    Limit,          \* the count each listener was created with (0: none)
    MaxRecursion,   \* 8 in the code
    MaxCalls        \* bound: calls each goroutine makes, nested ones included

ASSUME DispatcherAssumption ==
    /\ NoThread \notin Threads
    /\ NoListener \notin Listeners
    /\ Limit \in [Listeners -> Nat]
    /\ MaxRecursion \in Nat \ {0}
    /\ MaxCalls \in [Threads -> Nat]

VARIABLES
    mtx,            \* holder of the mutex
    goid,           \* goroutine the re-entrancy check compares with
    recursion,      \* dispatches in progress
    listeners,      \* registered listeners of each event
    count,          \* what is left of each listener's count
    stack,          \* the calls in progress of each goroutine
    calls,          \* calls made so far (for MaxCalls)
    added,          \* history: registrations of each listener
    returned        \* history: normal returns of each listener's handler

vars == <<mtx, goid, recursion, listeners, count, stack, calls, added, returned>>

Ops == {"add", "remove", "has", "dispatch"}
Labels == {"check", "lock", "mark", "body", "loop", "handler", "unwind",
           "leave", "unlock"}

Frame == [op : Ops, event : Events, listener : Listeners \cup {NoListener},
          pc : Labels, owns : BOOLEAN, todo : SUBSET Listeners]

NewFrame(op, e, l) ==
    [op |-> op, event |-> e, listener |-> l, pc |-> "check", owns |-> FALSE,
     todo |-> {}]

Init ==
    /\ mtx = NoThread
    /\ goid = NoThread
    /\ recursion = 0
    /\ listeners = [e \in Events |-> {}]
    /\ count = Limit
    /\ stack = [t \in Threads |-> <<>>]
    /\ calls = [t \in Threads |-> 0]
    /\ added = [l \in Listeners |-> 0]
    /\ returned = [l \in Listeners |-> 0]

-----------------------------------------------------------------------------
(* The stack of a goroutine.                                               *)

Top(t) == stack[t][Len(stack[t])]
At(t, label) == stack[t] # <<>> /\ Top(t).pc = label
Becomes(t, f) == stack' = [stack EXCEPT ![t][Len(stack[t])] = f]
Goto(t, label) == Becomes(t, [Top(t) EXCEPT !.pc = label])
Pop(t) == stack' = [stack EXCEPT ![t] = SubSeq(@, 1, Len(@) - 1)]

\* A goroutine calls one of the four operations, from its own code or from
\* the handler it is running.
Call(t, op, e, l) ==
    /\ stack[t] = <<>> \/ At(t, "handler")
    /\ calls[t] < MaxCalls[t]
    /\ (op \in {"add", "remove"}) <=> (l # NoListener)
    /\ calls' = [calls EXCEPT ![t] = @ + 1]
    /\ stack' = [stack EXCEPT ![t] = Append(@, NewFrame(op, e, l))]
    /\ UNCHANGED <<mtx, goid, recursion, listeners, count, added, returned>>

-----------------------------------------------------------------------------
(* Entering: compare goid with the caller, lock, record the caller.        *)

\* Mutation: any goid that is set lets the caller in without the lock.
CheckGoidTaken(t) ==
    /\ At(t, "check")
    /\ Goto(t, IF goid # NoThread THEN "body" ELSE "lock")
    /\ UNCHANGED <<mtx, goid, recursion, listeners, count, calls, added, returned>>

CheckGoid(t) ==
    /\ At(t, "check")
    /\ Goto(t, IF goid = t THEN "body" ELSE "lock")
    /\ UNCHANGED <<mtx, goid, recursion, listeners, count, calls, added, returned>>

\* Mutation: a lock that does not exclude, such as RLock.
LockForReading(t) ==
    /\ At(t, "lock")
    /\ mtx' = t
    /\ Becomes(t, [Top(t) EXCEPT !.pc = "mark", !.owns = TRUE])
    /\ UNCHANGED <<goid, recursion, listeners, count, calls, added, returned>>

Lock(t) ==
    /\ At(t, "lock")
    /\ mtx = NoThread
    /\ mtx' = t
    /\ Becomes(t, [Top(t) EXCEPT !.pc = "mark", !.owns = TRUE])
    /\ UNCHANGED <<goid, recursion, listeners, count, calls, added, returned>>

Mark(t) ==
    /\ At(t, "mark")
    /\ goid' = t
    /\ Goto(t, "body")
    /\ UNCHANGED <<mtx, recursion, listeners, count, calls, added, returned>>

-----------------------------------------------------------------------------
(* The table operations.                                                   *)

AddEventListener(t) ==
    /\ At(t, "body") /\ Top(t).op = "add"
    /\ listeners' = [listeners EXCEPT ![Top(t).event] = @ \cup {Top(t).listener}]
    /\ added' = [added EXCEPT ![Top(t).listener] = @ + 1]
    /\ Goto(t, "leave")
    /\ UNCHANGED <<mtx, goid, recursion, count, calls, returned>>

RemoveEventListener(t) ==
    /\ At(t, "body") /\ Top(t).op = "remove"
    /\ listeners' = [listeners EXCEPT ![Top(t).event] = @ \ {Top(t).listener}]
    /\ Goto(t, "leave")
    /\ UNCHANGED <<mtx, goid, recursion, count, calls, added, returned>>

HasEventListener(t) ==
    /\ At(t, "body") /\ Top(t).op = "has"
    /\ Goto(t, "leave")
    /\ UNCHANGED <<mtx, goid, recursion, listeners, count, calls, added, returned>>

-----------------------------------------------------------------------------
(* DispatchEvent.                                                          *)

\* Mutation: the recursion limit is not checked.
BeginDispatchAnyDepth(t) ==
    /\ At(t, "body") /\ Top(t).op = "dispatch"
    /\ recursion' = recursion + 1
    /\ Becomes(t, [Top(t) EXCEPT !.pc = "loop", !.todo = listeners[Top(t).event]])
    /\ UNCHANGED <<mtx, goid, listeners, count, calls, added, returned>>

\* Count the dispatch; panic when it is nested too deep, or else copy the
\* listeners of the event and iterate over the copy.
BeginDispatch(t) ==
    /\ At(t, "body") /\ Top(t).op = "dispatch"
    /\ recursion' = recursion + 1
    /\ IF recursion + 1 > MaxRecursion
       THEN Goto(t, "unwind")
       ELSE Becomes(t, [Top(t) EXCEPT !.pc = "loop", !.todo = listeners[Top(t).event]])
    /\ UNCHANGED <<mtx, goid, listeners, count, calls, added, returned>>

\* Mutation: the loop runs over the table itself, not over a copy.
InvokeRegistered(t) ==
    /\ At(t, "loop")
    /\ \E l \in listeners[Top(t).event] :
          Becomes(t, [Top(t) EXCEPT !.pc = "handler", !.listener = l, !.todo = @ \ {l}])
    /\ UNCHANGED <<mtx, goid, recursion, listeners, count, calls, added, returned>>

\* A Go map is iterated in any order.
Invoke(t) ==
    /\ At(t, "loop")
    /\ \E l \in Top(t).todo :
          Becomes(t, [Top(t) EXCEPT !.pc = "handler", !.listener = l, !.todo = @ \ {l}])
    /\ UNCHANGED <<mtx, goid, recursion, listeners, count, calls, added, returned>>

\* Mutation: a handler that stops the propagation leaves before it is counted.
HandlerReturnStopsFirst(t, stop) ==
    LET l == Top(t).listener
    IN  /\ At(t, "handler")
        /\ count' = [count EXCEPT ![l] = IF @ > 0 /\ ~stop THEN @ - 1 ELSE @]
        /\ listeners' = IF count[l] = 1 /\ ~stop
                        THEN [listeners EXCEPT ![Top(t).event] = @ \ {l}]
                        ELSE listeners
        /\ returned' = [returned EXCEPT ![l] = @ + 1]
        /\ Becomes(t, [Top(t) EXCEPT !.pc = IF stop THEN "unwind" ELSE "loop",
                                     !.listener = NoListener,
                                     !.todo = IF stop THEN {} ELSE @])
        /\ UNCHANGED <<mtx, goid, recursion, calls, added>>

\* The handler returned: count the call, remove a listener that has used up
\* its count, and break the loop if the handler stopped the propagation.
HandlerReturn(t, stop) ==
    LET l == Top(t).listener
    IN  /\ At(t, "handler")
        /\ count' = [count EXCEPT ![l] = IF @ > 0 THEN @ - 1 ELSE @]
        /\ listeners' = IF count[l] = 1
                        THEN [listeners EXCEPT ![Top(t).event] = @ \ {l}]
                        ELSE listeners
        /\ returned' = [returned EXCEPT ![l] = @ + 1]
        /\ Becomes(t, [Top(t) EXCEPT !.pc = IF stop THEN "unwind" ELSE "loop",
                                     !.listener = NoListener,
                                     !.todo = IF stop THEN {} ELSE @])
        /\ UNCHANGED <<mtx, goid, recursion, calls, added>>

\* Mutation: recursion is decremented after the loop, not by a deferred call.
HandlerPanicSkipsUnwind(t) ==
    /\ At(t, "handler")
    /\ Becomes(t, [Top(t) EXCEPT !.pc = "leave", !.listener = NoListener, !.todo = {}])
    /\ UNCHANGED <<mtx, goid, recursion, listeners, count, calls, added, returned>>

\* Mutation: a panic ends the call without its deferred functions.
HandlerPanicKeepsLock(t) ==
    /\ At(t, "handler")
    /\ Pop(t)
    /\ UNCHANGED <<mtx, goid, recursion, listeners, count, calls, added, returned>>

\* A panic in the handler leaves the loop; the deferred calls then run.
HandlerPanic(t) ==
    /\ At(t, "handler")
    /\ Becomes(t, [Top(t) EXCEPT !.pc = "unwind", !.listener = NoListener, !.todo = {}])
    /\ UNCHANGED <<mtx, goid, recursion, listeners, count, calls, added, returned>>

EndLoop(t) ==
    /\ At(t, "loop")
    /\ Top(t).todo = {}
    /\ Goto(t, "unwind")
    /\ UNCHANGED <<mtx, goid, recursion, listeners, count, calls, added, returned>>

\* The first deferred call to run, on every way out of DispatchEvent.
Unwind(t) ==
    /\ At(t, "unwind")
    /\ recursion' = recursion - 1
    /\ Goto(t, "leave")
    /\ UNCHANGED <<mtx, goid, listeners, count, calls, added, returned>>

-----------------------------------------------------------------------------
(* Leaving: a frame that locked clears goid and then unlocks; a re-entrant *)
(* one just returns.                                                       *)

Leave(t) ==
    /\ At(t, "leave")
    /\ IF Top(t).owns
       THEN goid' = NoThread /\ Goto(t, "unlock")
       ELSE UNCHANGED goid /\ Pop(t)
    /\ UNCHANGED <<mtx, recursion, listeners, count, calls, added, returned>>

Unlock(t) ==
    /\ At(t, "unlock")
    /\ mtx' = NoThread
    /\ Pop(t)
    /\ UNCHANGED <<goid, recursion, listeners, count, calls, added, returned>>

-----------------------------------------------------------------------------
\* The steps of a goroutine that wait for nobody.
Step(t) ==
    \/ CheckGoid(t) \/ Mark(t)
    \/ AddEventListener(t) \/ RemoveEventListener(t) \/ HasEventListener(t)
    \/ BeginDispatch(t) \/ Invoke(t) \/ EndLoop(t)
    \/ \E stop \in BOOLEAN : HandlerReturn(t, stop)
    \/ HandlerPanic(t)
    \/ Unwind(t) \/ Leave(t) \/ Unlock(t)

\* Every goroutine has made its calls and they have all returned.
Finished ==
    /\ \A t \in Threads : stack[t] = <<>> /\ calls[t] = MaxCalls[t]
    /\ UNCHANGED vars

Next ==
    \/ \E t \in Threads :
          \/ \E op \in Ops, e \in Events, l \in Listeners \cup {NoListener} :
                Call(t, op, e, l)
          \/ Lock(t)
          \/ Step(t)
    \/ Finished

Spec == Init /\ [][Next]_vars

\* A running goroutine is scheduled, its handlers return or panic, and
\* sync.Mutex serves a waiter in the end (starvation mode).
FairSpec == Spec /\ \A t \in Threads : WF_vars(Step(t)) /\ SF_vars(Lock(t))

-----------------------------------------------------------------------------
(* Properties.                                                             *)

TypeOK ==
    /\ mtx \in Threads \cup {NoThread}
    /\ goid \in Threads \cup {NoThread}
    /\ recursion \in Nat
    /\ listeners \in [Events -> SUBSET Listeners]
    /\ count \in [Listeners -> Nat]
    /\ stack \in [Threads -> Seq(Frame)]
    /\ calls \in [Threads -> Nat]
    /\ added \in [Listeners -> Nat]
    /\ returned \in [Listeners -> Nat]

\* Labels at which a call works on the table or on recursion.
Inside == {"body", "loop", "handler", "unwind", "leave"}

\* The re-entrant lock is a lock: a goroutine with any frame inside the
\* dispatcher, however deep, holds the mutex and is the one goid names; and
\* goid names nobody else, or that goroutine's next call would skip the lock.
\* (AddEventListener, RemoveEventListener, HasEventListener, DispatchEvent.)
MutualExclusion ==
    /\ \A t \in Threads : \A i \in 1..Len(stack[t]) :
          stack[t][i].pc \in Inside => mtx = t /\ goid = t
    /\ goid # NoThread => mtx = goid

\* Nothing is left behind when the mutex is free, whichever way the last
\* call ended: normal return, StopPropagation, a handler's panic, or the
\* recursion limit.
FreeIsClean ==
    mtx = NoThread =>
        /\ goid = NoThread
        /\ recursion = 0
        /\ \A t \in Threads : \A i \in 1..Len(stack[t]) : ~stack[t][i].owns

\* The recursion guard bounds the stack of nested calls: at most MaxRecursion
\* handlers of a goroutine are running, and one more call may sit on top.
BoundedNesting ==
    /\ recursion =< MaxRecursion + 1
    /\ \A t \in Threads :
          /\ Len(stack[t]) =< MaxRecursion + 1
          /\ \A i \in 1..Len(stack[t]) : stack[t][i].pc = "handler" => i =< MaxRecursion

\* Once a RemoveEventListener made from outside any handler has removed a
\* listener, no dispatch in progress in any goroutine is still going to call
\* it (or is calling it) for that event.
RemovedIsQuiet ==
    \A t \in Threads : \A i \in 1..Len(stack[t]) :
        LET f == stack[t][i]
        IN  f.op = "remove" /\ f.owns /\ f.pc \in {"leave", "unlock"} =>
               \A u \in Threads : \A j \in 1..Len(stack[u]) :
                  LET g == stack[u][j]
                  IN  g.op = "dispatch" /\ g.event = f.event =>
                         f.listener \notin g.todo \cup {g.listener}

\* A limited listener that was registered once may be called again by
\* dispatches nested in its own handler, before the outer call is counted:
\* MaxRecursion - 1 times more than its count, and never more.
OverrunBound ==
    \A l \in Listeners :
        Limit[l] > 0 /\ added[l] =< 1 => returned[l] =< Limit[l] + MaxRecursion - 1

\* The deliveries in progress: the dispatches of the goroutine that holds the
\* mutex that are at their loop or in a handler.  Every frame below the top
\* is one, because only a handler makes nested calls.
Delivering(t) ==
    LET n == IF At(t, "loop") \/ At(t, "handler") THEN Len(stack[t])
             ELSE IF stack[t] = <<>> THEN 0 ELSE Len(stack[t]) - 1
    IN  [i \in 1..n |-> [event |-> stack[t][i].event, due |-> stack[t][i].todo,
                         running |-> stack[t][i].listener]]

Registry == INSTANCE ListenerRegistry
    WITH owner <- mtx, table <- listeners,
         deliveries <- IF mtx = NoThread THEN <<>> ELSE Delivering(mtx),
         MaxDeliveries <- MaxRecursion

\* The dispatcher implements ListenerRegistry: a dispatch calls listeners its
\* event had when it began, each at most once, in spite of what handlers and
\* other goroutines do to the table, and never without the mutex.
ImplementsRegistry == Registry!Spec

\* Every call returns, under contention, nested calls, panics and the
\* recursion limit: no way out of an operation forgets to unlock.
CallsReturn == \A t \in Threads : stack[t] # <<>> ~> stack[t] = <<>>

=============================================================================
