-------------------------- MODULE ListenerRegistry --------------------------
(***************************************************************************)
(* What EventDispatcher promises its callers, without goroutine ids, call  *)
(* stacks or deferred functions: a table of listeners with one owner at a  *)
(* time, and a stack of deliveries of the owner.  A delivery is due to the *)
(* listeners its event had when it began, whatever happens to the table    *)
(* meanwhile, and to each of them at most once.                            *)
(***************************************************************************)
EXTENDS Naturals, Sequences

CONSTANTS Threads, NoThread, Events, Listeners, NoListener, MaxDeliveries

VARIABLES
    owner,          \* who uses the table, or NoThread
    table,          \* the listeners of each event
    deliveries      \* the owner's deliveries in progress, innermost last

vars == <<owner, table, deliveries>>

Delivery == [event : Events, due : SUBSET Listeners,
             running : Listeners \cup {NoListener}]

Innermost == deliveries[Len(deliveries)]
Outer == SubSeq(deliveries, 1, Len(deliveries) - 1)

Init ==
    /\ owner = NoThread
    /\ table = [e \in Events |-> {}]
    /\ deliveries = <<>>

Acquire(t) ==
    /\ owner = NoThread
    /\ owner' = t
    /\ UNCHANGED <<table, deliveries>>

\* The owner lets go only when none of its deliveries is in progress.
Release(t) ==
    /\ owner = t
    /\ deliveries = <<>>
    /\ owner' = NoThread
    /\ UNCHANGED <<table, deliveries>>

Register(t, e, l) ==
    /\ owner = t
    /\ table' = [table EXCEPT ![e] = @ \cup {l}]
    /\ UNCHANGED <<owner, deliveries>>

Unregister(t, e, l) ==
    /\ owner = t
    /\ table' = [table EXCEPT ![e] = @ \ {l}]
    /\ UNCHANGED <<owner, deliveries>>

Begin(t, e) ==
    /\ owner = t
    /\ Len(deliveries) < MaxDeliveries
    /\ deliveries' = Append(deliveries,
                            [event |-> e, due |-> table[e], running |-> NoListener])
    /\ UNCHANGED <<owner, table>>

\* A listener is called only if it is due, and one at a time.
Deliver(t, l) ==
    /\ owner = t
    /\ deliveries # <<>>
    /\ Innermost.running = NoListener
    /\ l \in Innermost.due
    /\ deliveries' = [deliveries EXCEPT ![Len(deliveries)].due = @ \ {l},
                                       ![Len(deliveries)].running = l]
    /\ UNCHANGED <<owner, table>>

\* The listener called last may be removed once it has returned.
MayRemove(l, e) ==
    \/ UNCHANGED table
    \/ l # NoListener /\ table' = [table EXCEPT ![e] = @ \ {l}]

Return(t) ==
    /\ owner = t
    /\ deliveries # <<>>
    /\ Innermost.running # NoListener
    /\ deliveries' = [deliveries EXCEPT ![Len(deliveries)].running = NoListener]
    /\ MayRemove(Innermost.running, Innermost.event)
    /\ UNCHANGED owner

\* A delivery ends when its listeners have been called, when one of them
\* stops the propagation, which may use up its count as well, or when one
\* of them panics.
End(t) ==
    /\ owner = t
    /\ deliveries # <<>>
    /\ deliveries' = Outer
    /\ MayRemove(Innermost.running, Innermost.event)
    /\ UNCHANGED owner

Next ==
    \E t \in Threads :
        \/ Acquire(t) \/ Release(t) \/ Return(t) \/ End(t)
        \/ \E e \in Events : Begin(t, e)
        \/ \E l \in Listeners : Deliver(t, l)
        \/ \E e \in Events, l \in Listeners : Register(t, e, l) \/ Unregister(t, e, l)

Spec == Init /\ [][Next]_vars
=============================================================================
