------------------------------ MODULE RtmpCalls ------------------------------
(***************************************************************************)
(* The client side of an RTMP connection: Connect and Call give a command  *)
(* a transaction id, register its responder and send it; the reading       *)
(* goroutine hands _result and _error messages to the responder registered *)
(* under their id.  Call is used by several goroutines at once.            *)
(*                                                                         *)
(* The server answers connect with id 1, whatever the request had          *)
(* (LiveHandler, Reject), and other commands with the id of the request.   *)
(***************************************************************************)
EXTENDS Integers, FiniteSets

CONSTANTS
    Threads,        \* goroutines that make one call each
    Connector,      \* the one whose call is Connect
    HasResult,      \* those whose responder has a Result handler
    HasStatus,      \* ... and a Status handler; the others pass a nil responder
    None            \* no responder

\* The responder of Connect has no Status handler.
ASSUME CallsAssumption ==
    /\ IsFiniteSet(Threads) /\ Connector \in Threads
    /\ HasResult \cup HasStatus \subseteq Threads
    /\ Connector \in HasResult \ HasStatus
    /\ None \notin Threads

VARIABLES
    transactionID,
    responders,     \* who registered under each id (responders are never removed)
    step,           \* where each goroutine is in Connect or Call
    id,             \* the id its call was given
    requests,       \* calls on their way to the server
    replies,        \* on their way back: the id and the call they answer
    clientState,    \* readyState of the end that calls
    answered,       \* history: which call's answer each responder was given
    reported,       \* history: the calls whose answer was a NET_STATUS event
    dispatched,     \* history: the replies that were dispatched
    early           \* history: a call got its id before Connect got its own

vars == <<transactionID, responders, step, id, requests, replies, clientState, answered,
          reported, dispatched, early>>

exchange == <<requests, replies, clientState, answered, reported, dispatched>>

Ids == 1..Cardinality(Threads)

Init ==
    /\ transactionID = 0
    /\ responders = [i \in Ids |-> None]
    /\ step = [t \in Threads |-> IF t = Connector THEN "connect" ELSE "call"]
    /\ id = [t \in Threads |-> 0]
    /\ requests = {} /\ replies = {}
    /\ clientState = "initialized"
    /\ answered = [t \in Threads |-> {}] /\ reported = {} /\ dispatched = {}
    /\ early = FALSE

-----------------------------------------------------------------------------
(* Connect and Call.                                                       *)

\* me.transactionID = 0; Connect goes on unless the URL is wrong.
ResetTransaction ==
    /\ step[Connector] = "connect"
    /\ transactionID' = 0
    /\ \E next \in {"call", "failed"} : step' = [step EXCEPT ![Connector] = next]
    /\ UNCHANGED <<responders, id, exchange, early>>

\* Mutation: the id is read, not added to.
TakeIDLoads(t) ==
    /\ step[t] = "call"
    /\ id' = [id EXCEPT ![t] = transactionID + 1]
    /\ early' = (early \/ (t # Connector /\ id[Connector] = 0))
    /\ step' = [step EXCEPT ![t] = "register"]
    /\ UNCHANGED <<transactionID, responders, exchange>>

\* atomic.AddUint64
TakeID(t) ==
    /\ step[t] = "call"
    /\ transactionID' = transactionID + 1
    /\ id' = [id EXCEPT ![t] = transactionID + 1]
    /\ early' = (early \/ (t # Connector /\ id[Connector] = 0))
    /\ step' = [step EXCEPT ![t] = "register"]
    /\ UNCHANGED <<responders, exchange>>

\* A nil responder is not registered.
Register(t) ==
    /\ step[t] = "register"
    /\ responders' = IF t \in HasResult \cup HasStatus
                     THEN [responders EXCEPT ![id[t]] = t] ELSE responders
    /\ step' = [step EXCEPT ![t] = "send"]
    /\ UNCHANGED <<transactionID, id, exchange, early>>

\* sendBytes; when it fails the call returns an error and is not answered.
Send(t) ==
    /\ step[t] = "send"
    /\ step' = [step EXCEPT ![t] = "done"]
    /\ requests' = requests \cup {t}
    /\ UNCHANGED <<transactionID, responders, id, replies, clientState, answered, reported,
                   dispatched, early>>

SendFails(t) ==
    /\ step[t] = "send"
    /\ step' = [step EXCEPT ![t] = "failed"]
    /\ UNCHANGED <<transactionID, responders, id, exchange, early>>

-----------------------------------------------------------------------------
(* The server, and the reading goroutine.                                  *)

\* The answer to connect carries an info object, and so does an _error; the
\* _result of another command carries a value (the id of a stream).
Answer(t) ==
    /\ t \in requests
    /\ requests' = requests \ {t}
    /\ \E ok \in BOOLEAN :
         replies' = replies \cup
             {[id |-> IF t = Connector THEN 1 ELSE id[t], to |-> t, ok |-> ok,
               info |-> t = Connector \/ ~ok]}
    /\ UNCHANGED <<transactionID, responders, step, id, clientState, answered, reported,
                   dispatched, early>>

\* Does the responder of t have a handler for such an answer?
Handles(t, ok) == t \in IF ok THEN HasResult ELSE HasStatus

\* Mutation: an _error is not dispatched as an event.
DispatchResults(m) ==
    /\ m \in replies
    /\ replies' = replies \ {m} /\ dispatched' = dispatched \cup {m}
    /\ LET r == responders[m.id]
       IN  /\ answered' = IF r # None /\ Handles(r, m.ok)
                          THEN [answered EXCEPT ![r] = @ \cup {m.to}] ELSE answered
           /\ clientState' = IF r = Connector /\ m.ok THEN "connected" ELSE clientState
    /\ reported' = IF m.info /\ m.ok THEN reported \cup {m.to} ELSE reported
    /\ UNCHANGED <<transactionID, responders, step, id, requests, early>>

\* processCommandResult and processCommandError: the handler that fits is
\* called, when the id is registered and its responder has one; an info object
\* is dispatched as NET_STATUS to the listeners of the connection.  The Result
\* handler of Connect stores the state.
Dispatch(m) ==
    /\ m \in replies
    /\ replies' = replies \ {m} /\ dispatched' = dispatched \cup {m}
    /\ LET r == responders[m.id]
       IN  /\ answered' = IF r # None /\ Handles(r, m.ok)
                          THEN [answered EXCEPT ![r] = @ \cup {m.to}] ELSE answered
           /\ clientState' = IF r = Connector /\ m.ok THEN "connected" ELSE clientState
    /\ reported' = IF m.info THEN reported \cup {m.to} ELSE reported
    /\ UNCHANGED <<transactionID, responders, step, id, requests, early>>

-----------------------------------------------------------------------------
Call(t) == TakeID(t) \/ Register(t) \/ Send(t)

Next ==
    \/ ResetTransaction
    \/ \E t \in Threads : Call(t) \/ SendFails(t) \/ Answer(t)
    \/ \E m \in replies : Dispatch(m)

Spec == Init /\ [][Next]_vars

\* A server that answers, and goroutines that run on.
FairSpec ==
    /\ Spec /\ WF_vars(ResetTransaction)
    /\ WF_vars(\E m \in replies : Dispatch(m))
    /\ \A t \in Threads : WF_vars(Call(t)) /\ WF_vars(Answer(t))

-----------------------------------------------------------------------------
(* Properties.                                                             *)

\* When no call overtakes Connect, each responder is given the answer to its
\* own call only, however the calls interleave (Connect, Call,
\* processCommandResult): no two calls get one id, and connect gets id 1.
AnswersReachTheirCall ==
    ~early => \A t \in Threads : answered[t] \subseteq {t}

\* ... and no answer is lost: the responder is registered before the server
\* can answer, and an answer its responder has no handler for, as that of
\* Connect has none for an _error, is still told as a NET_STATUS event; only
\* a value nobody asked for is dropped.
CallsAreAnswered ==
    \A t \in Threads : t \in requests ~>
        \E m \in dispatched :
            /\ m.to = t
            /\ IF Handles(t, m.ok) THEN t \in answered[t] \/ early
                                   ELSE t \in reported \/ ~m.info
=============================================================================
