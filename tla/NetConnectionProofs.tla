-------------------------- MODULE NetConnectionProofs --------------------------
(***************************************************************************)
(* What NetConnection promises to the other end: for a counter of any      *)
(* width and any windows that leave room for one Read below that width, a  *)
(* peer always gets its acknowledgements; however the calls of a           *)
(* connection interleave, no responder is given the answer to another      *)
(* call, as long as no call overtakes Connect; and messages cut into       *)
(* chunks one after the other arrive whole, in order and as they were      *)
(* sent, whatever their headers and sizes.  And how a connection ends, for *)
(* any goroutines that close it and any messages: closed for good; and,    *)
(* when only its own goroutine closes it, with one CLOSE event for each    *)
(* Accept and its streams closed.                                          *)
(***************************************************************************)
EXTENDS AckWindow, RtmpCalls, ChunkStream, RtmpSession, FiniteSetTheorems, SequenceTheorems, TLAPS

-----------------------------------------------------------------------------
(* The acknowledgement window.                                             *)

\* The invariant: both properties hold each other up.  That few bytes are
\* outstanding keeps the counter from passing a whole turn beyond the last
\* acknowledgement, so the difference counts them; and that the difference
\* counts them makes the check of read keep them few.
AckInv == AckTypeOK /\ AckedInTime /\ CountsOutstanding

\* What the constants say, for each window.
LEMMA WindowFits ==
    ASSUME NEW v \in Windows
    PROVE  v \in Nat /\ v + MaxRead < W
BY AckAssumption

\* The unsigned addition and subtraction stay in range, and n more bytes are
\* n more outstanding, as long as less than a turn is.
LEMMA Wraps ==
    ASSUME NEW a \in 0..(W - 1), NEW b \in 0..(W - 1), NEW n \in Nat, n < W
    PROVE  /\ Add(a, n) \in 0..(W - 1)
           /\ Sub(a, b) \in 0..(W - 1)
           /\ Sub(a, a) = 0
           /\ Sub(a, b) + n < W => Sub(Add(a, n), b) = Sub(a, b) + n
BY AckAssumption DEF Add, Sub

\* The counters start without anything outstanding.
LEMMA AckInvInit == AckInit => AckInv
<1> SUFFICES ASSUME AckInit PROVE AckInv
    OBVIOUS
<1>1. Default \in Windows /\ W \in Nat /\ MaxRead \in Nat \ {0}
    BY AckAssumption
<1>2. Default \in Nat /\ Default + MaxRead < W
    BY <1>1, WindowFits
<1>3. AckTypeOK
    BY <1>1, <1>2 DEF AckInit, AckTypeOK
<1>4. AckedInTime
    BY DEF AckInit, AckedInTime
<1>5. CountsOutstanding
    BY DEF AckInit, CountsOutstanding, Sub
<1> QED BY <1>3, <1>4, <1>5 DEF AckInv

\* One Read of n bytes: what is outstanding before its check.
LEMMA ReceiveStep ==
    ASSUME AckInv, NEW n \in 1..MaxRead, Receive(n)
    PROVE  /\ reading /\ n \in Nat /\ bytesIn' \in 0..(W - 1)
           /\ farAckWindowSize' = farAckWindowSize /\ farAckWindowSize \in Nat
           /\ window' = farAckWindowSize /\ window' \in Windows
           /\ Sub(bytesIn', lastAckWindowSize) = unacked + n
<1>1. W \in Nat /\ MaxRead \in Nat \ {0} /\ n \in Nat /\ n <= MaxRead
    BY AckAssumption
<1>2. window \in Nat /\ window + MaxRead < W
    BY WindowFits DEF AckInv, AckTypeOK
<1>3. reading /\ bytesIn' = Add(bytesIn, n)
    BY DEF Receive
<1>4. bytesIn \in 0..(W - 1) /\ lastAckWindowSize \in 0..(W - 1) /\ unacked \in Nat
    BY DEF AckInv, AckTypeOK
<1>5. unacked = 0 \/ unacked < window
    BY <1>3 DEF AckInv, AckedInTime
<1>6. Default \in Nat /\ Default + MaxRead < W
    BY WindowFits, AckAssumption
<1>7. unacked + n < W /\ n < W
    BY <1>1, <1>2, <1>4, <1>5, <1>6
<1>8. Sub(bytesIn, lastAckWindowSize) = unacked
    BY <1>3 DEF AckInv, CountsOutstanding
<1>9. bytesIn' \in 0..(W - 1) /\ Sub(bytesIn', lastAckWindowSize) = unacked + n
    BY <1>1, <1>3, <1>4, <1>7, <1>8, Wraps
<1>10. farAckWindowSize \in Windows
    BY DEF AckInv, AckTypeOK
<1>11. window' = farAckWindowSize /\ farAckWindowSize' = farAckWindowSize
    BY DEF Receive
<1> QED
    BY <1>1, <1>3, <1>9, <1>10, <1>11, WindowFits

\* Every step keeps the invariant of the acknowledgements.
LEMMA AckInvStep == AckInv /\ [AckNext]_ackVars => AckInv'
<1> SUFFICES ASSUME AckInv, [AckNext]_ackVars PROVE AckInv'
    OBVIOUS
<1>1. ASSUME NEW n \in 1..MaxRead, Read(n) PROVE AckInv'
  <2>1. Receive(n) BY <1>1 DEF Read
  <2>2. AckTypeOK'
    BY <1>1, <2>1, ReceiveStep DEF Read, AckInv, AckTypeOK
  <2>3. AckedInTime' /\ CountsOutstanding'
    BY <1>1, <2>1, ReceiveStep DEF Read, AckedInTime, CountsOutstanding
  <2> QED BY <2>2, <2>3 DEF AckInv
<1>2. ASSUME NEW n \in 1..MaxRead, Acknowledge(n) PROVE AckInv'
  <2>1. Receive(n) BY <1>2 DEF Acknowledge
  <2>2. AckTypeOK'
    BY <1>2, <2>1, ReceiveStep DEF Acknowledge, AckInv, AckTypeOK
  <2>3. AckedInTime' /\ CountsOutstanding'
    BY <1>2, <2>1, ReceiveStep, AckAssumption
       DEF Acknowledge, AckedInTime, CountsOutstanding, Sub
  <2> QED BY <2>2, <2>3 DEF AckInv
<1>3. ASSUME NEW n \in 1..MaxRead, AckFails(n) PROVE AckInv'
  <2>1. Receive(n) BY <1>3 DEF AckFails
  <2>2. /\ reading' = FALSE /\ unacked' = unacked + n
        /\ lastAckWindowSize' = lastAckWindowSize
    BY <1>3 DEF AckFails
  <2>5. reading' \in BOOLEAN
    BY <2>2
  <2>6. unacked' \in Nat /\ lastAckWindowSize' \in 0..(W - 1)
    BY <2>1, <2>2, ReceiveStep DEF AckInv, AckTypeOK
  <2>7. farAckWindowSize' \in Windows /\ window' \in Windows /\ bytesIn' \in 0..(W - 1)
    BY <2>1, ReceiveStep DEF AckInv, AckTypeOK
  <2>4. AckTypeOK'
    BY <2>5, <2>6, <2>7 DEF AckTypeOK
  <2>3. AckedInTime' /\ CountsOutstanding'
    BY <1>3 DEF AckFails, AckedInTime, CountsOutstanding
  <2> QED BY <2>4, <2>3 DEF AckInv
<1>4. ASSUME NEW v \in Windows, SetWindow(v) PROVE AckInv'
    BY <1>4 DEF SetWindow, AckInv, AckTypeOK, AckedInTime, CountsOutstanding
<1>5. CASE UNCHANGED ackVars
    BY <1>5 DEF ackVars, AckInv, AckTypeOK, AckedInTime, CountsOutstanding
<1> QED BY <1>1, <1>2, <1>3, <1>4, <1>5 DEF AckNext

\* The invariant of the acknowledgements.
LEMMA AckInvariance == AckSpec => []AckInv
BY AckInvInit, AckInvStep, PTL DEF AckSpec

\* As long as the connection is read, fewer bytes are outstanding than the
\* window the last check went by (read).
THEOREM AcksAreInTime == AckSpec => []AckedInTime
<1>1. AckInv => AckedInTime BY DEF AckInv
<1> QED BY <1>1, AckInvariance, PTL

\* The difference of the wrapping counters is the number of outstanding bytes.
THEOREM CountersCount == AckSpec => []CountsOutstanding
<1>1. AckInv => CountsOutstanding BY DEF AckInv
<1> QED BY <1>1, AckInvariance, PTL

\* The counters stay within their width.
THEOREM AckTypeCorrect == AckSpec => []AckTypeOK
<1>1. AckInv => AckTypeOK BY DEF AckInv
<1> QED BY <1>1, AckInvariance, PTL

-----------------------------------------------------------------------------
(* Calls.  The ids must stay different and inside the table, and the one   *)
(* of Connect must be 1, which is what the server answers it with.         *)

\* The calls that have an id.
Taken == {t \in Threads : id[t] # 0}

TypesOK ==
    /\ transactionID \in Nat
    /\ responders \in [Ids -> Threads \cup {None}]
    /\ step \in [Threads -> {"connect", "call", "register", "send", "done", "failed"}]
    /\ id \in [Threads -> Nat]
    /\ requests \subseteq Threads
    /\ replies \subseteq [id : Nat, to : Threads, ok : BOOLEAN, info : BOOLEAN]
    /\ answered \in [Threads -> SUBSET Threads]

\* Ids are given in order, one to each call, and the first one to Connect.
IdsOK ==
    /\ transactionID = Cardinality(Taken)
    /\ \A t \in Threads : id[t] =< transactionID
    /\ \A t, u \in Taken : id[t] = id[u] => t = u
    /\ \A t \in Threads : step[t] \in {"connect", "call"} => id[t] = 0
    /\ \A t \in Threads : step[t] \in {"register", "send", "done"} => id[t] # 0
    /\ id[Connector] = 0 => Taken = {}
    /\ id[Connector] \in {0, 1}

\* What is registered and what is on the wire belongs to the call that has
\* the id.
RoutesOK ==
    /\ \A i \in Ids : responders[i] # None => id[responders[i]] = i
    /\ \A t \in requests : id[t] # 0
    /\ \A m \in replies : m.id # 0 /\ m.id = id[m.to]
    /\ \A t \in Threads : answered[t] \subseteq {t}

CallsInv == ~early => TypesOK /\ IdsOK /\ RoutesOK

\* Every id that was given is one of the table.
LEMMA IdsInTable ==
    ASSUME TypesOK, IdsOK
    PROVE  \A t \in Taken : id[t] \in Ids
<1>1. IsFiniteSet(Threads) /\ Taken \subseteq Threads
    BY CallsAssumption DEF CallsAssumption, Taken
<1>2. transactionID =< Cardinality(Threads) /\ Cardinality(Threads) \in Nat
    BY <1>1, FS_Subset, FS_CardinalityType DEF IdsOK
<1> QED
    BY <1>2 DEF TypesOK, IdsOK, Ids, Taken

\* No id is given at first.
LEMMA CallsInit == Init => CallsInv
<1> SUFFICES ASSUME Init PROVE TypesOK /\ IdsOK /\ RoutesOK
    BY DEF CallsInv
<1>1. Taken = {} /\ Cardinality({}) = 0
    BY FS_EmptySet DEF Init, Taken
<1>2. TypesOK
    BY DEF Init, TypesOK
<1>3. IdsOK
    BY <1>1, CallsAssumption DEF Init, IdsOK, CallsAssumption
<1> QED
    BY <1>2, <1>3 DEF Init, RoutesOK

\* Connect resets the counter: no other call has an id yet.
LEMMA ResetStep ==
    ASSUME TypesOK, IdsOK, RoutesOK, ResetTransaction
    PROVE  TypesOK' /\ IdsOK' /\ RoutesOK'
<1>1. id[Connector] = 0 /\ Connector \in Threads
    BY CallsAssumption DEF exchange, ResetTransaction, IdsOK, CallsAssumption
<1>2. Taken = {} /\ transactionID = 0 /\ Taken' = Taken /\ id' = id
    BY <1>1, FS_EmptySet DEF IdsOK, ResetTransaction, Taken
<1>3. /\ transactionID' = transactionID
      /\ \E next \in {"call", "failed"} : step' = [step EXCEPT ![Connector] = next]
    BY <1>2 DEF exchange, ResetTransaction
<1>4. TypesOK'
    BY <1>3 DEF TypesOK, exchange, ResetTransaction
<1>5. IdsOK'
    BY <1>1, <1>2, <1>3 DEF TypesOK, IdsOK, exchange, ResetTransaction
<1> QED
    BY <1>4, <1>5 DEF RoutesOK, exchange, ResetTransaction

\* A call takes an id that no other has.
LEMMA TakeStep ==
    ASSUME TypesOK, IdsOK, RoutesOK, NEW t \in Threads, TakeID(t), ~early'
    PROVE  TypesOK' /\ IdsOK' /\ RoutesOK'
<1>1. /\ step[t] = "call" /\ id[t] = 0 /\ t \notin Taken
      /\ transactionID' = transactionID + 1
      /\ id' = [id EXCEPT ![t] = transactionID + 1]
      /\ step' = [step EXCEPT ![t] = "register"]
      /\ UNCHANGED <<responders, requests, replies, answered>>
    BY DEF TakeID, exchange, IdsOK, Taken
<1>2. t = Connector \/ id[Connector] # 0
    BY DEF TakeID
<1>3. Taken' = Taken \cup {t}
    BY <1>1 DEF Taken, TypesOK
<1>4. IsFiniteSet(Threads) /\ Connector \in Threads
    BY CallsAssumption DEF CallsAssumption
<1>5. Taken \subseteq Threads
    BY DEF Taken
<1>6. IsFiniteSet(Taken) /\ Cardinality(Taken') = Cardinality(Taken) + 1
    BY <1>1, <1>3, <1>4, <1>5, FS_Subset, FS_AddElement
<1>7. TypesOK'
    BY <1>1 DEF TypesOK
<1>8. IdsOK'
    <2>1. transactionID' = Cardinality(Taken')
        BY <1>1, <1>6 DEF IdsOK
    <2>2. \A u \in Threads : id'[u] =< transactionID'
        BY <1>1 DEF IdsOK, TypesOK
    <2>3. ASSUME NEW u \in Taken', NEW v \in Taken', id'[u] = id'[v]
          PROVE  u = v
        BY <1>1, <1>3, <1>5, <2>3 DEF IdsOK, TypesOK
    <2>4. \A u \in Threads : /\ step'[u] \in {"connect", "call"} => id'[u] = 0
                             /\ step'[u] \in {"register", "send", "done"} => id'[u] # 0
        BY <1>1 DEF IdsOK, TypesOK
    <2>5. id'[Connector] # 0 /\ id'[Connector] \in {0, 1}
        <3>1. CASE t = Connector
            <4>1. transactionID = 0
                BY <1>1, <3>1, FS_EmptySet DEF IdsOK
            <4> QED
                BY <1>1, <1>4, <3>1, <4>1 DEF TypesOK
        <3>2. CASE t # Connector
            BY <1>1, <1>2, <1>4, <3>2 DEF IdsOK, TypesOK
        <3> QED
            BY <3>1, <3>2
    <2> QED
        BY <2>1, <2>2, <2>3, <2>4, <2>5 DEF IdsOK
<1>9. RoutesOK'
    BY <1>1 DEF RoutesOK, TypesOK, Ids
<1> QED
    BY <1>7, <1>8, <1>9

\* A responder is registered under the id of its own call.
LEMMA RegisterStep ==
    ASSUME TypesOK, IdsOK, RoutesOK, NEW t \in Threads, Register(t)
    PROVE  TypesOK' /\ IdsOK' /\ RoutesOK'
<1>1. /\ step[t] = "register" /\ id[t] # 0 /\ t \in Taken
      /\ responders' = responders \/ responders' = [responders EXCEPT ![id[t]] = t]
      /\ step' = [step EXCEPT ![t] = "send"]
      /\ UNCHANGED <<transactionID, id, requests, replies, answered>>
    BY DEF Register, exchange, IdsOK, Taken
<1>2. id[t] \in Ids /\ Taken' = Taken
    BY <1>1, IdsInTable DEF Taken
<1>3. TypesOK'
    BY <1>1, <1>2 DEF TypesOK
<1>4. IdsOK'
    BY <1>1, <1>2 DEF IdsOK, TypesOK
<1>5. RoutesOK'
    BY <1>1, <1>2 DEF RoutesOK, TypesOK
<1> QED
    BY <1>3, <1>4, <1>5

\* A call is sent under its own id.
LEMMA SendStep ==
    ASSUME TypesOK, IdsOK, RoutesOK, NEW t \in Threads, Send(t) \/ SendFails(t)
    PROVE  TypesOK' /\ IdsOK' /\ RoutesOK'
<1>1. /\ step[t] = "send" /\ id[t] # 0
      /\ step' = [step EXCEPT ![t] = "done"] \/ step' = [step EXCEPT ![t] = "failed"]
      /\ requests' \subseteq requests \cup {t}
      /\ UNCHANGED <<transactionID, responders, id, replies, answered>>
    BY DEF Send, SendFails, exchange, IdsOK
<1>2. Taken' = Taken
    BY <1>1 DEF Taken
<1>3. TypesOK'
    BY <1>1 DEF TypesOK
<1>4. IdsOK'
    BY <1>1, <1>2 DEF IdsOK, TypesOK
<1>5. RoutesOK'
    BY <1>1 DEF RoutesOK, TypesOK
<1> QED
    BY <1>3, <1>4, <1>5

\* The server answers under the id it was sent.
LEMMA AnswerStep ==
    ASSUME TypesOK, IdsOK, RoutesOK, NEW t \in Threads, Answer(t)
    PROVE  TypesOK' /\ IdsOK' /\ RoutesOK'
<1>1. PICK ok \in BOOLEAN :
        replies' = replies \cup
            {[id |-> IF t = Connector THEN 1 ELSE id[t], to |-> t, ok |-> ok,
              info |-> t = Connector \/ ~ok]}
    BY DEF Answer
<1>2. /\ t \in requests /\ id[t] # 0
      /\ UNCHANGED <<transactionID, responders, step, id, answered>>
      /\ requests' \subseteq requests
    BY DEF Answer, RoutesOK
\* The id of Connect is the one the server answers with.
<1>3. id[t] = (IF t = Connector THEN 1 ELSE id[t])
    BY <1>2 DEF IdsOK
<1>4. /\ replies' = replies \cup {[id |-> id[t], to |-> t, ok |-> ok,
                                     info |-> t = Connector \/ ~ok]}
      /\ id[t] \in Nat /\ (t = Connector \/ ~ok) \in BOOLEAN
    BY <1>1, <1>3 DEF TypesOK
<1>5. Taken' = Taken
    BY <1>2 DEF Taken
<1> DEFINE m == [id |-> id[t], to |-> t, ok |-> ok, info |-> t = Connector \/ ~ok]
<1>9. /\ m \in [id : Nat, to : Threads, ok : BOOLEAN, info : BOOLEAN]
      /\ m.id = id[t] /\ m.to = t
    BY <1>4
<1>10. replies' = replies \cup {m}
    BY <1>4
<1> HIDE DEF m
<1>6. TypesOK'
    BY <1>2, <1>9, <1>10 DEF TypesOK
<1>7. IdsOK'
    BY <1>2, <1>5 DEF IdsOK
<1>8. RoutesOK'
    BY <1>2, <1>9, <1>10 DEF RoutesOK
<1> QED
    BY <1>6, <1>7, <1>8

\* An answer goes to the responder registered under its id.
LEMMA DispatchStep ==
    ASSUME TypesOK, IdsOK, RoutesOK, NEW m \in replies, Dispatch(m)
    PROVE  TypesOK' /\ IdsOK' /\ RoutesOK'
<1> DEFINE r == responders[m.id]
<1>0. m \in [id : Nat, to : Threads, ok : BOOLEAN, info : BOOLEAN]
    BY DEF TypesOK
<1>10. m.to \in Taken /\ m.id = id[m.to]
    BY <1>0 DEF RoutesOK, Taken
<1>1. /\ m.to \in Taken /\ m.id = id[m.to]
      /\ replies' \subseteq replies
      /\ \/ answered' = answered
         \/ r # None /\ answered' = [answered EXCEPT ![r] = @ \cup {m.to}]
      /\ UNCHANGED <<transactionID, responders, step, id, requests>>
    BY <1>10 DEF Dispatch
<1>2. m.id \in Ids /\ r \in Threads \cup {None}
    BY <1>1, IdsInTable DEF TypesOK
\* The responder registered under an id is the one of the call that has it.
<1>3. r # None => r = m.to
    <2> SUFFICES ASSUME r # None PROVE r = m.to
        OBVIOUS
    <2>1. r \in Threads /\ id[r] = m.id /\ m.id # 0
        BY <1>1, <1>2 DEF RoutesOK
    <2> QED
        BY <1>1, <2>1 DEF IdsOK, Taken
<1>4. Taken' = Taken
    BY <1>1 DEF Taken
<1> HIDE DEF r
<1>5. m.to \in Threads
    BY <1>1 DEF Taken
<1>6. answered' \in [Threads -> SUBSET Threads] /\ \A t \in Threads : answered'[t] \subseteq {t}
    BY <1>1, <1>3, <1>5 DEF TypesOK, RoutesOK
<1>7. TypesOK'
    BY <1>1, <1>6 DEF TypesOK
<1>8. IdsOK'
    BY <1>1, <1>4 DEF IdsOK
<1>9. RoutesOK'
    BY <1>1, <1>6 DEF RoutesOK
<1> QED
    BY <1>7, <1>8, <1>9

\* Every step keeps the invariant of the calls.
LEMMA CallsStep == CallsInv /\ [Next]_vars => CallsInv'
<1> SUFFICES ASSUME CallsInv, [Next]_vars, ~early'
             PROVE  TypesOK' /\ IdsOK' /\ RoutesOK'
    BY DEF CallsInv
<1>1. ~early
    BY DEF Next, Call, ResetTransaction, TakeID, Register, Send, SendFails, Answer,
           Dispatch, vars
<1>2. TypesOK /\ IdsOK /\ RoutesOK
    BY <1>1 DEF CallsInv
<1>3. CASE UNCHANGED vars
    BY <1>2, <1>3 DEF vars, TypesOK, IdsOK, RoutesOK, Taken
<1>4. CASE ResetTransaction
    BY <1>2, <1>4, ResetStep
<1>5. ASSUME NEW t \in Threads, Call(t) \/ SendFails(t) \/ Answer(t)
      PROVE  TypesOK' /\ IdsOK' /\ RoutesOK'
    BY <1>2, <1>5, TakeStep, RegisterStep, SendStep, AnswerStep DEF Call
<1>6. ASSUME NEW m \in replies, Dispatch(m)
      PROVE  TypesOK' /\ IdsOK' /\ RoutesOK'
    BY <1>2, <1>6, DispatchStep
<1> QED
    BY <1>3, <1>4, <1>5, <1>6 DEF Next

\* For any number of calls in flight, and whatever order the server answers
\* them in, a responder is given the answer to its own call only.
THEOREM AnswersAreRouted == Spec => []AnswersReachTheirCall
<1>1. CallsInv => AnswersReachTheirCall
    BY DEF CallsInv, RoutesOK, AnswersReachTheirCall
<1> QED
    BY <1>1, CallsInit, CallsStep, PTL DEF Spec

-----------------------------------------------------------------------------
(* The chunk stream.  Behind the tokens in flight there is a history of     *)
(* messages, each with what its chunk stream had sent before it and the    *)
(* chunk size it went by, and a place in that history for every token, for *)
(* the receiver (the place of the next token) and for the sender (that of  *)
(* the token it will write next).                                          *)

Streams == CSIDs \cup {Control}
Sizes == ChunkSizes \cup {FirstChunkSize}
SentHeader == {h \in Header : h.length # 0}

Message == [csid : Streams, header : SentHeader, id : Writers \X Nat, arg : Sizes,
            known : [Streams -> Header \cup {NoHeader}], size : Sizes]

\* What both ends know, and the chunk size they go by, after message g.
After(g) == [g.known EXCEPT ![g.csid] = g.header]
SizeAfter(g) == IF g.header.type = "setChunkSize" THEN g.arg ELSE g.size

\* The same before message m of history G.
KnownAt(G, m) == IF m = 1 THEN [c \in Streams |-> NoHeader] ELSE After(G[m - 1])
SizeAt(G, m) == IF m = 1 THEN FirstChunkSize ELSE SizeAfter(G[m - 1])

History(G) ==
    \A m \in 1..Len(G) : G[m].known = KnownAt(G, m) /\ G[m].size = SizeAt(G, m)

FirstFormat(g) == Format(g.known[g.csid], g.header)
Whole(g) == [header |-> g.header,
             payload |-> [k \in 1..g.header.length |-> Byte(g.id, g.arg, k)]]

\* A place in message m: behind b bytes, which are k full chunks and o bytes,
\* at the header of a chunk or at a byte.
Place == [m : Nat, b : Nat, k : Nat, o : Nat, head : BOOLEAN]

InMessage(g, p) ==
    /\ p.b < g.header.length /\ p.o < g.size /\ p.b = p.k * g.size + p.o

Sensible(G, p) ==
    /\ p.m \in 1..(Len(G) + 1) /\ p.m =< Len(sent) + 1
    /\ p.head => p.o = 0
    /\ p.m = Len(G) + 1 => p.b = 0 /\ p.k = 0 /\ p.head
    /\ p.m # Len(G) + 1 => InMessage(G[p.m], p)

Token(g, p) ==
    IF p.head THEN ChunkHeader(g.csid, IF p.b = 0 THEN FirstFormat(g) ELSE 3, g.header)
              ELSE Byte(g.id, g.arg, p.b + 1)

Tokens == {Token(g, p) : g \in Message, p \in Place}

\* The place behind place p of message g.
Successor(g, p) ==
    IF p.head THEN [p EXCEPT !.head = FALSE]
    ELSE IF p.b + 1 = g.header.length
         THEN [m |-> p.m + 1, b |-> 0, k |-> 0, o |-> 0, head |-> TRUE]
    ELSE IF p.o + 1 = g.size
         THEN [m |-> p.m, b |-> p.b + 1, k |-> p.k + 1, o |-> 0, head |-> TRUE]
    ELSE [m |-> p.m, b |-> p.b + 1, k |-> p.k, o |-> p.o + 1, head |-> FALSE]

WireOK(G, q) ==
    /\ wire \in Seq(Tokens)
    /\ q \in [1..(Len(wire) + 1) -> Place]
    /\ \A p \in 1..(Len(wire) + 1) : Sensible(G, q[p])
    /\ \A p \in 1..Len(wire) :
          /\ q[p].m # Len(G) + 1
          /\ wire[p] = Token(G[q[p].m], q[p])
          /\ q[p + 1] = Successor(G[q[p].m], q[p])

\* The receiver at place p.
ReceiverOK(G, p) ==
    /\ ~broken
    /\ delivered \in Seq({Whole(g) : g \in Message}) /\ Len(delivered) = p.m - 1
    /\ \A i \in 1..Len(delivered) : delivered[i] = Whole(G[i])
    /\ messages = KnownAt(G, p.m) /\ farChunkSize = SizeAt(G, p.m)
    /\ expect = IF p.head THEN "header" ELSE "data"
    /\ message \in [header : Header \cup {EmptyHeader}, buffer : Seq(Tokens)]
    /\ Len(message.buffer) = p.b
    /\ \A k \in 1..p.b : message.buffer[k] = Byte(G[p.m].id, G[p.m].arg, k)
    /\ p.head /\ p.b = 0 => aliases = {} /\ message.header = EmptyHeader
    /\ ~(p.head /\ p.b = 0) =>
          aliases = {G[p.m].csid} /\ message.header = G[p.m].header

\* A writer that has written some of its message.
Active(w) == job[w] # NoJob /\ job[w].i > 0

\* A writer that has written nothing has compressed its header against what
\* the other end will know; one that has is writing the last message.
JobOK(G, p, w) ==
    /\ job[w] \in Job /\ job[w].header \in SentHeader /\ job[w].i =< job[w].header.length
    /\ headersOut[job[w].csid] = job[w].header
    /\ job[w].i = 0 =>
          job[w].fmt = Format(KnownAt(G, Len(G) + 1)[job[w].csid], job[w].header)
    /\ job[w].i > 0 =>
          /\ Len(G) > 0
          /\ G[Len(G)].csid = job[w].csid /\ G[Len(G)].header = job[w].header
          /\ G[Len(G)].id = job[w].id /\ G[Len(G)].arg = job[w].arg
          /\ job[w].fmt = 3 /\ nearChunkSize = G[Len(G)].size
          /\ job[w].i # job[w].header.length => p.m = Len(G) /\ p.b = job[w].i
          /\ job[w].i = job[w].header.length => p.m = Len(G) + 1

\* The sender at place p.
SenderOK(G, p) ==
    /\ p.head /\ p.m = Len(sent) + 1
    /\ sent \in Seq({Whole(g) : g \in Message})
    /\ \A i \in 1..Len(sent) : sent[i] = Whole(G[i])
    /\ started \in [Writers -> Nat]
    /\ job \in [Writers -> Job \cup {NoJob}]
    /\ headersOut \in [Streams -> Header \cup {NoHeader}]
    /\ nearChunkSize \in Sizes
    /\ \A w \in Writers : job[w] # NoJob => JobOK(G, p, w)
    /\ \A w, u \in Sending : w # u => job[w].csid # job[u].csid
    /\ \A w, u \in Writers : Active(w) /\ Active(u) => w = u
    /\ p.m # Len(G) + 1 => \E w \in Writers : Active(w)
    /\ (\A w \in Writers : ~Active(w)) => nearChunkSize = SizeAt(G, Len(G) + 1)
    /\ \A c \in Streams : (\A w \in Sending : job[w].i = 0 => job[w].csid # c) =>
          headersOut[c] = KnownAt(G, Len(G) + 1)[c]

Along(G, q, last) ==
    /\ G \in Seq(Message) /\ History(G)
    /\ WireOK(G, q) /\ last = q[Len(wire) + 1]
    /\ ReceiverOK(G, q[1])
    /\ SenderOK(G, last)

ChunkInv == ~mixed => \E G, q, last : Along(G, q, last)

-----------------------------------------------------------------------------
(* Sequences and chunks.                                                   *)

\* What Head and Tail take of a sequence.
LEMMA FirstAndRest ==
    ASSUME NEW S, NEW s \in Seq(S), s # <<>>
    PROVE  /\ Head(s) = s[1] /\ Head(s) \in S /\ Tail(s) \in Seq(S)
           /\ Len(s) \in Nat \ {0} /\ Len(Tail(s)) = Len(s) - 1
           /\ \A i \in 1..(Len(s) - 1) : Tail(s)[i] = s[i + 1]
BY HeadTailProperties, EmptySeq

\* What Append makes of a sequence.
LEMMA OneMore ==
    ASSUME NEW S, NEW s \in Seq(S), NEW a \in S
    PROVE  /\ Append(s, a) \in Seq(S) /\ Len(Append(s, a)) = Len(s) + 1 /\ Len(s) \in Nat
           /\ \A i \in 1..Len(s) : Append(s, a)[i] = s[i]
           /\ Append(s, a)[Len(s) + 1] = a
BY AppendProperties

\* A sequence of one element.
LEMMA Single ==
    ASSUME NEW S, NEW a \in S
    PROVE  <<a>> \in Seq(S) /\ Len(<<a>>) = 1 /\ <<a>>[1] = a
OBVIOUS

\* What u is, the sequence s with t behind it.
LEMMA OneBehindTheOther ==
    ASSUME NEW S, NEW s \in Seq(S), NEW t \in Seq(S), NEW u, u = s \o t
    PROVE  /\ u \in Seq(S) /\ Len(u) = Len(s) + Len(t) /\ Len(s) \in Nat
           /\ \A i \in 1..Len(s) : u[i] = s[i]
           /\ \A i \in 1..Len(t) : u[Len(s) + i] = t[i]
OBVIOUS

\* A chunk header and n bytes behind what is on the wire.
LEMMA ChunkAdded ==
    ASSUME NEW S, NEW s \in Seq(S), NEW h \in S, NEW n \in Nat, NEW d \in [1..n -> S]
    PROVE  /\ s \o <<h>> \o d \in Seq(S) /\ Len(s \o <<h>> \o d) = Len(s) + 1 + n
           /\ \A p \in 1..Len(s) : (s \o <<h>> \o d)[p] = s[p]
           /\ (s \o <<h>> \o d)[Len(s) + 1] = h
           /\ \A k \in 1..n : (s \o <<h>> \o d)[Len(s) + 1 + k] = d[k]
<1>1. PICK t \in Seq(S) : t = <<h>> /\ Len(t) = 1 /\ t[1] = h
    BY Single, Zenon
<1>2. PICK e \in Seq(S) : e = d /\ Len(e) = n
    OBVIOUS
<1>3. PICK x : x = s \o t
    OBVIOUS
<1>4. /\ x \in Seq(S) /\ Len(x) = Len(s) + Len(t) /\ Len(s) \in Nat
      /\ \A i \in 1..Len(s) : x[i] = s[i]
      /\ \A i \in 1..Len(t) : x[Len(s) + i] = t[i]
    BY <1>3, OneBehindTheOther
<1>5. PICK u \in Seq(S) : u = x
    BY <1>4
<1>6. PICK v : v = u \o e
    OBVIOUS
<1>7. /\ v \in Seq(S) /\ Len(v) = Len(u) + Len(e) /\ Len(u) \in Nat
      /\ \A p \in 1..Len(u) : v[p] = u[p]
      /\ \A k \in 1..Len(e) : v[Len(u) + k] = e[k]
    BY <1>6, OneBehindTheOther
<1>8. s \o <<h>> \o d = v
    BY <1>1, <1>2, <1>3, <1>5, <1>6
<1>9. \A p \in 1..Len(s) : p \in 1..Len(u) /\ v[p] = s[p]
    BY <1>1, <1>4, <1>5, <1>7
<1>10. Len(s) + 1 \in 1..Len(u) /\ v[Len(s) + 1] = h /\ Len(u) = Len(s) + 1
    BY <1>1, <1>4, <1>5, <1>7
<1> QED
    BY <1>2, <1>7, <1>8, <1>9, <1>10

\* b bytes that fill k chunks and o bytes of another: with one byte more the
\* chunk is full if it was the last.
LEMMA ChunkIsFull ==
    ASSUME NEW size \in Nat \ {0}, NEW k \in Nat, NEW o \in Nat, o < size
    PROVE  (k * size + o + 1) % size = 0 <=> o + 1 = size
<1> DEFINE b == k * size + o + 1
           x == b \div size
           r == b % size
<1>1. k * size \in Nat /\ b \in Nat
    OBVIOUS
<1>2. x \in Nat /\ r \in 0..(size - 1) /\ b = size * x + r
    BY <1>1
<1> HIDE DEF x, r
<1>3. x * size = size * x /\ (k + 1) * size = k * size + size
    BY <1>2
<1>4. ASSUME NEW u \in Nat, NEW v \in Nat, u < v PROVE u * size + size =< v * size
    <2>1. PICK w \in Nat : v = u + 1 + w
        <3>1. v - u - 1 \in Nat /\ v = u + 1 + (v - u - 1)
            BY <1>4
        <3> QED
            BY <3>1
    <2>2. v * size = u * size + size + w * size /\ w * size \in Nat
        BY <2>1
    <2>3. u * size \in Nat /\ v * size \in Nat
        OBVIOUS
    <2> QED
        BY <2>2, <2>3
<1>5. CASE o + 1 = size
    <2>1. b = (k + 1) * size
        BY <1>3, <1>5
    <2>2. ~(x < k + 1)
        <3>1. x < k + 1 => x * size + size =< (k + 1) * size
            BY <1>2, <1>4
        <3> QED
            BY <1>1, <1>2, <1>3, <2>1, <3>1
    <2>3. ~(k + 1 < x)
        <3>1. k + 1 < x => (k + 1) * size + size =< x * size
            BY <1>2, <1>4
        <3> QED
            BY <1>1, <1>2, <1>3, <2>1, <3>1
    <2>4. x = k + 1
        BY <1>2, <2>2, <2>3
    <2>5. r = 0
        BY <1>1, <1>2, <1>3, <2>1, <2>4
    <2> QED
        BY <1>5, <2>5 DEF r
<1>6. CASE o + 1 # size
    <2>1. r # 0
        <3>1. x < k + 1 \/ k + 1 = x \/ k + 1 < x
            BY <1>2
        <3>2. CASE x < k + 1
            <4>1. x < k => x * size + size =< k * size
                BY <1>2, <1>4
            <4>2. x = k \/ x < k
                BY <1>2, <3>2
            <4> QED
                BY <1>1, <1>2, <1>3, <4>1, <4>2
        <3>3. CASE k + 1 = x
            BY <1>1, <1>2, <1>3, <1>6, <3>3
        <3>4. CASE k + 1 < x
            <4>1. (k + 1) * size + size =< x * size
                BY <1>2, <1>4, <3>4
            <4> QED
                BY <1>1, <1>2, <1>3, <4>1
        <3> QED
            BY <3>1, <3>2, <3>3, <3>4
    <2> QED
        BY <1>6, <2>1 DEF r
<1> QED
    BY <1>5, <1>6

\* Of the places of N tokens, the header of a chunk and its n bytes, and of
\* the one behind.
LEMMA Positions ==
    ASSUME NEW N \in Nat, NEW n \in Nat \ {0}
    PROVE  /\ \A x \in 1..(N + 1 + n + 1) :
                  x \in 1..(N + 1) \/ (\E j \in 1..n : x = N + 1 + j) \/ x = N + 1 + n + 1
           /\ \A x \in 1..(N + 1 + n) :
                  x \in 1..N \/ x = N + 1 \/ \E j \in 1..n : x = N + 1 + j
           /\ \A x \in 1..N : x \in 1..(N + 1) /\ x + 1 \in 1..(N + 1)
           /\ \A j \in 1..n :
                  \/ j = n
                  \/ j \in 1..(n - 1) /\ j + 1 \in 1..n /\ N + 1 + j + 1 = N + 1 + (j + 1)
           /\ 1 \in 1..n
<1>1. ASSUME NEW x \in 1..(N + 1 + n + 1), N + 1 < x, x # N + 1 + n + 1
      PROVE  \E j \in 1..n : x = N + 1 + j
    <2>1. x - (N + 1) \in 1..n /\ x = N + 1 + (x - (N + 1))
        BY <1>1
    <2> QED
        BY <2>1
<1>2. \A x \in 1..(N + 1 + n + 1) : x \in 1..(N + 1) \/ N + 1 < x
    OBVIOUS
<1>3. \A x \in 1..(N + 1 + n) :
          /\ x \in 1..(N + 1 + n + 1) /\ x # N + 1 + n + 1
          /\ x \in 1..N \/ x = N + 1 \/ N + 1 < x
    OBVIOUS
<1>4. \A x \in 1..N : x \in 1..(N + 1) /\ x + 1 \in 1..(N + 1)
    OBVIOUS
<1>5. \A j \in 1..n :
          \/ j = n
          \/ j \in 1..(n - 1) /\ j + 1 \in 1..n /\ N + 1 + j + 1 = N + 1 + (j + 1)
    OBVIOUS
<1> QED
    BY <1>1, <1>2, <1>3, <1>4, <1>5

-----------------------------------------------------------------------------
(* The history of messages.                                                *)

\* No chunk size is 0.
LEMMA SizesArePositive == Sizes \subseteq Nat \ {0}
BY ChunkAssumption DEF ChunkAssumption, Sizes

\* What both ends know after a message differs from before in its own chunk
\* stream only.
LEMMA AfterMessage ==
    ASSUME NEW g \in Message
    PROVE  /\ After(g) \in [Streams -> Header \cup {NoHeader}] /\ SizeAfter(g) \in Sizes
           /\ After(g)[g.csid] = g.header
           /\ \A c \in Streams : c # g.csid => After(g)[c] = g.known[c]
<1>1. /\ g.csid \in Streams /\ g.header \in Header /\ g.arg \in Sizes /\ g.size \in Sizes
      /\ g.known \in [Streams -> Header \cup {NoHeader}]
    BY DEF Message, SentHeader
<1>2. SizeAfter(g) \in Sizes
    BY <1>1 DEF SizeAfter
<1> HIDE DEF Header
<1>3. /\ After(g) \in [Streams -> Header \cup {NoHeader}]
      /\ After(g)[g.csid] = g.header
      /\ \A c \in Streams : c # g.csid => After(g)[c] = g.known[c]
    BY <1>1 DEF After
<1> QED
    BY <1>2, <1>3

\* The types of what is known, and of the chunk size, before each message.
LEMMA HistoryTypes ==
    ASSUME NEW G \in Seq(Message), NEW m \in 1..(Len(G) + 1)
    PROVE  /\ KnownAt(G, m) \in [Streams -> Header \cup {NoHeader}]
           /\ SizeAt(G, m) \in Sizes
<1>1. CASE m = 1
    BY <1>1 DEF KnownAt, SizeAt, Sizes
<1>2. CASE m # 1
    <2>1. m - 1 \in 1..Len(G) /\ G[m - 1] \in Message
        BY <1>2
    <2> QED
        BY <1>2, <2>1, AfterMessage DEF KnownAt, SizeAt
<1> QED
    BY <1>1, <1>2

\* The next message.
LEMMA HistoryGrows ==
    ASSUME NEW G \in Seq(Message), History(G), NEW g \in Message,
           g.known = KnownAt(G, Len(G) + 1), g.size = SizeAt(G, Len(G) + 1)
    PROVE  \E H \in Seq(Message) :
               /\ H = Append(G, g) /\ History(H) /\ Len(H) = Len(G) + 1 /\ H[Len(G) + 1] = g
               /\ \A m \in 1..Len(G) : H[m] = G[m]
               /\ \A m \in 1..(Len(G) + 1) :
                      KnownAt(H, m) = KnownAt(G, m) /\ SizeAt(H, m) = SizeAt(G, m)
<1>1. PICK H : H = Append(G, g)
    OBVIOUS
<1>2. /\ H \in Seq(Message) /\ Len(H) = Len(G) + 1 /\ Len(G) \in Nat /\ H[Len(G) + 1] = g
      /\ \A m \in 1..Len(G) : H[m] = G[m]
    BY <1>1, OneMore
<1>3. ASSUME NEW m \in 1..(Len(G) + 1)
      PROVE  KnownAt(H, m) = KnownAt(G, m) /\ SizeAt(H, m) = SizeAt(G, m)
    <2>1. CASE m = 1
        BY <2>1 DEF KnownAt, SizeAt
    <2>2. CASE m # 1
        <3>1. m - 1 \in 1..Len(G)
            BY <1>2, <2>2
        <3>2. H[m - 1] = G[m - 1]
            BY <1>2, <3>1
        <3> QED
            BY <2>2, <3>2 DEF KnownAt, SizeAt
    <2> QED
        BY <2>1, <2>2
<1>4. History(H)
    <2> SUFFICES ASSUME NEW m \in 1..Len(H)
                 PROVE  H[m].known = KnownAt(H, m) /\ H[m].size = SizeAt(H, m)
        BY DEF History
    <2>1. m \in 1..(Len(G) + 1) /\ (m = Len(G) + 1 \/ m \in 1..Len(G))
        BY <1>2
    <2>2. CASE m = Len(G) + 1
        BY <1>2, <1>3, <2>1, <2>2
    <2>3. CASE m \in 1..Len(G)
        <3>1. G[m].known = KnownAt(G, m) /\ G[m].size = SizeAt(G, m)
            BY <2>3 DEF History
        <3> QED
            BY <1>2, <1>3, <2>1, <2>3, <3>1
    <2> QED
        BY <2>1, <2>2, <2>3
<1> QED
    BY <1>1, <1>2, <1>3, <1>4, Zenon

-----------------------------------------------------------------------------
(* Reading a token.                                                        *)

\* The places behind the first token.
LEMMA Shift ==
    ASSUME NEW G \in Seq(Message), NEW q, WireOK(G, q), wire # <<>>, wire' = Tail(wire),
           sent' = sent
    PROVE  \E r :
               /\ WireOK(G, r)' /\ r[1] = q[2]
               /\ r[Len(wire') + 1] = q[Len(wire) + 1]
               /\ Len(wire) \in Nat \ {0}
<1> DEFINE n == Len(wire)
<1>1. /\ wire \in Seq(Tokens) /\ q \in [1..(n + 1) -> Place]
      /\ \A p \in 1..(n + 1) : Sensible(G, q[p])
      /\ \A p \in 1..n : /\ q[p].m # Len(G) + 1 /\ wire[p] = Token(G[q[p].m], q[p])
                         /\ q[p + 1] = Successor(G[q[p].m], q[p])
    BY DEF WireOK
<1>2. /\ n \in Nat \ {0} /\ wire' \in Seq(Tokens) /\ Len(wire') = n - 1
      /\ \A p \in 1..(n - 1) : wire'[p] = wire[p + 1]
    BY <1>1, FirstAndRest
<1> HIDE DEF n
<1>3. PICK r : r = [p \in 1..n |-> q[p + 1]]
    OBVIOUS
<1>4. \A p \in 1..n : p + 1 \in 1..(n + 1) /\ r[p] = q[p + 1]
    BY <1>2, <1>3
<1>5. r \in [1..n -> Place]
    BY <1>1, <1>3, <1>4
<1>6. \A p \in 1..n : Sensible(G, r[p])'
    BY <1>1, <1>4 DEF Sensible
<1>7. ASSUME NEW p \in 1..(n - 1)
      PROVE  /\ r[p].m # Len(G) + 1 /\ wire'[p] = Token(G[r[p].m], r[p])
             /\ r[p + 1] = Successor(G[r[p].m], r[p])
    <2>1. p \in 1..n /\ p + 1 \in 1..n
        BY <1>2
    <2>2. r[p] = q[p + 1] /\ r[p + 1] = q[p + 1 + 1] /\ wire'[p] = wire[p + 1]
        BY <1>2, <1>4, <2>1
    <2> QED
        BY <1>1, <2>1, <2>2
<1>8. n - 1 + 1 = n /\ 1 \in 1..n /\ n \in 1..n /\ 1 + 1 = 2
    BY <1>2
<1>9. WireOK(G, r)'
    BY <1>2, <1>5, <1>6, <1>7, <1>8 DEF WireOK
<1>10. r[1] = q[2] /\ r[Len(wire') + 1] = q[n + 1]
    BY <1>2, <1>4, <1>8
<1> QED
    BY <1>2, <1>9, <1>10 DEF n

\* The sender takes no part in a read.
LEMMA SenderStays ==
    ASSUME NEW G, NEW p, SenderOK(G, p), UNCHANGED sender
    PROVE  SenderOK(G, p)'
BY DEF SenderOK, JobOK, Active, Sending, sender

\* What a chunk header says, and what its format is chosen for.
LEMMA HeaderSays ==
    ASSUME NEW c, NEW f \in 0..3, NEW h \in Header, NEW k, k = ChunkHeader(c, f, h)
    PROVE  /\ IsHeader(k) /\ k.csid = c /\ k.fmt = f
           /\ k.ext # <<>> <=> h.time >= ExtTime
           /\ h.time >= ExtTime => k.ext[1] = h.time
           /\ f # 3 => k.time = IF h.time < ExtTime THEN h.time ELSE ExtTime
           /\ f < 2 => k.length = h.length /\ k.type = h.type
           /\ f = 0 => k.stream = h.stream
<1>1. h.time \in Nat /\ ExtTime \in Nat \ {0}
    BY ChunkAssumption DEF ChunkAssumption, Header
<1>2. k.csid = c /\ k.fmt = f /\ IsHeader(k)
    BY DEF ChunkHeader, IsHeader
<1>3. k.ext = IF h.time >= ExtTime THEN <<h.time>> ELSE <<>>
    BY DEF ChunkHeader
<1>4. <<h.time>> # <<>> /\ <<h.time>>[1] = h.time
    OBVIOUS
<1>5. /\ f # 3 => k.time = IF h.time < ExtTime THEN h.time ELSE ExtTime
      /\ f < 2 => k.length = h.length /\ k.type = h.type
      /\ f = 0 => k.stream = h.stream
    BY DEF ChunkHeader
<1> QED
    BY <1>2, <1>3, <1>4, <1>5

\* Which fields a header format may leave out.
LEMMA FormatChosen ==
    ASSUME NEW last, NEW h \in Header
    PROVE  /\ Format(last, h) \in 0..3
           /\ Format(last, h) >= 1 => last # NoHeader /\ last.stream = h.stream
           /\ Format(last, h) >= 2 => last.type = h.type /\ last.length = h.length
           /\ Format(last, h) = 3 => last.time = h.time
BY DEF Format

\* Fields left out are those of the last header of the chunk stream.
LEMMA Understood ==
    ASSUME NEW c, NEW f \in 0..3, NEW h \in Header, NEW k, k = ChunkHeader(c, f, h),
           f >= 1 => Known(k).stream = h.stream,
           f >= 2 => Known(k).type = h.type /\ Known(k).length = h.length,
           f = 3 => Known(k).time = h.time
    PROVE  (WantsExt(k) <=> k.ext # <<>>) /\ Parsed(k) = h
<1>1. /\ k.fmt = f
      /\ k.ext # <<>> <=> h.time >= ExtTime
      /\ h.time >= ExtTime => k.ext[1] = h.time
      /\ f # 3 => k.time = IF h.time < ExtTime THEN h.time ELSE ExtTime
      /\ f < 2 => k.length = h.length /\ k.type = h.type
      /\ f = 0 => k.stream = h.stream
    BY HeaderSays
<1>2. h.time \in Nat /\ ExtTime \in Nat \ {0}
    BY ChunkAssumption DEF ChunkAssumption, Header
<1>3. WantsExt(k) <=> h.time >= ExtTime
    BY <1>1, <1>2 DEF WantsExt
<1>4. Parsed(k).time = h.time
    BY <1>1, <1>2, <1>3 DEF Parsed
<1>5. Parsed(k).type = h.type /\ Parsed(k).length = h.length /\ Parsed(k).stream = h.stream
    BY <1>1 DEF Parsed
<1>6. Parsed(k) = [type |-> Parsed(k).type, length |-> Parsed(k).length,
                   time |-> Parsed(k).time, stream |-> Parsed(k).stream]
    BY DEF Parsed
<1>7. h = [type |-> h.type, length |-> h.length, time |-> h.time, stream |-> h.stream]
    BY DEF Header
<1>8. Parsed(k) = h
    BY <1>4, <1>5, <1>6, <1>7, Zenon
<1>9. WantsExt(k) <=> k.ext # <<>>
    BY <1>1, <1>3, Zenon
<1> QED
    BY <1>8, <1>9, Zenon

\* What holds before a token is read.
LEMMA AtToken ==
    ASSUME NEW G, NEW q, NEW last, Along(G, q, last), wire # <<>>
    PROVE  /\ q[1] \in Place /\ q[1].m \in 1..Len(G) /\ G[q[1].m] \in Message
           /\ InMessage(G[q[1].m], q[1])
           /\ Next1 = Token(G[q[1].m], q[1]) /\ Next1 \in Tokens
           /\ q[2] = Successor(G[q[1].m], q[1])
           /\ G[q[1].m].known = KnownAt(G, q[1].m) /\ G[q[1].m].size = SizeAt(G, q[1].m)
<1>1. G \in Seq(Message) /\ History(G) /\ WireOK(G, q)
    BY DEF Along
<1>2. Len(wire) \in Nat \ {0} /\ Head(wire) = wire[1] /\ Head(wire) \in Tokens
    BY <1>1, FirstAndRest DEF WireOK
<1>3. 1 \in 1..Len(wire) /\ 1 \in 1..(Len(wire) + 1) /\ 1 + 1 = 2
    BY <1>2
<1>4. /\ q[1] \in Place /\ Sensible(G, q[1]) /\ q[1].m # Len(G) + 1
      /\ wire[1] = Token(G[q[1].m], q[1]) /\ q[2] = Successor(G[q[1].m], q[1])
    BY <1>1, <1>3 DEF WireOK
<1>5. q[1].m \in 1..Len(G) /\ InMessage(G[q[1].m], q[1])
    BY <1>1, <1>4 DEF Sensible
<1> QED
    BY <1>1, <1>2, <1>4, <1>5 DEF Next1, History

\* The parser takes a chunk header for what it is.
LEMMA HeaderIsRead ==
    ASSUME NEW G, NEW q, NEW last, Along(G, q, last), ReadHeader
    PROVE  /\ q[1].head /\ UNCHANGED <<sender, messages, farChunkSize, delivered, broken>>
           /\ wire # <<>> /\ wire' = Tail(wire)
           /\ message' = [message EXCEPT !.header = G[q[1].m].header]
           /\ aliases' = aliases \cup {G[q[1].m].csid} /\ expect' = "data"
<1> DEFINE p == q[1]
           g == G[p.m]
           f == IF p.b = 0 THEN FirstFormat(g) ELSE 3
<1>1. ReceiverOK(G, p) /\ wire # <<>> /\ expect = "header"
    BY DEF Along, ReadHeader
<1>2. p.head
    BY <1>1 DEF ReceiverOK
<1>3. /\ p \in Place /\ g \in Message /\ Next1 = Token(g, p)
      /\ g.known = KnownAt(G, p.m)
    BY <1>1, AtToken
<1> HIDE DEF p, g
<1>4. /\ g.header \in Header /\ g.csid \in Streams
      /\ g.known \in [Streams -> Header \cup {NoHeader}]
    BY <1>3 DEF Message, SentHeader
<1>5. Next1 = ChunkHeader(g.csid, f, g.header) /\ f \in 0..3
    BY <1>2, <1>3, <1>4, FormatChosen DEF Token, FirstFormat
<1> HIDE DEF f
<1>6. IsHeader(Next1) /\ Next1.csid = g.csid /\ Next1.fmt = f
    BY <1>5 DEF ChunkHeader, IsHeader
<1>7. /\ f >= 1 => Known(Next1).stream = g.header.stream
      /\ f >= 2 => Known(Next1).type = g.header.type /\ Known(Next1).length = g.header.length
      /\ f = 3 => Known(Next1).time = g.header.time
    <2>1. CASE p.b = 0
        <3>1. LastHeader(Next1.csid) = g.known[g.csid]
            BY <1>1, <1>2, <1>3, <1>6, <2>1 DEF ReceiverOK, LastHeader
        <3>2. f = Format(g.known[g.csid], g.header)
            BY <2>1 DEF FirstFormat, f
        <3>3. f >= 1 => Known(Next1) = g.known[g.csid]
            BY <1>4, <3>1, <3>2, FormatChosen DEF Known
        <3> QED
            BY <1>4, <1>5, <3>2, <3>3, FormatChosen
    <2>2. CASE p.b # 0
        <3>1. aliases = {g.csid} /\ message.header = g.header
            BY <1>1, <2>2 DEF ReceiverOK, g
        <3>2. Known(Next1) = g.header
            BY <1>6, <3>1 DEF Known, LastHeader
        <3> QED
            BY <3>2
    <2> QED
        BY <2>1, <2>2
<1>8. (WantsExt(Next1) <=> Next1.ext # <<>>) /\ Parsed(Next1) = g.header
    <2>1. PICK e \in 0..3 : e = f
        BY <1>5
    <2>2. PICK h \in Header : h = g.header
        BY <1>4
    <2>3. PICK k : k = Next1
        OBVIOUS
    <2>4. k = ChunkHeader(g.csid, e, h)
        BY <1>5, <2>1, <2>2, <2>3, Zenon
    <2>5. /\ e >= 1 => Known(k).stream = h.stream
          /\ e >= 2 => Known(k).type = h.type /\ Known(k).length = h.length
          /\ e = 3 => Known(k).time = h.time
        BY <1>7, <2>1, <2>2, <2>3, Zenon
    <2>6. (WantsExt(k) <=> k.ext # <<>>) /\ Parsed(k) = h
        BY <2>4, <2>5, Understood
    <2> QED
        BY <2>2, <2>3, <2>6, Zenon
<1>9. IsHeader(Next1) /\ (WantsExt(Next1) <=> Next1.ext # <<>>)
    BY <1>6, <1>8, Zenon
<1>10. /\ message' = [message EXCEPT !.header = Parsed(Next1)]
       /\ aliases' = aliases \cup {Next1.csid}
       /\ expect' = "data" /\ wire' = Tail(wire)
       /\ UNCHANGED <<messages, farChunkSize, delivered, broken>>
       /\ UNCHANGED sender
    BY <1>9, Zenon DEF ReadHeader
<1> QED
    BY <1>1, <1>2, <1>6, <1>8, <1>10, Zenon DEF p, g

\* Reading a chunk header keeps the invariant.
LEMMA ReadHeaderStep ==
    ASSUME NEW G, NEW q, NEW last, Along(G, q, last), ReadHeader
    PROVE  \E r : Along(G, r, last)'
<1>1. /\ q[1].head /\ UNCHANGED <<sender, messages, farChunkSize, delivered, broken>>
      /\ wire # <<>> /\ wire' = Tail(wire)
      /\ message' = [message EXCEPT !.header = G[q[1].m].header]
      /\ aliases' = aliases \cup {G[q[1].m].csid} /\ expect' = "data"
    BY HeaderIsRead
<1>2. PICK r : /\ WireOK(G, r)' /\ r[1] = q[2]
               /\ r[Len(wire') + 1] = q[Len(wire) + 1]
    <2>1. sent' = sent
        BY <1>1 DEF sender
    <2> QED
        BY <1>1, <2>1, Shift DEF Along
<1>3. SenderOK(G, last)' /\ last = r[Len(wire') + 1]
    <2>1. UNCHANGED sender
        BY <1>1
    <2> QED
        BY <1>2, <2>1, SenderStays DEF Along
<1>4. ReceiverOK(G, q[2])'
    <2> DEFINE p == q[1]
    <2>1. /\ p \in Place /\ G[p.m] \in Message /\ q[2] = Successor(G[p.m], p)
          /\ ReceiverOK(G, p)
        BY <1>1, AtToken DEF Along
    <2> HIDE DEF p
    <2>2. q[2] = [p EXCEPT !.head = FALSE]
        BY <1>1, <2>1 DEF Successor, p
    <2>3. q[2].m = p.m /\ q[2].b = p.b /\ ~q[2].head
        BY <2>1, <2>2 DEF Place
    <2>4. /\ message'.buffer = message.buffer /\ message'.header = G[p.m].header
          /\ message' \in [header : Header \cup {EmptyHeader}, buffer : Seq(Tokens)]
        <3>1. /\ message \in [header : Header \cup {EmptyHeader}, buffer : Seq(Tokens)]
              /\ message' = [message EXCEPT !.header = G[p.m].header]
              /\ G[p.m].header \in Header
            BY <1>1, <2>1 DEF ReceiverOK, Message, SentHeader, p
        <3> HIDE DEF Header
        <3> QED
            BY <3>1
    <2>5. aliases' = {G[p.m].csid}
        BY <1>1, <2>1 DEF ReceiverOK, p
    <2> QED
        BY <1>1, <2>1, <2>3, <2>4, <2>5 DEF ReceiverOK
<1> QED
    BY <1>1, <1>2, <1>3, <1>4 DEF Along

\* The parser takes a byte for what it is, and the message for finished with
\* its last byte.
LEMMA ByteIsRead ==
    ASSUME NEW G, NEW q, NEW last, Along(G, q, last), ReadByte,
           NEW g, g = G[q[1].m], NEW m, m = [message EXCEPT !.buffer = Append(@, Next1)]
    PROVE  /\ ~q[1].head /\ wire # <<>> /\ wire' = Tail(wire) /\ UNCHANGED <<sender, broken>>
           /\ message.header = g.header
           /\ \/ q[1].b + 1 = g.header.length /\ Process(m)
              \/ /\ q[1].b + 1 < g.header.length
                 /\ message' = m
                 /\ expect' = IF Len(m.buffer) % farChunkSize = 0 THEN "header" ELSE "data"
                 /\ UNCHANGED <<messages, aliases, farChunkSize, delivered>>
<1> DEFINE p == q[1]
<1>1. ReceiverOK(G, p) /\ wire # <<>> /\ expect = "data"
    BY DEF Along, ReadByte
<1>2. ~p.head
    BY <1>1 DEF ReceiverOK
<1>3. p \in Place /\ g \in Message /\ Next1 = Token(g, p) /\ InMessage(g, p)
    BY <1>1, AtToken
<1> HIDE DEF p
<1>4. Next1 = Byte(g.id, g.arg, p.b + 1)
    BY <1>2, <1>3 DEF Token
<1>5. ~IsHeader(Next1)
    BY <1>4 DEF Byte, IsHeader
<1>6. p.b \in Nat /\ g.header.length \in Nat /\ p.b < g.header.length
    BY <1>3 DEF Place, Message, SentHeader, Header, InMessage
<1>7. message.header = g.header /\ Len(message.buffer) = p.b
    BY <1>1, <1>2 DEF ReceiverOK, p
<1> DEFINE rest == message.header.length - Len(message.buffer)
<1>8. rest = g.header.length - p.b
    BY <1>7
<1>9. ~(rest < 0) /\ rest # 0 /\ (rest = 1 => p.b + 1 = g.header.length)
      /\ (rest > 1 => p.b + 1 < g.header.length)
    BY <1>6, <1>8
<1>10. /\ UNCHANGED sender
       /\ \/ (IsHeader(Next1) \/ rest < 0) /\ LoseTrack
          \/ ~IsHeader(Next1) /\ rest = 0 /\ Process(message) /\ UNCHANGED <<wire, broken>>
          \/ /\ ~IsHeader(Next1) /\ rest = 1 /\ Process(m)
             /\ wire' = Tail(wire) /\ UNCHANGED broken
          \/ /\ ~IsHeader(Next1) /\ rest > 1 /\ message' = m
             /\ expect' = IF Len(m.buffer) % farChunkSize = 0 THEN "header" ELSE "data"
             /\ wire' = Tail(wire)
             /\ UNCHANGED <<messages, aliases, farChunkSize, delivered, broken>>
    BY Zenon DEF ReadByte
<1> HIDE DEF rest
<1> QED
    BY <1>1, <1>2, <1>5, <1>7, <1>9, <1>10 DEF p

\* What is in the buffer with one byte more.
LEMMA Buffered ==
    ASSUME NEW G, NEW q, NEW last, Along(G, q, last), ReadByte,
           NEW g, g = G[q[1].m], NEW m, m = [message EXCEPT !.buffer = Append(@, Next1)]
    PROVE  /\ m \in [header : Header \cup {EmptyHeader}, buffer : Seq(Tokens)]
           /\ m.header = g.header
           /\ Len(m.buffer) = q[1].b + 1
           /\ \A k \in 1..(q[1].b + 1) : m.buffer[k] = Byte(g.id, g.arg, k)
<1> DEFINE p == q[1]
           s == message.buffer
<1>1. ReceiverOK(G, p) /\ ~p.head /\ wire # <<>> /\ message.header = g.header
    BY ByteIsRead DEF Along
<1>2. /\ p \in Place /\ g \in Message /\ Next1 = Token(g, p) /\ Next1 \in Tokens
    BY <1>1, AtToken
<1>3. /\ message \in [header : Header \cup {EmptyHeader}, buffer : Seq(Tokens)]
      /\ Len(s) = p.b /\ \A k \in 1..p.b : s[k] = Byte(g.id, g.arg, k)
    BY <1>1 DEF ReceiverOK
<1>4. Next1 = Byte(g.id, g.arg, p.b + 1) /\ p.b \in Nat
    BY <1>1, <1>2 DEF Token, Place
<1>5. s \in Seq(Tokens)
    BY <1>3
<1> HIDE DEF p, s
<1>6. PICK t : t = Append(s, Next1)
    OBVIOUS
<1>7. /\ t \in Seq(Tokens) /\ Len(t) = Len(s) + 1
      /\ \A k \in 1..Len(s) : t[k] = s[k]
      /\ t[Len(s) + 1] = Next1
    BY <1>2, <1>5, <1>6, OneMore
<1>8. m = [message EXCEPT !.buffer = t]
    BY <1>6 DEF s
<1>9. m.buffer = t /\ m.header = message.header
      /\ m \in [header : Header \cup {EmptyHeader}, buffer : Seq(Tokens)]
    <2> HIDE DEF Header
    <2> QED
        BY <1>3, <1>7, <1>8
<1>10. ASSUME NEW k \in 1..(p.b + 1) PROVE t[k] = Byte(g.id, g.arg, k)
    <2>1. k \in 1..p.b \/ k = p.b + 1
        BY <1>4
    <2>2. CASE k \in 1..p.b
        BY <1>3, <1>7, <2>2
    <2>3. CASE k = p.b + 1
        BY <1>3, <1>4, <1>7, <2>3
    <2> QED
        BY <2>1, <2>2, <2>3
<1> QED
    BY <1>1, <1>3, <1>7, <1>9, <1>10 DEF p

\* A byte that is not the last of its message.
LEMMA ByteIsKept ==
    ASSUME NEW G, NEW q, NEW last, Along(G, q, last), ReadByte,
           q[1].b + 1 # G[q[1].m].header.length
    PROVE  ReceiverOK(G, q[2])'
<1> DEFINE p == q[1]
           g == G[p.m]
<1>1. PICK m : m = [message EXCEPT !.buffer = Append(@, Next1)]
    OBVIOUS
<1>2. /\ ~p.head /\ wire # <<>> /\ UNCHANGED broken /\ message.header = g.header
      /\ \/ p.b + 1 = g.header.length /\ Process(m)
         \/ /\ p.b + 1 < g.header.length
            /\ message' = m
            /\ expect' = IF Len(m.buffer) % farChunkSize = 0 THEN "header" ELSE "data"
            /\ UNCHANGED <<messages, aliases, farChunkSize, delivered>>
    BY <1>1, ByteIsRead
<1>3. /\ message' = m
      /\ expect' = IF Len(m.buffer) % farChunkSize = 0 THEN "header" ELSE "data"
      /\ UNCHANGED <<messages, aliases, farChunkSize, delivered>>
    BY <1>2
<1>4. /\ m \in [header : Header \cup {EmptyHeader}, buffer : Seq(Tokens)]
      /\ m.header = g.header /\ Len(m.buffer) = p.b + 1
      /\ \A k \in 1..(p.b + 1) : m.buffer[k] = Byte(g.id, g.arg, k)
    BY <1>1, Buffered
<1>5. /\ p \in Place /\ g \in Message /\ InMessage(g, p)
      /\ q[2] = Successor(g, p) /\ g.size = SizeAt(G, p.m)
    BY <1>2, AtToken
<1>6. ReceiverOK(G, p)
    BY DEF Along
<1>7. /\ p.b \in Nat /\ p.k \in Nat /\ p.o \in Nat /\ g.size \in Nat \ {0}
      /\ p.b = p.k * g.size + p.o /\ p.o < g.size
    BY <1>5, SizesArePositive DEF Place, Message, InMessage
<1> HIDE DEF p, g
<1>8. /\ q[2].m = p.m /\ q[2].b = p.b + 1 /\ (q[2].head <=> p.o + 1 = g.size)
    BY <1>2, <1>5 DEF Successor, p, g
<1>9. Len(m.buffer) % farChunkSize = 0 <=> p.o + 1 = g.size
    <2>1. farChunkSize = g.size
        BY <1>5, <1>6 DEF ReceiverOK
    <2>2. (p.k * g.size + p.o + 1) % g.size = 0 <=> p.o + 1 = g.size
        BY <1>7, ChunkIsFull
    <2>3. Len(m.buffer) = p.k * g.size + p.o + 1
        BY <1>4, <1>7
    <2> QED
        BY <2>1, <2>2, <2>3, Zenon
<1>10. expect' = IF q[2].head THEN "header" ELSE "data"
    BY <1>3, <1>8, <1>9
<1>11. q[2].b # 0 /\ aliases' = {g.csid}
    BY <1>2, <1>3, <1>6, <1>7, <1>8 DEF ReceiverOK, g
<1> QED
    BY <1>2, <1>3, <1>4, <1>6, <1>8, <1>10, <1>11 DEF ReceiverOK, g

\* The last byte of a message: it is delivered whole, the receiver takes over
\* the chunk size it may announce, and remembers its header.
LEMMA MessageIsProcessed ==
    ASSUME NEW G, NEW q, NEW last, Along(G, q, last), ReadByte,
           q[1].b + 1 = G[q[1].m].header.length
    PROVE  ReceiverOK(G, q[2])'
<1> DEFINE p == q[1]
           g == G[p.m]
<1>1. PICK m : m = [message EXCEPT !.buffer = Append(@, Next1)]
    OBVIOUS
<1>2. ~p.head /\ wire # <<>> /\ UNCHANGED broken /\ message.header = g.header /\ Process(m)
    <2>1. ~(g.header.length < g.header.length)
        <3>1. g \in Message
            BY AtToken DEF ReadByte
        <3> QED
            BY <3>1 DEF Message, SentHeader, Header
    <2> QED
        BY <1>1, <2>1, ByteIsRead
<1>3. /\ m \in [header : Header \cup {EmptyHeader}, buffer : Seq(Tokens)]
      /\ m.header = g.header /\ Len(m.buffer) = p.b + 1
      /\ \A k \in 1..(p.b + 1) : m.buffer[k] = Byte(g.id, g.arg, k)
    BY <1>1, Buffered
<1>4. /\ p \in Place /\ p.m \in 1..Len(G) /\ g \in Message
      /\ q[2] = Successor(g, p) /\ g.known = KnownAt(G, p.m) /\ g.size = SizeAt(G, p.m)
    BY <1>2, AtToken
<1>5. ReceiverOK(G, p) /\ G \in Seq(Message)
    BY DEF Along
<1>6. /\ q[2].m = p.m + 1 /\ q[2].b = 0 /\ q[2].head /\ p.b + 1 = g.header.length
    BY <1>2, <1>4 DEF Successor
<1> HIDE DEF p, g
<1>7. /\ p.m \in Nat \ {0} /\ p.m + 1 # 1 /\ p.m + 1 - 1 = p.m
      /\ p.b \in Nat /\ g.header.length \in Nat \ {0}
    BY <1>4, <1>6 DEF Place, Message, SentHeader, Header
<1>8. KnownAt(G, p.m + 1) = After(g) /\ SizeAt(G, p.m + 1) = SizeAfter(g)
    BY <1>7 DEF KnownAt, SizeAt, g
<1>9. [header |-> m.header, payload |-> m.buffer] = Whole(g)
    <2>1. m.buffer \in Seq(Tokens) /\ Len(m.buffer) = g.header.length
        BY <1>3, <1>6
    <2>2. PICK b \in Seq(Tokens) : b = m.buffer
        BY <2>1
    <2>3. b = [k \in 1..Len(b) |-> b[k]]
        OBVIOUS
    <2>4. b = [k \in 1..g.header.length |-> Byte(g.id, g.arg, k)]
        BY <1>3, <1>6, <2>1, <2>2, <2>3
    <2> QED
        BY <1>3, <2>2, <2>4 DEF Whole
<1>10. /\ delivered' \in Seq({Whole(h) : h \in Message}) /\ Len(delivered') = q[2].m - 1
       /\ \A i \in 1..Len(delivered') : delivered'[i] = Whole(G[i])
    <2>1. /\ delivered \in Seq({Whole(h) : h \in Message}) /\ Len(delivered) = p.m - 1
          /\ \A i \in 1..Len(delivered) : delivered[i] = Whole(G[i])
        BY <1>5 DEF ReceiverOK
    <2>2. PICK a \in {Whole(h) : h \in Message} : a = Whole(g)
        BY <1>4
    <2>3. delivered' = Append(delivered, a)
        BY <1>2, <1>9, <2>2 DEF Process
    <2>4. /\ Append(delivered, a) \in Seq({Whole(h) : h \in Message})
          /\ Len(Append(delivered, a)) = Len(delivered) + 1
          /\ \A i \in 1..Len(delivered) : Append(delivered, a)[i] = delivered[i]
          /\ Append(delivered, a)[Len(delivered) + 1] = a
        BY <2>1, OneMore
    <2>5. Len(delivered') = p.m /\ p.m + 1 - 1 = p.m
        BY <1>7, <2>1, <2>3, <2>4
    <2>6. ASSUME NEW i \in 1..p.m PROVE delivered'[i] = Whole(G[i])
        <3>1. i \in 1..(p.m - 1) \/ i = p.m
            BY <1>7
        <3>2. CASE i \in 1..(p.m - 1)
            BY <2>1, <2>3, <2>4, <3>2
        <3>3. CASE i = p.m
            <4>1. Len(delivered) + 1 = p.m
                BY <1>7, <2>1
            <4> QED
                BY <2>2, <2>3, <2>4, <3>3, <4>1 DEF g
        <3> QED
            BY <3>1, <3>2, <3>3
    <2> QED
        BY <1>6, <2>3, <2>4, <2>5, <2>6
<1>11. messages' = KnownAt(G, q[2].m)
    <2>1. /\ messages = g.known /\ aliases = {g.csid} /\ g.csid \in Streams
          /\ g.known \in [Streams -> Header \cup {NoHeader}]
        BY <1>2, <1>4, <1>5 DEF ReceiverOK, Message, g
    <2>2. messages' = [c \in DOMAIN messages |-> IF c \in aliases THEN m.header ELSE messages[c]]
        BY <1>2, Zenon DEF Process
    <2>3. DOMAIN messages = Streams
        BY <2>1
    <2> HIDE DEF Header
    <2>4. messages' = [c \in Streams |-> IF c \in {g.csid} THEN g.header ELSE g.known[c]]
        BY <1>3, <2>1, <2>2, <2>3, Zenon
    <2>5. After(g) = [c \in Streams |-> IF c \in {g.csid} THEN g.header ELSE g.known[c]]
        BY <2>1 DEF After
    <2> QED
        BY <1>6, <1>8, <2>4, <2>5
<1>12. farChunkSize' = SizeAt(G, q[2].m)
    <2>1. farChunkSize = g.size
        BY <1>4, <1>5 DEF ReceiverOK
    <2>2. 1 \in 1..(p.b + 1)
        BY <1>7
    <2>3. m.buffer[1].arg = g.arg
        <3>1. m.buffer[1] = Byte(g.id, g.arg, 1)
            BY <1>3, <2>2
        <3>2. Byte(g.id, g.arg, 1).arg = g.arg
            BY DEF Byte
        <3> QED
            BY <3>1, <3>2, Zenon
    <2>4. farChunkSize' = IF g.header.type = "setChunkSize" THEN g.arg ELSE g.size
        BY <1>2, <1>3, <2>1, <2>3 DEF Process
    <2> QED
        BY <1>6, <1>8, <2>4 DEF SizeAfter
<1>13. /\ message' = NewMessage /\ aliases' = {} /\ expect' = "header"
    BY <1>2 DEF Process
<1>14. /\ message' \in [header : Header \cup {EmptyHeader}, buffer : Seq(Tokens)]
       /\ Len(message'.buffer) = 0 /\ message'.header = EmptyHeader
    <2>1. PICK b \in Seq(Tokens) : b = <<>> /\ Len(b) = 0
        <3>1. <<>> \in Seq(Tokens) /\ Len(<<>>) = 0
            OBVIOUS
        <3> QED
            BY <3>1, Zenon
    <2>2. message' = [header |-> EmptyHeader, buffer |-> b]
        BY <1>13, <2>1 DEF NewMessage
    <2> QED
        BY <2>1, <2>2
<1> QED
    BY <1>2, <1>5, <1>6, <1>10, <1>11, <1>12, <1>13, <1>14 DEF ReceiverOK

\* Reading a byte keeps the invariant, whether or not it ends its message.
LEMMA ReadByteStep ==
    ASSUME NEW G, NEW q, NEW last, Along(G, q, last), ReadByte
    PROVE  \E r : Along(G, r, last)'
<1>1. wire # <<>> /\ wire' = Tail(wire) /\ UNCHANGED sender
    <2>1. PICK m : m = [message EXCEPT !.buffer = Append(@, Next1)]
        OBVIOUS
    <2> QED
        BY <2>1, ByteIsRead
<1>2. PICK r : /\ WireOK(G, r)' /\ r[1] = q[2]
               /\ r[Len(wire') + 1] = q[Len(wire) + 1]
    <2>1. sent' = sent
        BY <1>1 DEF sender
    <2> QED
        BY <1>1, <2>1, Shift DEF Along
<1>3. SenderOK(G, last)' /\ last = r[Len(wire') + 1]
    BY <1>1, <1>2, SenderStays DEF Along
<1>4. ReceiverOK(G, q[2])'
    BY MessageIsProcessed, ByteIsKept
<1> QED
    BY <1>1, <1>2, <1>3, <1>4 DEF Along

-----------------------------------------------------------------------------
(* Sending.                                                                *)

\* What a step that leaves the wire and the receiver alone needs.
LEMMA OnlySender ==
    ASSUME NEW G, NEW q, NEW last, Along(G, q, last),
           UNCHANGED <<sent, wire, receiver>>, SenderOK(G, last)'
    PROVE  Along(G, q, last)'
<1>1. UNCHANGED <<sent, wire, expect, message, messages, aliases, farChunkSize, delivered,
                  broken>>
    BY DEF receiver
<1>2. WireOK(G, q)'
    BY <1>1 DEF Along, WireOK, Sensible
<1>3. ReceiverOK(G, q[1])'
    BY <1>1 DEF Along, ReceiverOK
<1> QED
    BY <1>1, <1>2, <1>3 DEF Along

\* A message started: its header is compressed against the last one of its
\* chunk stream, which nobody else is about to replace.
LEMMA StartStep ==
    ASSUME NEW G, NEW q, NEW last, Along(G, q, last), NEW w \in Writers,
           NEW csid \in Streams, NEW h \in SentHeader, NEW arg \in Sizes,
           Start(w, csid, h, arg), ~mixed'
    PROVE  Along(G, q, last)'
<1>1. /\ G \in Seq(Message) /\ SenderOK(G, last)
    BY DEF Along
<1>2. /\ job[w] = NoJob /\ UNCHANGED <<nearChunkSize, sent, wire, receiver>>
      /\ started' = [started EXCEPT ![w] = @ + 1]
      /\ headersOut' = [headersOut EXCEPT ![csid] = h]
    BY DEF Start
<1>3. \A u \in Sending : job[u].csid # csid
    BY DEF Start
<1>4. /\ started \in [Writers -> Nat] /\ job \in [Writers -> Job \cup {NoJob}]
      /\ headersOut \in [Streams -> Header \cup {NoHeader}] /\ nearChunkSize \in Sizes
    BY <1>1 DEF SenderOK
<1> DEFINE K == KnownAt(G, Len(G) + 1)
<1>5. headersOut[csid] = K[csid]
    BY <1>1, <1>3 DEF SenderOK
<1>6. PICK f \in 0..3 : f = Format(headersOut[csid], h)
    BY FormatChosen DEF SentHeader
<1>7. PICK d \in Writers \X Nat : d = <<w, started[w]>>
    <2>1. started[w] \in Nat
        BY <1>4
    <2>2. <<w, started[w]>> \in Writers \X Nat
        BY <2>1
    <2> QED
        BY <2>2, Zenon
<1>8. PICK j : j = [csid |-> csid, header |-> h, id |-> d, arg |-> arg, fmt |-> f, i |-> 0]
    OBVIOUS
<1>9. j \in Job
    BY <1>8 DEF Job, Streams, Sizes, SentHeader
<1>10. j # NoJob
    BY <1>9, ChunkAssumption DEF ChunkAssumption
<1>11. job' = [job EXCEPT ![w] = j]
    BY <1>6, <1>7, <1>8, Zenon DEF Start
<1> HIDE DEF K, Job, Header
<1>12. job'[w] = j /\ \A u \in Writers : u # w => job'[u] = job[u]
    BY <1>4, <1>11
<1>13. headersOut'[csid] = h /\ \A c \in Streams : c # csid => headersOut'[c] = headersOut[c]
    BY <1>4, <1>2
<1>14. h \in Header
    BY DEF SentHeader
<1>15. /\ started' \in [Writers -> Nat] /\ job' \in [Writers -> Job \cup {NoJob}]
       /\ headersOut' \in [Streams -> Header \cup {NoHeader}]
    BY <1>2, <1>4, <1>9, <1>11, <1>14
<1>16. \A u \in Writers : Active(u)' <=> Active(u)
    <2>1. ~Active(w) /\ ~Active(w)'
        BY <1>2, <1>8, <1>12 DEF Active
    <2> QED
        BY <1>12, <2>1 DEF Active
<1>17. Sending' = Sending \cup {w} /\ w \notin Sending
    BY <1>2, <1>10, <1>12 DEF Sending
<1>18. ASSUME NEW u \in Writers, job'[u] # NoJob PROVE JobOK(G, last, u)'
    <2>1. CASE u = w
        <3>1. /\ j.csid = csid /\ j.header = h /\ j.fmt = f /\ j.i = 0
            BY <1>8
        <3>2. 0 =< h.length
            BY DEF SentHeader, Header
        <3>3. ~(j.i > 0) /\ j.i =< j.header.length
            BY <3>1, <3>2
        <3> QED
            BY <1>5, <1>6, <1>9, <1>12, <1>13, <2>1, <3>1, <3>3 DEF JobOK, K
    <2>2. CASE u # w
        <3>1. job'[u] = job[u] /\ u \in Sending /\ job[u] # NoJob
            BY <1>12, <1>18, <2>2 DEF Sending
        <3>2. JobOK(G, last, u)
            BY <1>1, <3>1 DEF SenderOK
        <3>3. job[u].csid # csid /\ job[u].csid \in Streams
            BY <1>3, <3>1, <3>2 DEF JobOK, Job, Streams
        <3>4. headersOut'[job[u].csid] = headersOut[job[u].csid]
            BY <1>13, <3>3
        <3> QED
            BY <1>2, <3>1, <3>2, <3>4 DEF JobOK
    <2> QED
        BY <2>1, <2>2
<1>19. \A u, v \in Sending' : u # v => job'[u].csid # job'[v].csid
    <2>1. \A u, v \in Sending : u # v => job[u].csid # job[v].csid
        BY <1>1 DEF SenderOK
    <2>2. job'[w].csid = csid
        BY <1>8, <1>12
    <2>3. \A u \in Sending : u \in Writers /\ u # w
        BY <1>17 DEF Sending
    <2> QED
        BY <1>3, <1>12, <1>17, <2>1, <2>2, <2>3
<1>20. ASSUME NEW c \in Streams, \A u \in Sending' : job'[u].i = 0 => job'[u].csid # c
       PROVE  headersOut'[c] = K[c]
    <2>1. c # csid
        BY <1>8, <1>12, <1>17, <1>20
    <2>2. \A u \in Sending : job[u].i = 0 => job[u].csid # c
        <3>1. \A u \in Sending : u \in Writers /\ u # w /\ u \in Sending'
            BY <1>17 DEF Sending
        <3> QED
            BY <1>12, <1>20, <3>1
    <2>3. headersOut[c] = K[c]
        BY <1>1, <2>2 DEF SenderOK, K
    <2> QED
        BY <1>13, <2>1, <2>3
<1>21. SenderOK(G, last)'
    BY <1>1, <1>2, <1>15, <1>16, <1>18, <1>19, <1>20 DEF SenderOK, K
<1> QED
    BY <1>2, <1>21, OnlySender

\* The call returns: the next message goes by the chunk size it announced.
LEMMA ReturnStep ==
    ASSUME NEW G, NEW q, NEW last, Along(G, q, last), NEW w \in Writers, Return(w)
    PROVE  Along(G, q, last)'
<1> DEFINE j == job[w]
           g == G[Len(G)]
           K == KnownAt(G, Len(G) + 1)
<1>1. /\ G \in Seq(Message) /\ SenderOK(G, last) /\ last \in Place /\ Sensible(G, last)
    <2>1. G \in Seq(Message) /\ SenderOK(G, last) /\ WireOK(G, q) /\ last = q[Len(wire) + 1]
        BY DEF Along
    <2>2. Len(wire) \in Nat
        BY <2>1 DEF WireOK
    <2>3. Len(wire) + 1 \in 1..(Len(wire) + 1)
        BY <2>2
    <2> QED
        BY <2>1, <2>3 DEF WireOK
<1>2. /\ j # NoJob /\ j.i = j.header.length
      /\ nearChunkSize' = IF j.header.type = "setChunkSize" THEN j.arg ELSE nearChunkSize
      /\ job' = [job EXCEPT ![w] = NoJob]
      /\ UNCHANGED <<headersOut, started, sent, wire, receiver>>
    BY DEF Return
<1>3. /\ started \in [Writers -> Nat] /\ job \in [Writers -> Job \cup {NoJob}]
      /\ headersOut \in [Streams -> Header \cup {NoHeader}] /\ nearChunkSize \in Sizes
    BY <1>1 DEF SenderOK
<1>4. JobOK(G, last, w) /\ j \in Job /\ j.header \in SentHeader
    BY <1>1, <1>2 DEF SenderOK, JobOK
<1>5. j.i > 0 /\ j.i # 0
    BY <1>2, <1>4 DEF SentHeader, Header
<1>6. Active(w)
    BY <1>2, <1>5 DEF Active
<1>7. /\ Len(G) > 0 /\ last.m = Len(G) + 1 /\ nearChunkSize = g.size
      /\ g.header = j.header /\ g.arg = j.arg /\ g.csid = j.csid
    BY <1>2, <1>4, <1>5 DEF JobOK
<1>8. Len(G) \in 1..Len(G) /\ g \in Message /\ Len(G) + 1 # 1 /\ Len(G) + 1 - 1 = Len(G)
    BY <1>1, <1>7
<1>9. K = After(g) /\ SizeAt(G, Len(G) + 1) = SizeAfter(g)
    BY <1>8 DEF KnownAt, SizeAt
<1>10. nearChunkSize' = SizeAfter(g) /\ nearChunkSize' \in Sizes
    <2>1. nearChunkSize' = SizeAfter(g)
        BY <1>2, <1>7 DEF SizeAfter
    <2> QED
        BY <1>8, <2>1, AfterMessage
<1> HIDE DEF j, g, K, Job, Header
<1>11. job'[w] = NoJob /\ \A u \in Writers : u # w => job'[u] = job[u]
    BY <1>2, <1>3
<1>12. job' \in [Writers -> Job \cup {NoJob}]
    BY <1>2, <1>3
<1>13. \A u \in Writers : ~Active(u)'
    <2>1. ~Active(w)'
        BY <1>11 DEF Active
    <2>2. \A u \in Writers : u # w => ~Active(u)
        BY <1>1, <1>6 DEF SenderOK
    <2> QED
        BY <1>11, <2>1, <2>2 DEF Active
<1>14. \A u \in Sending' : u \in Sending /\ u # w /\ u \in Writers /\ job'[u] = job[u]
    BY <1>11 DEF Sending
<1>15. ASSUME NEW u \in Writers, job'[u] # NoJob PROVE JobOK(G, last, u)'
    <2>1. u # w /\ job'[u] = job[u]
        BY <1>11, <1>15
    <2>2. JobOK(G, last, u)
        BY <1>1, <1>15, <2>1 DEF SenderOK
    <2>3. ~(job'[u].i > 0)
        BY <1>13, <1>15 DEF Active
    <2> QED
        BY <1>2, <2>1, <2>2, <2>3 DEF JobOK
<1>16. ASSUME NEW c \in Streams, \A u \in Sending' : job'[u].i = 0 => job'[u].csid # c
       PROVE  headersOut'[c] = K[c]
    <2>1. ASSUME NEW u \in Sending, job[u].i = 0 PROVE job[u].csid # c
        <3>1. u # w
            BY <1>5, <2>1 DEF j
        <3>2. u \in Sending' /\ job'[u] = job[u]
            BY <1>11, <3>1 DEF Sending
        <3> QED
            BY <1>16, <2>1, <3>2
    <2>2. headersOut[c] = K[c]
        BY <1>1, <2>1 DEF SenderOK, K
    <2> QED
        BY <1>2, <2>2
<1>17. SenderOK(G, last)'
    <2>1. \A u, v \in Sending' : u # v => job'[u].csid # job'[v].csid
        BY <1>1, <1>14 DEF SenderOK
    <2>2. /\ started' \in [Writers -> Nat] /\ headersOut' \in [Streams -> Header \cup {NoHeader}]
          /\ sent' \in Seq({Whole(h) : h \in Message})
          /\ \A i \in 1..Len(sent') : sent'[i] = Whole(G[i])
          /\ last.head /\ last.m = Len(sent') + 1
        BY <1>1, <1>2 DEF SenderOK
    <2> QED
        BY <1>7, <1>9, <1>10, <1>12, <1>13, <1>15, <1>16, <2>1, <2>2 DEF SenderOK, K
<1> QED
    BY <1>2, <1>17, OnlySender

\* The sender at place last of message g, the last of history H, with w about
\* to write its next chunk.
Ready(H, g, last, w) ==
    /\ H \in Seq(Message) /\ History(H) /\ Len(H) # 0 /\ g = H[Len(H)]
    /\ last \in Place /\ last.head /\ last.o = 0 /\ last.m = Len(H) /\ InMessage(g, last)
    /\ job[w].csid = g.csid /\ job[w].header = g.header
    /\ job[w].id = g.id /\ job[w].arg = g.arg /\ job[w].i = last.b
    /\ ChunkHeader(job[w].csid, job[w].fmt, job[w].header) = Token(g, last)
    /\ nearChunkSize = g.size
    /\ \A i \in 1..Len(sent) : sent[i] = Whole(H[i])
    /\ \A u \in Sending \ {w} : ~Active(u)
    /\ \A u \in Sending \ {w} :
          job[u].fmt = Format(After(g)[job[u].csid], job[u].header)
    /\ \A c \in Streams : (\A u \in Sending \ {w} : job[u].csid # c) =>
          headersOut[c] = After(g)[c]

\* Where the sender is.
LEMMA AtEnd ==
    ASSUME NEW G, NEW q, NEW last, Along(G, q, last)
    PROVE  /\ G \in Seq(Message) /\ last \in Place /\ Sensible(G, last) /\ SenderOK(G, last)
           /\ Len(wire) \in Nat /\ last = q[Len(wire) + 1] /\ last.o = 0
<1>1. G \in Seq(Message) /\ SenderOK(G, last) /\ WireOK(G, q) /\ last = q[Len(wire) + 1]
    BY DEF Along
<1>2. Len(wire) \in Nat
    BY <1>1 DEF WireOK
<1>3. Len(wire) + 1 \in 1..(Len(wire) + 1)
    BY <1>2
<1>4. last \in Place /\ Sensible(G, last)
    BY <1>1, <1>3 DEF WireOK
<1> QED
    BY <1>1, <1>2, <1>4 DEF Sensible, SenderOK

\* The message starts where the last one ended, and what is in flight stays.
LEMMA LongerHistory ==
    ASSUME NEW G, NEW q, NEW last, Along(G, q, last),
           NEW H \in Seq(Message), Len(H) = Len(G) + 1, \A m \in 1..Len(G) : H[m] = G[m],
           \A m \in 1..(Len(G) + 1) :
               KnownAt(H, m) = KnownAt(G, m) /\ SizeAt(H, m) = SizeAt(G, m)
    PROVE  WireOK(H, q) /\ ReceiverOK(H, q[1])
<1>1. G \in Seq(Message) /\ WireOK(G, q) /\ ReceiverOK(G, q[1])
    BY DEF Along
<1>2. Len(G) \in Nat /\ Len(wire) \in Nat
    BY <1>1, AtEnd
<1>3. /\ wire \in Seq(Tokens) /\ q \in [1..(Len(wire) + 1) -> Place]
      /\ \A p \in 1..(Len(wire) + 1) : Sensible(G, q[p])
      /\ \A p \in 1..Len(wire) :
            /\ q[p].m # Len(G) + 1 /\ wire[p] = Token(G[q[p].m], q[p])
            /\ q[p + 1] = Successor(G[q[p].m], q[p])
    BY <1>1 DEF WireOK
<1>4. ASSUME NEW p \in Place, Sensible(G, p) PROVE Sensible(H, p)
    <2>1. CASE p.m = Len(G) + 1
        <3>1. p.b = 0 /\ p.k = 0 /\ p.head /\ p.o = 0
            BY <1>4, <2>1 DEF Sensible
        <3>2. H[p.m] \in Message
            BY <1>2, <2>1
        <3>3. H[p.m].size \in Nat \ {0} /\ H[p.m].header.length \in Nat \ {0}
            BY <3>2, SizesArePositive DEF Message, SentHeader, Header
        <3>4. 0 < H[p.m].header.length /\ 0 < H[p.m].size /\ 0 = 0 * H[p.m].size + 0
            BY <3>3
        <3>5. InMessage(H[p.m], p)
            BY <3>1, <3>4 DEF InMessage
        <3> QED
            BY <1>2, <1>4, <2>1, <3>1, <3>5 DEF Sensible
    <2>2. CASE p.m # Len(G) + 1
        <3>1. p.m \in 1..Len(G) /\ InMessage(G[p.m], p)
            BY <1>2, <1>4, <2>2 DEF Sensible
        <3>2. H[p.m] = G[p.m] /\ p.m \in 1..(Len(H) + 1) /\ p.m # Len(H) + 1
            BY <1>2, <3>1
        <3> QED
            BY <1>4, <3>1, <3>2 DEF Sensible
    <2> QED
        BY <2>1, <2>2
<1>5. \A p \in 1..(Len(wire) + 1) : Sensible(H, q[p])
    BY <1>3, <1>4
<1>6. ASSUME NEW p \in 1..Len(wire)
      PROVE  /\ q[p].m # Len(H) + 1 /\ wire[p] = Token(H[q[p].m], q[p])
             /\ q[p + 1] = Successor(H[q[p].m], q[p])
    <2>1. p \in 1..(Len(wire) + 1)
        BY <1>2
    <2>2. q[p].m \in 1..Len(G)
        <3>1. Sensible(G, q[p]) /\ q[p].m # Len(G) + 1
            BY <1>3, <2>1
        <3> QED
            BY <1>2, <3>1 DEF Sensible
    <2>3. H[q[p].m] = G[q[p].m] /\ q[p].m # Len(H) + 1
        BY <1>2, <2>2
    <2> QED
        BY <1>3, <2>3
<1>7. WireOK(H, q)
    BY <1>3, <1>5, <1>6 DEF WireOK
<1> DEFINE p == q[1]
<1>8. p \in Place /\ Sensible(G, p)
    <2>1. 1 \in 1..(Len(wire) + 1)
        BY <1>2
    <2> QED
        BY <1>3, <2>1
<1> HIDE DEF p
<1>9. p.m \in 1..(Len(G) + 1)
    BY <1>8 DEF Sensible
<1>10. ReceiverOK(H, p)
    <2>1. ReceiverOK(G, p)
        BY <1>1 DEF p
    <2>2. KnownAt(H, p.m) = KnownAt(G, p.m) /\ SizeAt(H, p.m) = SizeAt(G, p.m)
        BY <1>9
    <2>3. \A i \in 1..Len(delivered) : delivered[i] = Whole(H[i])
        <3>1. /\ Len(delivered) = p.m - 1
              /\ \A i \in 1..Len(delivered) : delivered[i] = Whole(G[i])
            BY <2>1 DEF ReceiverOK
        <3>2. \A i \in 1..Len(delivered) : i \in 1..Len(G)
            BY <1>2, <1>9, <3>1
        <3> QED
            BY <3>1, <3>2
    <2>4. CASE p.m = Len(G) + 1
        <3>1. p.b = 0 /\ p.head
            BY <1>8, <2>4 DEF Sensible
        <3>2. \A k \in 1..p.b : message.buffer[k] = Byte(H[p.m].id, H[p.m].arg, k)
            BY <3>1
        <3> QED
            BY <2>1, <2>2, <2>3, <3>1, <3>2 DEF ReceiverOK
    <2>5. CASE p.m # Len(G) + 1
        <3>1. H[p.m] = G[p.m]
            BY <1>2, <1>9, <2>5
        <3> QED
            BY <2>1, <2>2, <2>3, <3>1 DEF ReceiverOK
    <2> QED
        BY <2>4, <2>5
<1> QED
    BY <1>7, <1>10 DEF p

\* The first chunk of a message: it is one more in the history.
LEMMA FirstChunk ==
    ASSUME NEW G, NEW q, NEW last, Along(G, q, last), NEW w \in Writers,
           job[w] # NoJob, job[w].i = 0, \A u \in Sending \ {w} : ~Active(u)
    PROVE  \E H \in Seq(Message), g \in Message :
               Ready(H, g, last, w) /\ WireOK(H, q) /\ ReceiverOK(H, q[1])
<1> DEFINE j == job[w]
           K == KnownAt(G, Len(G) + 1)
           n == SizeAt(G, Len(G) + 1)
<1>1. /\ G \in Seq(Message) /\ last \in Place /\ Sensible(G, last) /\ SenderOK(G, last)
      /\ last.o = 0 /\ last.head /\ Len(G) \in Nat
    <2>1. /\ G \in Seq(Message) /\ last \in Place /\ Sensible(G, last) /\ SenderOK(G, last)
          /\ last.o = 0
        BY AtEnd
    <2>2. last.head
        BY <2>1 DEF SenderOK
    <2> QED
        BY <2>1, <2>2
<1>2. JobOK(G, last, w) /\ j \in Job /\ j.header \in SentHeader
    BY <1>1 DEF SenderOK, JobOK
<1>3. K \in [Streams -> Header \cup {NoHeader}] /\ n \in Sizes
    <2>1. Len(G) + 1 \in 1..(Len(G) + 1)
        BY <1>1
    <2> QED
        BY <1>1, <2>1, HistoryTypes
<1>4. \A u \in Writers : ~Active(u)
    <2>1. ~Active(w)
        BY DEF Active
    <2> QED
        BY <2>1 DEF Active, Sending
<1>5. last.m = Len(G) + 1 /\ nearChunkSize = n
    BY <1>1, <1>4 DEF SenderOK
<1>6. last.b = 0 /\ last.k = 0
    BY <1>1, <1>5 DEF Sensible
<1>7. /\ j.csid \in Streams /\ j.id \in Writers \X Nat /\ j.arg \in Sizes
      /\ j.fmt = Format(K[j.csid], j.header)
    BY <1>2 DEF JobOK, Job, Streams, Sizes
<1> HIDE DEF j, K, n
<1>8. PICK g : g = [csid |-> j.csid, header |-> j.header, id |-> j.id, arg |-> j.arg,
                    known |-> K, size |-> n]
    OBVIOUS
<1>9. /\ g.csid = j.csid /\ g.header = j.header /\ g.id = j.id /\ g.arg = j.arg
      /\ g.known = K /\ g.size = n
    BY <1>8
<1>10. g \in Message
    BY <1>2, <1>3, <1>7, <1>8 DEF Message
<1>11. PICK H \in Seq(Message) :
               /\ History(H) /\ Len(H) = Len(G) + 1 /\ H[Len(G) + 1] = g
               /\ \A m \in 1..Len(G) : H[m] = G[m]
               /\ \A m \in 1..(Len(G) + 1) :
                      KnownAt(H, m) = KnownAt(G, m) /\ SizeAt(H, m) = SizeAt(G, m)
    BY <1>1, <1>9, <1>10, HistoryGrows DEF Along, K, n
<1>12. WireOK(H, q) /\ ReceiverOK(H, q[1])
    BY <1>11, LongerHistory
<1>13. Len(H) # 0 /\ g = H[Len(H)] /\ last.m = Len(H)
    BY <1>1, <1>5, <1>11
<1>14. InMessage(g, last)
    <2>1. g.size \in Nat \ {0} /\ g.header.length \in Nat \ {0}
        BY <1>10, SizesArePositive DEF Message, SentHeader, Header
    <2>2. 0 < g.header.length /\ 0 < g.size /\ 0 = 0 * g.size + 0
        BY <2>1
    <2> QED
        BY <1>1, <1>6, <2>2 DEF InMessage
<1>15. ChunkHeader(j.csid, j.fmt, j.header) = Token(g, last)
    BY <1>1, <1>6, <1>7, <1>9, Zenon DEF Token, FirstFormat
<1>16. /\ After(g)[g.csid] = g.header
       /\ \A c \in Streams : c # g.csid => After(g)[c] = K[c]
    BY <1>9, <1>10, AfterMessage
<1>17. \A u \in Sending \ {w} :
           /\ JobOK(G, last, u) /\ job[u].i = 0 /\ job[u].csid # g.csid
           /\ job[u].csid \in Streams
    <2> SUFFICES ASSUME NEW u \in Sending \ {w}
                 PROVE  /\ JobOK(G, last, u) /\ job[u].i = 0 /\ job[u].csid # g.csid
                        /\ job[u].csid \in Streams
        OBVIOUS
    <2>1. u \in Writers /\ job[u] # NoJob /\ w \in Sending /\ u \in Sending /\ u # w
        BY DEF Sending
    <2>2. JobOK(G, last, u)
        BY <1>1, <2>1 DEF SenderOK
    <2>3. job[u].i \in Nat /\ job[u].csid \in Streams
        BY <2>2 DEF JobOK, Job, Streams
    <2>4. job[u].i = 0
        BY <1>4, <2>1, <2>3 DEF Active
    <2>5. job[u].csid # job[w].csid
        BY <1>1, <2>1 DEF SenderOK
    <2> QED
        BY <1>9, <2>2, <2>3, <2>4, <2>5 DEF j
<1>18. \A u \in Sending \ {w} :
           job[u].fmt = Format(After(g)[job[u].csid], job[u].header)
    BY <1>16, <1>17 DEF JobOK, K
<1>19. ASSUME NEW c \in Streams, \A u \in Sending \ {w} : job[u].csid # c
       PROVE  headersOut[c] = After(g)[c]
    <2>1. CASE c = g.csid
        BY <1>2, <1>9, <1>16, <2>1 DEF JobOK, j
    <2>2. CASE c # g.csid
        <3>1. \A u \in Sending : job[u].i = 0 => job[u].csid # c
            <4>1. job[w].csid # c
                BY <1>9, <2>2 DEF j
            <4> QED
                BY <1>19, <4>1
        <3>2. headersOut[c] = K[c]
            BY <1>1, <3>1 DEF SenderOK, K
        <3> QED
            BY <1>16, <2>2, <3>2
    <2> QED
        BY <2>1, <2>2
<1>20. Ready(H, g, last, w)
    <2>1. job[w].i = last.b
        BY <1>6
    <2>2. \A i \in 1..Len(sent) : sent[i] = Whole(H[i])
        <3>1. \A i \in 1..Len(sent) : i \in 1..Len(G) /\ sent[i] = Whole(G[i])
            BY <1>1, <1>5 DEF SenderOK
        <3> QED
            BY <1>11, <3>1
    <2> QED
        BY <1>1, <1>5, <1>9, <1>11, <1>13, <1>14, <1>15, <1>18, <1>19, <2>1, <2>2 DEF Ready, j
<1> QED
    BY <1>10, <1>11, <1>12, <1>20

\* Another chunk of the last message of the history.
LEMMA MoreChunks ==
    ASSUME NEW G, NEW q, NEW last, Along(G, q, last), NEW w \in Writers,
           job[w] # NoJob, job[w].i # 0, job[w].i # job[w].header.length,
           \A u \in Sending \ {w} : ~Active(u)
    PROVE  \E H \in Seq(Message), g \in Message :
               Ready(H, g, last, w) /\ WireOK(H, q) /\ ReceiverOK(H, q[1])
<1> DEFINE g == G[Len(G)]
<1>1. /\ G \in Seq(Message) /\ last \in Place /\ Sensible(G, last) /\ SenderOK(G, last)
      /\ last.o = 0 /\ Len(G) \in Nat
    BY AtEnd
<1>2. last.head
    BY <1>1 DEF SenderOK
<1>3. JobOK(G, last, w) /\ job[w] \in Job
    BY <1>1 DEF SenderOK, JobOK
<1>4. job[w].i \in Nat
    BY <1>3 DEF Job
<1>5. /\ Len(G) > 0 /\ g.csid = job[w].csid /\ g.header = job[w].header
      /\ g.id = job[w].id /\ g.arg = job[w].arg /\ job[w].fmt = 3
      /\ nearChunkSize = g.size /\ last.m = Len(G) /\ last.b = job[w].i
    BY <1>3, <1>4 DEF JobOK
<1>6. /\ Len(G) # 0 /\ Len(G) \in 1..Len(G) /\ g \in Message
      /\ Len(G) + 1 # 1 /\ Len(G) + 1 - 1 = Len(G)
    BY <1>1, <1>5
<1>7. InMessage(g, last)
    BY <1>1, <1>5 DEF Sensible
<1>8. KnownAt(G, Len(G) + 1) = After(g)
    BY <1>6 DEF KnownAt
<1>9. ChunkHeader(job[w].csid, job[w].fmt, job[w].header) = Token(g, last)
    BY <1>2, <1>5 DEF Token
<1> HIDE DEF g
<1>10. ASSUME NEW u \in Sending \ {w}
       PROVE  job[u].fmt = Format(After(g)[job[u].csid], job[u].header)
    <2>1. u \in Writers /\ job[u] # NoJob
        BY DEF Sending
    <2>2. JobOK(G, last, u)
        BY <1>1, <2>1 DEF SenderOK
    <2>3. job[u].i \in Nat
        BY <2>2 DEF JobOK, Job
    <2>4. job[u].i = 0
        BY <2>1, <2>3 DEF Active
    <2> QED
        BY <1>8, <2>2, <2>4 DEF JobOK
<1>11. ASSUME NEW c \in Streams, \A u \in Sending \ {w} : job[u].csid # c
       PROVE  headersOut[c] = After(g)[c]
    <2>1. \A u \in Sending : job[u].i = 0 => job[u].csid # c
        BY <1>11
    <2> QED
        BY <1>1, <1>8, <2>1 DEF SenderOK
<1>12. Ready(G, g, last, w)
    <2>1. \A i \in 1..Len(sent) : sent[i] = Whole(G[i])
        BY <1>1 DEF SenderOK
    <2> QED
        BY <1>1, <1>2, <1>5, <1>6, <1>7, <1>9, <1>10, <1>11, <2>1 DEF Ready, Along, g
<1> QED
    BY <1>1, <1>6, <1>12 DEF Along

\* The places of a chunk of n bytes whose header is at place p.
ByteAt(p, j) == [m |-> p.m, b |-> p.b + j - 1, k |-> p.k, o |-> j - 1, head |-> FALSE]
Behind(g, p, n) ==
    IF p.b + n = g.header.length
    THEN [m |-> p.m + 1, b |-> 0, k |-> 0, o |-> 0, head |-> TRUE]
    ELSE [m |-> p.m, b |-> p.b + n, k |-> p.k + 1, o |-> 0, head |-> TRUE]

\* The places of the tokens of one chunk follow each other.
LEMMA PlacesOfChunk ==
    ASSUME NEW g \in Message, NEW p \in Place, p.head, p.o = 0, InMessage(g, p),
           NEW n \in Nat \ {0}, n =< g.size, p.b + n =< g.header.length,
           n # g.size => p.b + n = g.header.length
    PROVE  /\ Successor(g, p) = ByteAt(p, 1)
           /\ \A j \in 1..(n - 1) : Successor(g, ByteAt(p, j)) = ByteAt(p, j + 1)
           /\ Successor(g, ByteAt(p, n)) = Behind(g, p, n)
           /\ \A j \in 1..n : /\ ByteAt(p, j) \in Place /\ InMessage(g, ByteAt(p, j))
                              /\ Token(g, ByteAt(p, j)) = Byte(g.id, g.arg, p.b + j)
           /\ Behind(g, p, n) \in Place
           /\ p.b + n # g.header.length => InMessage(g, Behind(g, p, n))
<1>1. /\ p.m \in Nat /\ p.b \in Nat /\ p.k \in Nat /\ g.size \in Nat \ {0}
      /\ g.header.length \in Nat \ {0}
    BY SizesArePositive DEF Place, Message, SentHeader, Header
<1>2. p.b = p.k * g.size /\ p.k * g.size \in Nat
    BY <1>1 DEF InMessage
<1>3. Successor(g, p) = ByteAt(p, 1)
    <2>1. PICK x : x = [p EXCEPT !.head = FALSE]
        OBVIOUS
    <2>2. x \in Place /\ x.m = p.m /\ x.b = p.b /\ x.k = p.k /\ x.o = 0 /\ x.head = FALSE
        BY <2>1 DEF Place
    <2>3. x = [m |-> p.m, b |-> p.b, k |-> p.k, o |-> 0, head |-> FALSE]
        BY <2>2 DEF Place
    <2>4. p.b + 1 - 1 = p.b /\ 1 - 1 = 0
        BY <1>1
    <2>5. x = ByteAt(p, 1)
        BY <2>3, <2>4, Zenon DEF ByteAt
    <2>6. Successor(g, p) = x
        BY <2>1, Zenon DEF Successor
    <2> QED
        BY <2>5, <2>6, Zenon
<1>4. ASSUME NEW j \in 1..n
      PROVE  /\ ByteAt(p, j) \in Place /\ InMessage(g, ByteAt(p, j))
             /\ Token(g, ByteAt(p, j)) = Byte(g.id, g.arg, p.b + j)
    <2>1. /\ p.b + j - 1 \in Nat /\ j - 1 \in Nat /\ p.b + j - 1 + 1 = p.b + j
          /\ p.b + j - 1 < g.header.length /\ j - 1 < g.size
          /\ p.b + j - 1 = p.k * g.size + (j - 1)
        BY <1>1, <1>2
    <2> QED
        BY <1>1, <2>1 DEF ByteAt, Place, InMessage, Token
<1>5. ASSUME NEW j \in 1..(n - 1) PROVE Successor(g, ByteAt(p, j)) = ByteAt(p, j + 1)
    <2>1. /\ p.b + j - 1 + 1 = p.b + (j + 1) - 1 /\ j - 1 + 1 = (j + 1) - 1
          /\ p.b + j - 1 + 1 # g.header.length /\ j - 1 + 1 # g.size
        BY <1>1
    <2> QED
        BY <2>1 DEF Successor, ByteAt
<1>6. Successor(g, ByteAt(p, n)) = Behind(g, p, n)
    <2>1. p.b + n - 1 + 1 = p.b + n /\ n - 1 + 1 = n
        BY <1>1
    <2> QED
        BY <2>1 DEF Successor, ByteAt, Behind
<1>7. Behind(g, p, n) \in Place
    <2>1. p.m + 1 \in Nat /\ p.b + n \in Nat /\ p.k + 1 \in Nat
        BY <1>1
    <2> QED
        BY <1>1, <2>1 DEF Behind, Place
<1>8. ASSUME p.b + n # g.header.length PROVE InMessage(g, Behind(g, p, n))
    <2>1. n = g.size /\ p.b + n < g.header.length /\ 0 < g.size
        BY <1>1, <1>8
    <2>2. p.b + n = (p.k + 1) * g.size + 0
        <3>1. (p.k + 1) * g.size = p.k * g.size + g.size
            BY <1>1
        <3> QED
            BY <1>1, <1>2, <2>1, <3>1
    <2> QED
        BY <1>8, <2>1, <2>2 DEF Behind, InMessage
<1> QED
    BY <1>3, <1>4, <1>5, <1>6, <1>7, <1>8

\* A chunk of n bytes of message g is put on the wire, its header at place p.
ChunkPut(H, g, q, p, n) ==
    /\ H \in Seq(Message) /\ g \in Message /\ Len(H) \in Nat /\ Len(H) # 0 /\ g = H[Len(H)]
    /\ WireOK(H, q) /\ p = q[Len(wire) + 1] /\ p.m = Len(H)
    /\ p \in Place /\ p.head /\ p.o = 0 /\ InMessage(g, p)
    /\ n \in Nat \ {0} /\ n =< g.size /\ p.b + n =< g.header.length
    /\ n # g.size => p.b + n = g.header.length
    /\ wire' \in Seq(Tokens) /\ Len(wire') = Len(wire) + 1 + n
    /\ \A x \in 1..Len(wire) : wire'[x] = wire[x]
    /\ wire'[Len(wire) + 1] = Token(g, p)
    /\ \A k \in 1..n : wire'[Len(wire) + 1 + k] = Byte(g.id, g.arg, p.b + k)
    /\ Len(sent) \in Nat
    /\ Len(sent') = IF p.b + n = g.header.length THEN Len(sent) + 1 ELSE Len(sent)

\* What a chunk puts on the wire, and where it leads.
LEMMA WireGrows ==
    ASSUME NEW H, NEW g, NEW q, NEW p, NEW n, ChunkPut(H, g, q, p, n)
    PROVE  \E r : /\ WireOK(H, r)' /\ r[1] = q[1]
                  /\ r[Len(wire') + 1] = Behind(g, p, n)
<1> DEFINE N == Len(wire)
           end == Behind(g, p, n)
<1>1. /\ wire \in Seq(Tokens) /\ q \in [1..(N + 1) -> Place] /\ N \in Nat
      /\ \A x \in 1..(N + 1) : Sensible(H, q[x])
      /\ \A x \in 1..N : /\ q[x].m # Len(H) + 1 /\ wire[x] = Token(H[q[x].m], q[x])
                         /\ q[x + 1] = Successor(H[q[x].m], q[x])
    BY DEF ChunkPut, WireOK
<1>2. p \in Place /\ Sensible(H, p) /\ p = q[N + 1] /\ N + 1 \in 1..(N + 1) /\ 1 \in 1..(N + 1)
    <2>1. p = q[N + 1] /\ N + 1 \in 1..(N + 1) /\ 1 \in 1..(N + 1)
        BY <1>1 DEF ChunkPut
    <2> QED
        BY <1>1, <2>1
<1>3. /\ Successor(g, p) = ByteAt(p, 1)
      /\ \A j \in 1..(n - 1) : Successor(g, ByteAt(p, j)) = ByteAt(p, j + 1)
      /\ Successor(g, ByteAt(p, n)) = end
      /\ \A j \in 1..n : /\ ByteAt(p, j) \in Place /\ InMessage(g, ByteAt(p, j))
                         /\ Token(g, ByteAt(p, j)) = Byte(g.id, g.arg, p.b + j)
      /\ end \in Place
      /\ p.b + n # g.header.length => InMessage(g, end)
    BY <1>2, PlacesOfChunk DEF ChunkPut
<1> HIDE DEF N, end
<1>4. /\ Len(sent') \in Nat /\ Len(sent) \in Nat /\ Len(sent) =< Len(sent')
      /\ p.b + n = g.header.length => Len(sent') = Len(sent) + 1
    BY DEF ChunkPut
<1>5. /\ H[p.m] = g /\ Len(H) + 1 # p.m /\ p.m \in 1..(Len(H) + 1) /\ p.m =< Len(sent') + 1
      /\ p.b + n = g.header.length =>
            p.m + 1 = Len(H) + 1 /\ p.m + 1 \in 1..(Len(H) + 1) /\ p.m + 1 =< Len(sent') + 1
    <2>1. Len(H) \in Nat /\ Len(H) # 0 /\ p.m = Len(H) /\ g = H[Len(H)]
        BY DEF ChunkPut
    <2>2. p.m =< Len(sent) + 1
        BY <1>2 DEF Sensible
    <2> QED
        BY <1>4, <2>1, <2>2
<1>6. ASSUME NEW x \in 1..(N + 1) PROVE q[x].m =< Len(sent') + 1
    <2>1. q[x] \in Place /\ Sensible(H, q[x])
        BY <1>1
    <2>2. q[x].m \in Nat /\ q[x].m =< Len(sent) + 1
        BY <2>1 DEF Sensible, Place
    <2> QED
        BY <1>4, <2>2
<1>7. /\ wire' \in Seq(Tokens) /\ Len(wire') = N + 1 + n
      /\ \A x \in 1..N : wire'[x] = wire[x]
      /\ wire'[N + 1] = Token(g, p)
      /\ \A k \in 1..n : wire'[N + 1 + k] = Byte(g.id, g.arg, p.b + k)
    BY DEF N, ChunkPut
<1>8. N \in Nat /\ n \in Nat \ {0}
    BY <1>1 DEF ChunkPut
<1>9. PICK r \in [1..(N + 1 + n + 1) -> Place] :
             /\ \A x \in 1..(N + 1) : r[x] = q[x]
             /\ \A j \in 1..n : r[N + 1 + j] = ByteAt(p, j)
             /\ r[N + 1 + n + 1] = end
    <2>0. PICK e \in Place : e = end
        BY <1>3
    <2>1. PICK r : r = [x \in 1..(N + 1 + n + 1) |->
                           IF x =< N + 1 THEN q[x]
                           ELSE IF x =< N + 1 + n THEN ByteAt(p, x - (N + 1)) ELSE e]
        OBVIOUS
    <2>2. ASSUME NEW x \in 1..(N + 1) PROVE r[x] = q[x]
        <3>1. x \in 1..(N + 1 + n + 1) /\ x =< N + 1
            BY <1>8
        <3> QED
            BY <2>1, <3>1
    <2>3. ASSUME NEW j \in 1..n PROVE r[N + 1 + j] = ByteAt(p, j)
        <3>1. /\ N + 1 + j \in 1..(N + 1 + n + 1) /\ ~(N + 1 + j =< N + 1)
              /\ N + 1 + j =< N + 1 + n /\ N + 1 + j - (N + 1) = j
            BY <1>8
        <3> QED
            BY <1>8, <2>1, <3>1
    <2>4. r[N + 1 + n + 1] = e
        <3>1. /\ N + 1 + n + 1 \in 1..(N + 1 + n + 1) /\ ~(N + 1 + n + 1 =< N + 1)
              /\ ~(N + 1 + n + 1 =< N + 1 + n)
            BY <1>8
        <3> QED
            BY <1>8, <2>1, <3>1
    <2>5. ASSUME NEW x \in 1..(N + 1 + n + 1) PROVE r[x] \in Place
        <3>1. CASE x \in 1..(N + 1)
            BY <1>1, <2>2, <3>1
        <3>2. CASE \E j \in 1..n : x = N + 1 + j
            BY <1>3, <2>3, <3>2
        <3>3. CASE x = N + 1 + n + 1
            BY <2>4, <3>3
        <3> QED
            BY <1>8, <3>1, <3>2, <3>3, Positions
    <2>6. r \in [1..(N + 1 + n + 1) -> Place]
        BY <2>1, <2>5
    <2> QED
        BY <2>2, <2>3, <2>4, <2>6, <2>0
<1>10. /\ \A x \in 1..(N + 1 + n + 1) :
              x \in 1..(N + 1) \/ (\E j \in 1..n : x = N + 1 + j) \/ x = N + 1 + n + 1
       /\ \A x \in 1..(N + 1 + n) :
              x \in 1..N \/ x = N + 1 \/ \E j \in 1..n : x = N + 1 + j
       /\ \A x \in 1..N : x \in 1..(N + 1) /\ x + 1 \in 1..(N + 1)
       /\ \A j \in 1..n :
              \/ j = n
              \/ j \in 1..(n - 1) /\ j + 1 \in 1..n /\ N + 1 + j + 1 = N + 1 + (j + 1)
       /\ 1 \in 1..n
    BY <1>8, Positions
<1>11. ASSUME NEW x \in 1..(N + 1 + n + 1) PROVE Sensible(H, r[x])'
    <2>1. CASE x \in 1..(N + 1)
        <3>1. r[x] = q[x] /\ Sensible(H, q[x]) /\ q[x] \in Place
            BY <1>1, <1>9, <2>1
        <3>2. q[x].m =< Len(sent') + 1
            BY <1>6, <2>1, <3>1
        <3> QED
            BY <3>1, <3>2 DEF Sensible
    <2>2. CASE \E j \in 1..n : x = N + 1 + j
        <3>1. PICK j \in 1..n : x = N + 1 + j
            BY <2>2
        <3>2. r[x] = ByteAt(p, j) /\ InMessage(g, ByteAt(p, j))
            BY <1>3, <1>9, <3>1
        <3>3. r[x].m = p.m /\ ~r[x].head
            BY <3>2 DEF ByteAt
        <3> QED
            BY <1>5, <3>2, <3>3 DEF Sensible
    <2>3. CASE x = N + 1 + n + 1
        <3>1. r[x] = end
            BY <1>9, <2>3
        <3>2. CASE p.b + n = g.header.length
            <4>1. /\ end.m = p.m + 1 /\ end.b = 0 /\ end.k = 0 /\ end.o = 0 /\ end.head
                BY <3>2 DEF end, Behind
            <4> QED
                BY <1>5, <3>1, <3>2, <4>1 DEF Sensible
        <3>3. CASE p.b + n # g.header.length
            <4>1. end.m = p.m /\ end.o = 0
                BY <3>3 DEF end, Behind
            <4> QED
                BY <1>3, <1>5, <3>1, <3>3, <4>1 DEF Sensible
        <3> QED
            BY <3>2, <3>3
    <2> QED
        BY <1>10, <2>1, <2>2, <2>3
<1>12. ASSUME NEW x \in 1..(N + 1 + n)
       PROVE  /\ r[x].m # Len(H) + 1 /\ wire'[x] = Token(H[r[x].m], r[x])
              /\ r[x + 1] = Successor(H[r[x].m], r[x])
    <2>1. CASE x \in 1..N
        <3>1. x \in 1..(N + 1) /\ x + 1 \in 1..(N + 1)
            BY <1>10, <2>1
        <3> QED
            BY <1>1, <1>7, <1>9, <2>1, <3>1
    <2>2. CASE x = N + 1
        <3>1. r[x] = p
            BY <1>2, <1>9, <2>2
        <3>2. N + 1 + 1 = x + 1 /\ 1 \in 1..n
            BY <1>10, <2>2
        <3>3. r[x + 1] = ByteAt(p, 1)
            BY <1>9, <3>2
        <3>4. wire'[x] = Token(g, p)
            BY <1>7, <2>2
        <3> QED
            BY <1>3, <1>5, <3>1, <3>3, <3>4
    <2>3. CASE \E j \in 1..n : x = N + 1 + j
        <3>1. PICK j \in 1..n : x = N + 1 + j
            BY <2>3
        <3>2. r[x] = ByteAt(p, j) /\ wire'[x] = Token(g, ByteAt(p, j)) /\ ByteAt(p, j).m = p.m
            BY <1>3, <1>7, <1>9, <3>1 DEF ByteAt
        <3>3. r[x + 1] = Successor(g, ByteAt(p, j))
            <4>1. CASE j = n
                <5>1. x + 1 = N + 1 + n + 1
                    BY <3>1, <4>1
                <5> QED
                    BY <1>3, <1>9, <4>1, <5>1
            <4>2. CASE j # n
                <5>1. j \in 1..(n - 1) /\ j + 1 \in 1..n /\ x + 1 = N + 1 + (j + 1)
                    BY <1>10, <3>1, <4>2
                <5> QED
                    BY <1>3, <1>9, <5>1
            <4> QED
                BY <4>1, <4>2
        <3> QED
            BY <1>5, <3>2, <3>3
    <2> QED
        BY <1>10, <2>1, <2>2, <2>3
<1>13. WireOK(H, r)'
    BY <1>7, <1>9, <1>11, <1>12 DEF WireOK
<1>14. r[1] = q[1] /\ r[Len(wire') + 1] = end
    BY <1>2, <1>7, <1>9
<1> QED
    BY <1>13, <1>14 DEF end

\* What WriteChunk does for the sender when it cuts off n bytes.
Cut(g, last, w, n) ==
    /\ n \in Nat \ {0} /\ n =< g.size /\ last.b + n =< g.header.length
    /\ n # g.size => last.b + n = g.header.length
    /\ wire' = wire \o <<Token(g, last)>>
                    \o [k \in 1..n |-> Byte(g.id, g.arg, last.b + k)]
    /\ job' = [job EXCEPT ![w].i = last.b + n, ![w].fmt = 3]
    /\ sent' = IF last.b + n = g.header.length THEN Append(sent, Whole(g)) ELSE sent
    /\ UNCHANGED <<headersOut, nearChunkSize, started, receiver>>

\* What WriteChunk cuts off the message.
LEMMA ChunkCut ==
    ASSUME NEW H, NEW g \in Message, NEW last, NEW w, Ready(H, g, last, w), WriteChunk(w)
    PROVE  \E n \in Nat \ {0} :
               /\ n =< g.size /\ last.b + n =< g.header.length
               /\ n # g.size => last.b + n = g.header.length
               /\ wire' = wire \o <<Token(g, last)>>
                               \o [k \in 1..n |-> Byte(g.id, g.arg, last.b + k)]
               /\ job' = [job EXCEPT ![w].i = last.b + n, ![w].fmt = 3]
               /\ sent' = IF last.b + n = g.header.length
                          THEN Append(sent, Whole(g)) ELSE sent
               /\ UNCHANGED <<headersOut, nearChunkSize, started, receiver>>
<1> DEFINE rest == g.header.length - last.b
           n == IF rest > g.size THEN g.size ELSE rest
<1>1. /\ job[w].csid = g.csid /\ job[w].header = g.header
      /\ job[w].id = g.id /\ job[w].arg = g.arg /\ job[w].i = last.b
      /\ ChunkHeader(job[w].csid, job[w].fmt, job[w].header) = Token(g, last)
      /\ nearChunkSize = g.size
    BY DEF Ready
<1>2. /\ rest > 0
      /\ wire' = wire \o <<Token(g, last)>>
                      \o [k \in 1..n |-> Byte(g.id, g.arg, last.b + k)]
      /\ job' = [job EXCEPT ![w].i = last.b + n, ![w].fmt = 3]
      /\ sent' = IF n = rest
                 THEN Append(sent, [header |-> g.header,
                                    payload |-> [k \in 1..g.header.length |->
                                                    Byte(g.id, g.arg, k)]])
                 ELSE sent
      /\ UNCHANGED <<headersOut, nearChunkSize, started, receiver>>
    BY <1>1, Zenon DEF WriteChunk
<1>3. /\ last.b \in Nat /\ g.size \in Nat \ {0} /\ g.header.length \in Nat
    BY SizesArePositive DEF Ready, Place, Message, SentHeader, Header
<1>4. /\ n \in Nat \ {0} /\ n =< g.size /\ last.b + n =< g.header.length
      /\ n # g.size => last.b + n = g.header.length
      /\ n = rest <=> last.b + n = g.header.length
    <2>1. rest > 0
        BY <1>2
    <2> QED
        BY <1>3, <2>1
<1> HIDE DEF n, rest
<1>5. sent' = IF last.b + n = g.header.length THEN Append(sent, Whole(g)) ELSE sent
    BY <1>2, <1>4, Zenon DEF Whole
<1> QED
    BY <1>2, <1>4, <1>5, Zenon

\* The sender behind the chunk.
LEMMA SenderMoves ==
    ASSUME NEW G, NEW H, NEW g \in Message, NEW last, NEW w \in Writers, NEW n,
           SenderOK(G, last), job[w] # NoJob, Ready(H, g, last, w), Cut(g, last, w, n)
    PROVE  SenderOK(H, Behind(g, last, n))'
<1> DEFINE j == job[w]
           end == Behind(g, last, n)
           L == g.header.length
<1>1. /\ H \in Seq(Message) /\ Len(H) \in Nat \ {0} /\ g = H[Len(H)]
      /\ last \in Place /\ last.head /\ last.o = 0 /\ last.m = Len(H)
      /\ j.csid = g.csid /\ j.header = g.header
      /\ j.id = g.id /\ j.arg = g.arg /\ j.i = last.b /\ nearChunkSize = g.size
      /\ \A i \in 1..Len(sent) : sent[i] = Whole(H[i])
      /\ \A u \in Sending \ {w} : ~Active(u)
      /\ \A u \in Sending \ {w} : job[u].fmt = Format(After(g)[job[u].csid], job[u].header)
      /\ \A c \in Streams : (\A u \in Sending \ {w} : job[u].csid # c) =>
            headersOut[c] = After(g)[c]
    BY DEF Ready
<1>2. /\ last.m = Len(sent) + 1
      /\ sent \in Seq({Whole(h) : h \in Message})
      /\ started \in [Writers -> Nat] /\ job \in [Writers -> Job \cup {NoJob}]
      /\ headersOut \in [Streams -> Header \cup {NoHeader}] /\ nearChunkSize \in Sizes
    BY DEF SenderOK
<1>3. /\ j \in Job /\ j.header \in SentHeader /\ headersOut[j.csid] = j.header
      /\ last.b \in Nat /\ L \in Nat /\ n \in Nat \ {0} /\ last.b + n =< L
    <2>1. JobOK(G, last, w)
        BY DEF SenderOK
    <2>2. j \in Job /\ j.header \in SentHeader /\ headersOut[j.csid] = j.header
        BY <2>1 DEF JobOK
    <2>3. last.b \in Nat /\ L \in Nat
        BY <1>1 DEF Place, Message, SentHeader, Header
    <2>4. n \in Nat \ {0} /\ last.b + n =< L
        BY DEF Cut
    <2> QED
        BY <2>2, <2>3, <2>4
<1>4. /\ job' = [job EXCEPT ![w].i = last.b + n, ![w].fmt = 3]
      /\ sent' = IF last.b + n = L THEN Append(sent, Whole(g)) ELSE sent
      /\ UNCHANGED <<headersOut, nearChunkSize, started>>
    BY DEF Cut
<1>5. last.b + n \in Nat /\ last.b + n > 0 /\ last.b + n # 0
    BY <1>3
<1>6. /\ end.head
      /\ last.b + n = L => end.m = Len(H) + 1
      /\ last.b + n # L => end.m = Len(H) /\ end.b = last.b + n
    BY <1>1 DEF Behind
<1> HIDE DEF end, L, j
<1>7. PICK x : x = [j EXCEPT !.i = last.b + n, !.fmt = 3]
    OBVIOUS
<1>8. /\ x \in Job /\ x.csid = j.csid /\ x.header = j.header /\ x.id = j.id /\ x.arg = j.arg
      /\ x.i = last.b + n /\ x.fmt = 3
    <2>1. /\ j.csid \in CSIDs \cup {Control} /\ j.header \in Header /\ j.id \in Writers \X Nat
          /\ j.arg \in ChunkSizes \cup {FirstChunkSize}
        BY <1>3 DEF Job
    <2>2. x = [csid |-> j.csid, header |-> j.header, id |-> j.id, arg |-> j.arg, fmt |-> 3,
               i |-> last.b + n]
        BY <1>3, <1>7 DEF Job
    <2> HIDE DEF Header
    <2>3. 3 \in 0..3
        OBVIOUS
    <2>4. x \in Job
        BY <1>5, <2>1, <2>2, <2>3 DEF Job
    <2> QED
        BY <2>2, <2>4
<1> HIDE DEF Job, Header
<1>9. job' = [job EXCEPT ![w] = x]
    BY <1>2, <1>3, <1>4, <1>7 DEF j
<1>10. job'[w] = x /\ \A u \in Writers : u # w => job'[u] = job[u]
    BY <1>2, <1>9
<1>11. job' \in [Writers -> Job \cup {NoJob}]
    BY <1>2, <1>8, <1>9
<1>12. x # NoJob
    BY <1>8, ChunkAssumption DEF ChunkAssumption
<1>13. Sending' = Sending /\ w \in Sending
    <2>1. Sending' \subseteq Sending /\ Sending \subseteq Sending'
        BY <1>10, <1>12 DEF Sending
    <2> QED
        BY <2>1 DEF Sending
<1>14. Active(w)' /\ \A u \in Writers : u # w => ~Active(u)'
    <2>1. Active(w)'
        BY <1>5, <1>8, <1>10, <1>12 DEF Active
    <2>2. \A u \in Writers : u # w => ~Active(u)
        BY <1>1 DEF Active, Sending
    <2> QED
        BY <1>10, <2>1, <2>2 DEF Active
<1>15. ASSUME NEW u \in Sending, u # w
       PROVE  /\ u \in Writers /\ job'[u] = job[u] /\ job[u] # NoJob /\ JobOK(G, last, u)
              /\ job[u].i = 0 /\ job[u].fmt = Format(After(g)[job[u].csid], job[u].header)
    <2>1. u \in Writers /\ job[u] # NoJob
        BY DEF Sending
    <2>2. JobOK(G, last, u)
        BY <2>1 DEF SenderOK
    <2>3. job[u].i \in Nat
        BY <2>2 DEF JobOK, Job
    <2>4. job[u].i = 0
        BY <1>1, <1>15, <2>1, <2>3 DEF Active
    <2> QED
        BY <1>1, <1>10, <1>15, <2>1, <2>2, <2>4
<1>16. KnownAt(H, Len(H) + 1) = After(g)
    <2>1. Len(H) + 1 # 1 /\ Len(H) + 1 - 1 = Len(H)
        BY <1>1
    <2> QED
        BY <1>1, <2>1 DEF KnownAt
<1>17. ASSUME NEW u \in Writers, job'[u] # NoJob PROVE JobOK(H, end, u)'
    <2>1. CASE u = w
        <3>1. Len(H) > 0 /\ last.b + n =< L /\ L = x.header.length
            BY <1>1, <1>3, <1>8 DEF L
        <3>2. /\ x \in Job /\ x.header \in SentHeader /\ x.i =< x.header.length
              /\ headersOut'[x.csid] = x.header /\ x.i # 0 /\ x.fmt = 3
            BY <1>3, <1>4, <1>5, <1>8, <3>1
        <3>3. /\ H[Len(H)].csid = x.csid /\ H[Len(H)].header = x.header
              /\ H[Len(H)].id = x.id /\ H[Len(H)].arg = x.arg
              /\ nearChunkSize' = H[Len(H)].size
            BY <1>1, <1>4, <1>8
        <3>4. /\ x.i # x.header.length => end.m = Len(H) /\ end.b = x.i
              /\ x.i = x.header.length => end.m = Len(H) + 1
            BY <1>6, <1>8, <3>1
        <3>5. job'[u] = x
            BY <1>10, <2>1
        <3> QED
            BY <3>1, <3>2, <3>3, <3>4, <3>5 DEF JobOK
    <2>2. CASE u # w
        <3>1. u \in Sending /\ job'[u] = job[u]
            BY <1>10, <1>13, <1>17, <2>2 DEF Sending
        <3>2. /\ JobOK(G, last, u) /\ job[u].i = 0
              /\ job[u].fmt = Format(After(g)[job[u].csid], job[u].header)
            BY <1>15, <2>2, <3>1
        <3>3. ~(job[u].i > 0)
            BY <3>2
        <3> QED
            BY <1>4, <1>16, <3>1, <3>2, <3>3 DEF JobOK
    <2> QED
        BY <2>1, <2>2
<1>18. \A u, v \in Sending' : u # v => job'[u].csid # job'[v].csid
    <2>1. \A u, v \in Sending : u # v => job[u].csid # job[v].csid
        BY DEF SenderOK
    <2>2. \A u \in Sending : job'[u].csid = job[u].csid
        BY <1>8, <1>10 DEF Sending, j
    <2> QED
        BY <1>13, <2>1, <2>2
<1>19. ASSUME NEW c \in Streams, \A u \in Sending' : job'[u].i = 0 => job'[u].csid # c
       PROVE  headersOut'[c] = KnownAt(H, Len(H) + 1)[c]
    <2>1. \A u \in Sending \ {w} : job[u].csid # c
        BY <1>13, <1>15, <1>19
    <2> QED
        BY <1>1, <1>4, <1>16, <2>1
<1>20. /\ sent' \in Seq({Whole(h) : h \in Message}) /\ end.m = Len(sent') + 1
       /\ \A i \in 1..Len(sent') : sent'[i] = Whole(H[i])
    <2>1. CASE last.b + n # L
        BY <1>1, <1>2, <1>4, <1>6, <2>1
    <2>2. CASE last.b + n = L
        <3>1. PICK a \in {Whole(h) : h \in Message} : a = Whole(g)
            OBVIOUS
        <3>2. sent' = Append(sent, a)
            BY <1>4, <2>2, <3>1
        <3>3. /\ Append(sent, a) \in Seq({Whole(h) : h \in Message})
              /\ Len(Append(sent, a)) = Len(sent) + 1 /\ Len(sent) \in Nat
              /\ \A i \in 1..Len(sent) : Append(sent, a)[i] = sent[i]
              /\ Append(sent, a)[Len(sent) + 1] = a
            BY <1>2, OneMore
        <3>4. ASSUME NEW i \in 1..Len(sent') PROVE sent'[i] = Whole(H[i])
            <4>1. i \in 1..Len(sent) \/ i = Len(sent) + 1
                BY <3>2, <3>3
            <4>2. CASE i \in 1..Len(sent)
                BY <1>1, <3>2, <3>3, <4>2
            <4>3. CASE i = Len(sent) + 1
                BY <1>1, <1>2, <3>1, <3>2, <3>3, <4>3
            <4> QED
                BY <4>1, <4>2, <4>3
        <3>5. end.m = Len(sent') + 1
            BY <1>1, <1>2, <1>6, <2>2, <3>2, <3>3
        <3> QED
            BY <3>2, <3>3, <3>4, <3>5
    <2> QED
        BY <2>1, <2>2
<1>21. SenderOK(H, end)'
    <2>1. \A u, v \in Writers : Active(u)' /\ Active(v)' => u = v
        BY <1>14
    <2> QED
        BY <1>2, <1>4, <1>6, <1>11, <1>14, <1>17, <1>18, <1>19, <1>20, <2>1 DEF SenderOK
<1> QED
    BY <1>21 DEF end

\* Writing a chunk, the first of its message or another, keeps the invariant.
LEMMA WriteChunkStep ==
    ASSUME NEW G, NEW q, NEW last, Along(G, q, last), NEW w \in Writers,
           WriteChunk(w), ~mixed'
    PROVE  \E H, r, end : Along(H, r, end)'
<1>1. /\ last \in Place /\ SenderOK(G, last) /\ Len(wire) \in Nat /\ last = q[Len(wire) + 1]
    BY AtEnd
<1>2. /\ job[w] # NoJob /\ job[w].header.length - job[w].i > 0
      /\ \A u \in Sending \ {w} : ~Active(u)
    BY DEF WriteChunk, Active
<1>3. PICK H \in Seq(Message), g \in Message :
          Ready(H, g, last, w) /\ WireOK(H, q) /\ ReceiverOK(H, q[1])
    <2>1. CASE job[w].i = 0
        BY <1>2, <2>1, FirstChunk
    <2>2. CASE job[w].i # 0
        <3>1. job[w].header.length \in Nat
            BY <1>1, <1>2 DEF SenderOK, JobOK, SentHeader, Header
        <3>2. job[w].i # job[w].header.length
            BY <1>2, <3>1
        <3> QED
            BY <1>2, <2>2, <3>2, MoreChunks
    <2> QED
        BY <2>1, <2>2
<1>4. PICK n \in Nat \ {0} : Cut(g, last, w, n)
    BY <1>3, ChunkCut, Zenon DEF Cut
<1>5. SenderOK(H, Behind(g, last, n))'
    BY <1>1, <1>2, <1>3, <1>4, SenderMoves
<1>6. /\ History(H) /\ Len(H) # 0 /\ g = H[Len(H)] /\ Len(H) \in Nat
      /\ last.head /\ last.o = 0 /\ last.m = Len(H) /\ InMessage(g, last)
    BY <1>3 DEF Ready
<1>7. /\ wire \in Seq(Tokens) /\ \A x \in 1..(Len(wire) + 1) : Sensible(H, q[x])
    BY <1>3 DEF WireOK
<1>8. /\ wire' \in Seq(Tokens) /\ Len(wire') = Len(wire) + 1 + n
      /\ \A x \in 1..Len(wire) : wire'[x] = wire[x]
      /\ wire'[Len(wire) + 1] = Token(g, last)
      /\ \A k \in 1..n : wire'[Len(wire) + 1 + k] = Byte(g.id, g.arg, last.b + k)
    <2>1. /\ n =< g.size /\ last.b + n =< g.header.length
          /\ n # g.size => last.b + n = g.header.length
        BY <1>4 DEF Cut
    <2>2. \A k \in 1..n : /\ ByteAt(last, k) \in Place
                          /\ Token(g, ByteAt(last, k)) = Byte(g.id, g.arg, last.b + k)
        BY <1>1, <1>6, <2>1, PlacesOfChunk
    <2>3. \A k \in 1..n : Byte(g.id, g.arg, last.b + k) \in Tokens
        BY <2>2 DEF Tokens
    <2>4. PICK h \in Tokens : h = Token(g, last)
        BY <1>1 DEF Tokens
    <2>5. PICK d \in [1..n -> Tokens] : d = [k \in 1..n |-> Byte(g.id, g.arg, last.b + k)]
        BY <2>3
    <2>6. wire' = wire \o <<h>> \o d
        BY <1>4, <2>4, <2>5, Zenon DEF Cut
    <2>7. PICK s \in Seq(Tokens) : s = wire
        BY <1>7
    <2>8. /\ s \o <<h>> \o d \in Seq(Tokens) /\ Len(s \o <<h>> \o d) = Len(s) + 1 + n
          /\ \A x \in 1..Len(s) : (s \o <<h>> \o d)[x] = s[x]
          /\ (s \o <<h>> \o d)[Len(s) + 1] = h
          /\ \A k \in 1..n : (s \o <<h>> \o d)[Len(s) + 1 + k] = d[k]
        BY ChunkAdded
    <2>9. wire' = s \o <<h>> \o d
        BY <2>6, <2>7, Zenon
    <2>10. \A k \in 1..n : d[k] = Byte(g.id, g.arg, last.b + k)
        BY <2>5
    <2>11. /\ wire' \in Seq(Tokens) /\ Len(wire') = Len(s) + 1 + n
           /\ \A x \in 1..Len(s) : wire'[x] = s[x]
           /\ wire'[Len(s) + 1] = h
           /\ \A k \in 1..n : wire'[Len(s) + 1 + k] = d[k]
        BY <2>8, <2>9, Zenon
    <2> QED
        BY <2>4, <2>7, <2>10, <2>11
<1>9. ChunkPut(H, g, q, last, n)
    <2>1. /\ Len(sent) \in Nat
          /\ Len(sent') = IF last.b + n = g.header.length THEN Len(sent) + 1 ELSE Len(sent)
        <3>1. sent \in Seq({Whole(h) : h \in Message})
            BY <1>1 DEF SenderOK
        <3>2. PICK a \in {Whole(h) : h \in Message} : a = Whole(g)
            OBVIOUS
        <3>3. Len(Append(sent, a)) = Len(sent) + 1 /\ Len(sent) \in Nat
            BY <3>1, OneMore
        <3>4. sent' = IF last.b + n = g.header.length THEN Append(sent, a) ELSE sent
            BY <1>4, <3>2 DEF Cut
        <3> QED
            BY <3>3, <3>4
    <2>2. /\ n =< g.size /\ last.b + n =< g.header.length
          /\ n # g.size => last.b + n = g.header.length
        BY <1>4 DEF Cut
    <2> QED
        BY <1>1, <1>3, <1>6, <1>8, <2>1, <2>2 DEF ChunkPut
<1>10. PICK r : /\ WireOK(H, r)' /\ r[1] = q[1]
                /\ r[Len(wire') + 1] = Behind(g, last, n)
    BY <1>9, WireGrows
<1>11. ReceiverOK(H, r[1])'
    <2>1. UNCHANGED <<expect, message, messages, aliases, farChunkSize, delivered, broken>>
        BY <1>4 DEF Cut, receiver
    <2>2. ReceiverOK(H, q[1])'
        BY <1>3, <2>1 DEF ReceiverOK
    <2> QED
        BY <1>10, <2>2
<1>12. PICK end : end = Behind(g, last, n)
    OBVIOUS
<1>13. Along(H, r, end)'
    BY <1>5, <1>6, <1>10, <1>11, <1>12 DEF Along
<1> QED
    BY <1>13

-----------------------------------------------------------------------------
\* At first the history is empty and both ends are at its end.
LEMMA ChunkInvInit == ChunkInit => ChunkInv
<1> SUFFICES ASSUME ChunkInit PROVE \E G, q, last : Along(G, q, last)
    BY DEF ChunkInv
<1>1. /\ headersOut = [c \in Streams |-> NoHeader] /\ nearChunkSize = FirstChunkSize
      /\ job = [w \in Writers |-> NoJob] /\ started = [w \in Writers |-> 0]
      /\ expect = "header" /\ aliases = {} /\ farChunkSize = FirstChunkSize /\ broken = FALSE
      /\ messages = [c \in Streams |-> NoHeader]
    BY DEF ChunkInit, Streams
<1>2. PICK G \in Seq(Message) : Len(G) = 0
    <2>1. <<>> \in Seq(Message) /\ Len(<<>>) = 0
        OBVIOUS
    <2> QED
        BY <2>1, Zenon
<1>3. wire \in Seq(Tokens) /\ Len(wire) = 0
    BY DEF ChunkInit
<1>4. sent \in Seq({Whole(h) : h \in Message}) /\ Len(sent) = 0
    BY DEF ChunkInit
<1>5. delivered \in Seq({Whole(h) : h \in Message}) /\ Len(delivered) = 0
    BY DEF ChunkInit
<1>6. /\ message \in [header : Header \cup {EmptyHeader}, buffer : Seq(Tokens)]
      /\ Len(message.buffer) = 0 /\ message.header = EmptyHeader
    <2>1. PICK b \in Seq(Tokens) : b = <<>> /\ Len(b) = 0
        <3>1. <<>> \in Seq(Tokens) /\ Len(<<>>) = 0
            OBVIOUS
        <3> QED
            BY <3>1, Zenon
    <2>2. message = [header |-> EmptyHeader, buffer |-> b]
        BY <2>1 DEF ChunkInit, NewMessage
    <2> QED
        BY <2>2, <2>1
<1>7. PICK p \in Place : p.m = 1 /\ p.b = 0 /\ p.k = 0 /\ p.o = 0 /\ p.head
    <2>1. PICK p : p = [m |-> 1, b |-> 0, k |-> 0, o |-> 0, head |-> TRUE]
        OBVIOUS
    <2>2. p \in Place /\ p.m = 1 /\ p.b = 0 /\ p.k = 0 /\ p.o = 0 /\ p.head
        BY <2>1 DEF Place
    <2> QED
        BY <2>2
<1>8. PICK q \in [1..1 -> Place] : q[1] = p
    <2>1. [x \in 1..1 |-> p] \in [1..1 -> Place] /\ [x \in 1..1 |-> p][1] = p
        OBVIOUS
    <2> QED
        BY <2>1
<1>9. /\ KnownAt(G, 1) = [c \in Streams |-> NoHeader] /\ SizeAt(G, 1) = FirstChunkSize
    BY DEF KnownAt, SizeAt
<1>10. History(G)
    BY <1>2 DEF History
<1>11. WireOK(G, q) /\ q[1] = q[Len(wire) + 1]
    <2>1. \A x \in 1..(Len(wire) + 1) : Sensible(G, q[x])
        BY <1>2, <1>3, <1>4, <1>7, <1>8 DEF Sensible
    <2>2. q \in [1..(Len(wire) + 1) -> Place]
        BY <1>3, <1>8
    <2>3. \A x \in 1..Len(wire) :
              /\ q[x].m # Len(G) + 1 /\ wire[x] = Token(G[q[x].m], q[x])
              /\ q[x + 1] = Successor(G[q[x].m], q[x])
        BY <1>3
    <2> QED
        BY <1>3, <2>1, <2>2, <2>3 DEF WireOK
<1>12. ReceiverOK(G, p)
    BY <1>1, <1>5, <1>6, <1>7, <1>9 DEF ReceiverOK
<1>13. SenderOK(G, p)
    <2>1. \A w \in Writers : job[w] = NoJob /\ ~Active(w)
        BY <1>1 DEF Active
    <2>2. Sending = {}
        BY <2>1 DEF Sending
    <2>3. /\ started \in [Writers -> Nat] /\ job \in [Writers -> Job \cup {NoJob}]
          /\ headersOut \in [Streams -> Header \cup {NoHeader}] /\ nearChunkSize \in Sizes
        BY <1>1 DEF Sizes
    <2>4. Len(G) + 1 = 1 /\ p.m = Len(sent) + 1 /\ p.m = Len(G) + 1
        BY <1>2, <1>4, <1>7
    <2>5. \A i \in 1..Len(sent) : sent[i] = Whole(G[i])
        BY <1>4
    <2> QED
        BY <1>1, <1>4, <1>7, <1>9, <2>1, <2>2, <2>3, <2>4, <2>5 DEF SenderOK
<1> QED
    BY <1>8, <1>10, <1>11, <1>12, <1>13 DEF Along

\* The two kinds of messages.
LEMMA SendsStart ==
    ASSUME NEW w \in Writers, SendData(w) \/ SetChunkSize(w)
    PROVE  \E csid \in Streams, h \in SentHeader, arg \in Sizes : Start(w, csid, h, arg)
<1>1. CASE SendData(w)
    <2>1. PICK c \in CSIDs, k \in Kinds :
              Start(w, c, [type |-> "data", length |-> k.length, time |-> k.time,
                           stream |-> k.stream], FirstChunkSize)
        BY <1>1 DEF SendData
    <2>2. k.length \in Nat \ {0} /\ k.time \in Nat /\ k.stream \in Nat
        BY ChunkAssumption DEF ChunkAssumption
    <2>3. PICK h : h = [type |-> "data", length |-> k.length, time |-> k.time,
                        stream |-> k.stream]
        OBVIOUS
    <2>4. h \in SentHeader
        BY <2>2, <2>3 DEF SentHeader, Header
    <2>5. c \in Streams /\ FirstChunkSize \in Sizes
        BY DEF Streams, Sizes
    <2> QED
        BY <2>1, <2>3, <2>4, <2>5
<1>2. CASE SetChunkSize(w)
    <2>1. PICK n \in ChunkSizes :
              Start(w, Control,
                    [type |-> "setChunkSize", length |-> 4, time |-> 0, stream |-> 0], n)
        BY <1>2 DEF SetChunkSize
    <2>2. PICK h : h = [type |-> "setChunkSize", length |-> 4, time |-> 0, stream |-> 0]
        OBVIOUS
    <2>3. h \in SentHeader
        BY <2>2 DEF SentHeader, Header
    <2>4. Control \in Streams /\ n \in Sizes
        BY DEF Streams, Sizes
    <2> QED
        BY <2>1, <2>2, <2>3, <2>4
<1> QED
    BY <1>1, <1>2

\* Every step keeps the invariant.
LEMMA ChunkInvNext == ChunkInv /\ [ChunkNext]_chunkVars => ChunkInv'
<1> SUFFICES ASSUME ChunkInv, [ChunkNext]_chunkVars, ~mixed'
             PROVE  \E H, r, end : Along(H, r, end)'
    BY DEF ChunkInv
<1>1. ~mixed
    BY DEF ChunkNext, SendData, SetChunkSize, Start, Write, WriteChunk, Return, Parse,
           ReadHeader, ReadByte, Done, chunkVars, sender
<1>2. PICK G, q, last : Along(G, q, last)
    BY <1>1 DEF ChunkInv
<1>3. ASSUME NEW w \in Writers, SendData(w) \/ SetChunkSize(w)
      PROVE  \E H, r, end : Along(H, r, end)'
    <2>1. PICK csid \in Streams, h \in SentHeader, arg \in Sizes : Start(w, csid, h, arg)
        BY <1>3, SendsStart
    <2> QED
        BY <1>2, <2>1, StartStep
<1>4. ASSUME NEW w \in Writers, Write(w) PROVE \E H, r, end : Along(H, r, end)'
    BY <1>2, <1>4, WriteChunkStep, ReturnStep DEF Write
<1>5. CASE Parse
    BY <1>2, <1>5, ReadHeaderStep, ReadByteStep DEF Parse
<1>6. CASE UNCHANGED chunkVars
    <2>1. UNCHANGED <<sent, wire, receiver>> /\ UNCHANGED sender
        BY <1>6 DEF chunkVars, sender
    <2>2. SenderOK(G, last)'
        BY <1>2, <2>1, SenderStays DEF Along
    <2> QED
        BY <1>2, <2>1, <2>2, OnlySender
<1> QED
    BY <1>3, <1>4, <1>5, <1>6 DEF ChunkNext, Done

\* The invariant of the chunk stream.
LEMMA ChunkInvAlways == ChunkSpec => []ChunkInv
BY ChunkInvInit, ChunkInvNext, PTL DEF ChunkSpec

\* With nothing in flight the two ends are at the same place of the history.
LEMMA AgreeInv == ChunkInv => EndsAgree
<1> SUFFICES ASSUME ChunkInv, ~mixed, wire = <<>>, Sending = {}
             PROVE  /\ nearChunkSize = farChunkSize
                    /\ \A c \in DOMAIN headersOut : messages[c] = headersOut[c]
    BY DEF EndsAgree
<1>1. PICK G, q, last : Along(G, q, last)
    BY DEF ChunkInv
<1>2. /\ SenderOK(G, last) /\ last = q[Len(wire) + 1] /\ ReceiverOK(G, q[1])
    BY <1>1, AtEnd DEF Along
<1>3. Len(wire) + 1 = 1
    OBVIOUS
<1>4. ReceiverOK(G, last)
    BY <1>2, <1>3
<1>5. \A w \in Writers : ~Active(w)
    BY DEF Active, Sending
<1>6. last.m = Len(G) + 1
    BY <1>2, <1>5 DEF SenderOK
<1>7. nearChunkSize = farChunkSize
    BY <1>2, <1>4, <1>5, <1>6 DEF SenderOK, ReceiverOK
<1>8. headersOut \in [Streams -> Header \cup {NoHeader}]
    BY <1>2 DEF SenderOK
<1>9. \A c \in Streams : headersOut[c] = KnownAt(G, Len(G) + 1)[c]
    BY <1>2 DEF SenderOK
<1>10. messages = KnownAt(G, Len(G) + 1)
    BY <1>4, <1>6 DEF ReceiverOK
<1> QED
    BY <1>7, <1>8, <1>9, <1>10

\* Receiver and sender are at two places of one history, the receiver behind.
LEMMA DeliveredInv == ChunkInv => DeliveredAsSent
<1> SUFFICES ASSUME ChunkInv, ~mixed PROVE ~broken /\ IsPrefix(delivered, sent)
    BY DEF DeliveredAsSent
<1>1. PICK G, q, last : Along(G, q, last)
    BY DEF ChunkInv
<1>2. SenderOK(G, last) /\ ReceiverOK(G, q[1]) /\ WireOK(G, q) /\ Len(wire) \in Nat
    BY <1>1, AtEnd DEF Along
<1>3. q[1] \in Place /\ q[1].m =< Len(sent) + 1
    <2>1. 1 \in 1..(Len(wire) + 1)
        BY <1>2
    <2> QED
        BY <1>2, <2>1 DEF WireOK, Sensible
<1>4. /\ sent \in Seq({Whole(h) : h \in Message})
      /\ \A i \in 1..Len(sent) : sent[i] = Whole(G[i])
    BY <1>2 DEF SenderOK
<1>5. /\ ~broken /\ delivered \in Seq({Whole(h) : h \in Message})
      /\ Len(delivered) = q[1].m - 1
      /\ \A i \in 1..Len(delivered) : delivered[i] = Whole(G[i])
    BY <1>2 DEF ReceiverOK
<1>6. Len(delivered) =< Len(sent) /\ Len(delivered) \in Nat /\ Len(sent) \in Nat
    <2>1. q[1].m \in Nat
        BY <1>3 DEF Place
    <2> QED
        BY <1>3, <1>4, <1>5, <2>1
<1>7. \A i \in 1..Len(delivered) : delivered[i] = sent[i]
    BY <1>4, <1>5, <1>6
<1>8. SubSeq(delivered, 1, Len(delivered)) = SubSeq(sent, 1, Len(delivered))
    BY <1>4, <1>5, <1>6, <1>7
<1> QED
    BY <1>5, <1>6, <1>8 DEF IsPrefix

\* A change of the chunk size takes effect at the same message for both ends,
\* and with nothing in flight both hold the same header for each chunk stream
\* (SetChunkSize, process, parseMessage).
THEOREM EndsStayInStep == ChunkSpec => []EndsAgree
BY ChunkInvAlways, AgreeInv, PTL

\* Messages sent one after the other arrive in order and as they were sent,
\* whatever the writers, chunk sizes, timestamps and message streams
\* (sendBytes, parseMessage).
THEOREM MessagesArrive == ChunkSpec => []DeliveredAsSent
BY ChunkInvAlways, DeliveredInv, PTL

-----------------------------------------------------------------------------
(* The end of a connection.                                                *)


Steps == {"not yet", "no", "mark", "streams", "conn", "event", "store", "done"}

SessionTypesOK ==
    /\ readyState \in {"initialized", "connected", "closing", "closed"}
    /\ closing \in [Goroutines -> Steps]
    /\ accepts \in Nat /\ announced \in Nat

\* Close is between the two assignments of readyState.
UnderWay(t) == closing[t] \in {"streams", "conn", "event", "store"}

\* Whatever goroutines close the connection.
LifeOK ==
    /\ readyState = "closing" => \E t \in Goroutines : UnderWay(t)
    /\ readyState = "closed" => ~connOpen
    /\ closing[Reader] # "not yet"
    /\ closing[Reader] # "no" => reader \in Calls
    /\ reader = "close in serve" /\ closing[Reader] = "done" =>
          readyState \in {"closing", "closed"}
    /\ Ended => readyState \in {"closing", "closed"}

\* An Accept whose CLOSE event has not been dispatched yet.
Unannounced ==
    readyState = "connected" \/ closing[Reader] \in {"mark", "streams", "conn", "event"}

\* When only the reader closes it, the connection is in one place of its life.
SingleOK ==
    /\ reader = "onConnect" => readyState # "connected"
    /\ closing[Reader] = "mark" => readyState = "connected"
    /\ closing[Reader] \in {"streams", "conn", "event"} => readyState = "closing"
    /\ closing[Reader] \in {"store", "done"} => readyState # "connected"
    /\ accepts = IF Unannounced THEN announced + 1 ELSE announced
    /\ readyState # "connected" /\ closing[Reader] # "streams" =>
          streams \ closedStreams \subseteq late

SessionInv == SessionTypesOK /\ LifeOK /\ (OnlyReaderCloses => SingleOK)

LEMMA ReaderIsThread ==
    /\ Reader \in Goroutines /\ Reader \notin Closers
    /\ \A t \in Goroutines : t # Reader => t \in Closers
BY SessionAssumption DEF SessionAssumption, Goroutines

LEMMA SessionInvInit == SessionInit => SessionInv
<1> SUFFICES ASSUME SessionInit PROVE SessionInv
    OBVIOUS
<1>1. closing[Reader] = "no"
    BY ReaderIsThread DEF SessionInit
<1>2. SessionTypesOK
    BY DEF SessionInit, SessionTypesOK, Steps
<1>3. LifeOK
    BY <1>1 DEF SessionInit, LifeOK, Ended
<1>4. SingleOK
    BY <1>1 DEF SessionInit, SingleOK, Unannounced
<1> QED
    BY <1>2, <1>3, <1>4 DEF SessionInv

-----------------------------------------------------------------------------
(* Close.                                                                  *)

\* A closer other than the reader has begun: nothing is claimed of it.
LEMMA OthersClose ==
    ASSUME SessionTypesOK, NEW t \in Goroutines, t # Reader, NEW s \in Steps, s # "not yet",
           Advance(t, s)
    PROVE  ~OnlyReaderCloses' /\ closing'[Reader] = closing[Reader]
BY ReaderIsThread DEF OnlyReaderCloses, Advance, SessionTypesOK

LEMMA OneMoreAccept == SessionTypesOK => announced + 1 \in Nat
BY DEF SessionTypesOK

LEMMA ClosingStep ==
    ASSUME SessionInv, NEW t \in Goroutines, Closing(t)
    PROVE  SessionInv'
<1> USE ReaderIsThread
<1>1. SessionTypesOK /\ LifeOK
    BY DEF SessionInv
<1>2. PICK s \in Steps \ {"not yet", "no"} : Advance(t, s)
    BY DEF Closing, LoadState, MarkClosing, CloseStreams, CloseConn, Announce,
           StoreClosed, Steps
<1>3. /\ closing' = [closing EXCEPT ![t] = s] /\ closing'[t] = s
      /\ \A u \in Goroutines : u # t => closing'[u] = closing[u]
    BY <1>1, <1>2 DEF Advance, SessionTypesOK
<1>4. UNCHANGED reads
    BY DEF Closing, LoadState, MarkClosing, CloseStreams, CloseConn, Announce, StoreClosed
<1>5. /\ reader' = reader /\ streams' = streams /\ late' = late /\ accepts' = accepts
    BY <1>4 DEF reads
<1>6. t = Reader => reader \in Calls
    BY <1>1 DEF Closing, LoadState, WantsClose, MarkClosing, CloseStreams,
       CloseConn, Announce, StoreClosed, LifeOK
<1>7. SessionTypesOK'
    <2>1. readyState' \in {"initialized", "connected", "closing", "closed"}
        BY <1>1 DEF SessionTypesOK, Closing, LoadState, MarkClosing, CloseStreams, CloseConn,
           Announce, StoreClosed
    <2>2. announced' = announced \/ announced' = announced + 1
        BY DEF Closing, LoadState, MarkClosing, CloseStreams, CloseConn, Announce, StoreClosed
    <2> QED
        <3>1. closing' \in [Goroutines -> Steps]
            BY <1>1, <1>2, <1>3 DEF SessionTypesOK
        <3>2. announced \in Nat /\ accepts \in Nat
            BY <1>1 DEF SessionTypesOK
        <3>3. announced + 1 \in Nat
            BY <1>1, OneMoreAccept
        <3>4. announced' \in Nat
            <4>1. CASE announced' = announced
                BY <3>2, <4>1
            <4>2. CASE announced' = announced + 1
                BY <3>3, <4>2
            <4> QED
                BY <2>2, <4>1, <4>2
        <3>5. accepts' \in Nat
            BY <1>5, <3>2
        <3> QED
            BY <2>1, <3>1, <3>4, <3>5 DEF SessionTypesOK
<1>8. LifeOK'
    <2>1. readyState' = "closing" => \E u \in Goroutines : UnderWay(u)'
        <3>1. CASE StoreClosed(t)
            BY <3>1 DEF StoreClosed
        <3>2. CASE ~StoreClosed(t) /\ UnderWay(t)'
            BY <3>2
        <3>3. CASE LoadState(t)
            <4>1. readyState' = readyState /\ ~UnderWay(t)
                BY <1>1, <3>3 DEF LoadState, WantsClose, UnderWay
            <4> QED
                BY <1>1, <1>3, <4>1 DEF LifeOK, UnderWay
        <3>4. CASE MarkClosing(t) \/ CloseStreams(t) \/ CloseConn(t) \/ Announce(t)
            <4>1. UnderWay(t)'
                BY <1>1, <3>4 DEF MarkClosing, CloseStreams, CloseConn, Announce,
                   Advance, UnderWay, SessionTypesOK
            <4> QED
                BY <4>1
        <3> QED
            BY <3>1, <3>2, <3>3, <3>4 DEF Closing
    <2>2. readyState' = "closed" => ~connOpen'
        BY <1>1 DEF LifeOK, Closing, LoadState, MarkClosing, CloseStreams,
           CloseConn, Announce, StoreClosed
    <2>3. closing'[Reader] # "not yet"
        BY <1>1, <1>2, <1>3 DEF LifeOK
    <2>4. closing'[Reader] # "no" => reader \in Calls
        BY <1>1, <1>3, <1>6 DEF LifeOK
    <2>5. Ended => readyState' \in {"closing", "closed"}
        BY <1>1 DEF LifeOK, Closing, LoadState, MarkClosing, CloseStreams,
           CloseConn, Announce, StoreClosed
    <2>6. reader = "close in serve" /\ closing'[Reader] = "done" =>
             readyState' \in {"closing", "closed"}
        <3>1. CASE t # Reader
            BY <1>1, <1>3, <3>1 DEF LifeOK, Closing, LoadState, MarkClosing, CloseStreams,
               CloseConn, Announce, StoreClosed
        <3>2. CASE t = Reader
            BY <1>1, <1>3, <3>2 DEF SessionTypesOK, Advance, Closing, LoadState, MarkClosing,
               CloseStreams, CloseConn, Announce, StoreClosed
        <3> QED
            BY <3>1, <3>2
    <2> QED
        BY <1>5, <2>1, <2>2, <2>3, <2>4, <2>5, <2>6 DEF LifeOK, Ended
<1>9. ASSUME OnlyReaderCloses' PROVE SingleOK'
    <2>1. t = Reader
        BY <1>1, <1>2, <1>9, OthersClose
    <2>2. OnlyReaderCloses
        <3> SUFFICES ASSUME NEW u \in Closers PROVE closing[u] = "not yet"
            BY DEF OnlyReaderCloses
        <3>1. u \in Goroutines /\ u # t
            BY <2>1 DEF Goroutines
        <3>2. closing'[u] = "not yet"
            BY <1>9 DEF OnlyReaderCloses
        <3> QED
            BY <1>3, <3>1, <3>2
    <2>3. SingleOK /\ reader \in Calls
        BY <1>6, <2>1, <2>2 DEF SessionInv
    <2>4. CASE LoadState(Reader)
        <3>1. /\ closing[Reader] = "no" /\ UNCHANGED <<readyState, announced, closedStreams>>
              /\ closing'[Reader] = CASE readyState = "connected" -> "mark"
                                      [] readyState = "initialized" -> "store"
                                      [] OTHER -> "done"
            BY <1>1, <1>6, <2>1, <2>4 DEF LoadState, WantsClose, Advance, SessionTypesOK
        <3> QED
            BY <1>1, <1>5, <2>3, <3>1 DEF SingleOK, Unannounced, SessionTypesOK, Calls
    <2>5. CASE MarkClosing(Reader)
        BY <1>1, <1>5, <2>3, <2>5 DEF MarkClosing, SingleOK, Unannounced, SessionTypesOK, Advance, Calls
    <2>6. CASE CloseStreams(Reader)
        BY <1>1, <1>5, <2>3, <2>6 DEF CloseStreams, SingleOK, Unannounced, SessionTypesOK, Advance, Calls
    <2>7. CASE CloseConn(Reader)
        BY <1>1, <1>5, <2>3, <2>7 DEF CloseConn, SingleOK, Unannounced, SessionTypesOK, Advance, Calls
    <2>8. CASE Announce(Reader)
        BY <1>1, <1>5, <2>3, <2>8 DEF Announce, SingleOK, Unannounced, SessionTypesOK, Advance, Calls
    <2>9. CASE StoreClosed(Reader)
        BY <1>1, <1>5, <2>3, <2>9 DEF StoreClosed, SingleOK, Unannounced, SessionTypesOK, Advance, Calls
    <2> QED
        BY <2>1, <2>4, <2>5, <2>6, <2>7, <2>8, <2>9 DEF Closing
<1> QED
    BY <1>7, <1>8, <1>9 DEF SessionInv

-----------------------------------------------------------------------------
(* The reader.                                                             *)

\* A step of the reader that only moves it on, and not to onConnect while
\* the connection is connected.
LEMMA ReaderMoves ==
    ASSUME SessionInv, reader \notin Calls \cup {"ended"}, reader' # "ended",
           reader' = "onConnect" => readyState # "connected",
           UNCHANGED <<readyState, connOpen, closing, announced, accepts, streams,
                       closedStreams, late>>
    PROVE  SessionInv'
<1>1. SessionTypesOK' /\ LifeOK'
    <2>1. closing[Reader] = "no"
        BY DEF SessionInv, LifeOK
    <2> QED
        BY <2>1 DEF SessionInv, SessionTypesOK, LifeOK, UnderWay, Ended
<1>2. OnlyReaderCloses' => SingleOK'
    BY DEF SessionInv, OnlyReaderCloses, SingleOK, Unannounced
<1> QED
    BY <1>1, <1>2 DEF SessionInv

LEMMA ReturnedStep ==
    ASSUME SessionInv, Returned
    PROVE  SessionInv'
<1> USE ReaderIsThread
<1>1. /\ closing[Reader] = "done" /\ closing'[Reader] = "no" /\ reader \in Calls
      /\ \A u \in Goroutines : u # Reader => closing'[u] = closing[u]
      /\ UNCHANGED <<readyState, connOpen, announced, accepts, streams, closedStreams, late>>
    BY DEF Returned, SessionInv, SessionTypesOK, Kept
<1>2. /\ reader' = "ended" => reader = "close in serve"
      /\ reader' \notin {"onConnect"}
      /\ reader' = "close in serve" => reader = "close in read"
    BY <1>1 DEF Returned, Calls
<1>3. SessionTypesOK'
    BY DEF Returned, SessionInv, SessionTypesOK, Kept, Steps
<1>4. LifeOK'
    <2>1. readyState' = "closing" => \E u \in Goroutines : UnderWay(u)'
        BY <1>1 DEF SessionInv, LifeOK, UnderWay
    <2> QED
        BY <1>1, <1>2, <2>1 DEF SessionInv, LifeOK, Ended
<1>5. OnlyReaderCloses' => SingleOK'
    <2>1. OnlyReaderCloses' => OnlyReaderCloses
        BY <1>1 DEF OnlyReaderCloses, Goroutines
    <2> QED
        BY <1>1, <1>2, <2>1 DEF SessionInv, SingleOK, Unannounced
<1> QED
    BY <1>3, <1>4, <1>5 DEF SessionInv

LEMMA AcceptStep ==
    ASSUME SessionInv, Accept
    PROVE  SessionInv'
<1>1. /\ reader = "onConnect" /\ reader' = "reply" /\ readyState' = "connected"
      /\ accepts' = accepts + 1
      /\ UNCHANGED <<connOpen, closing, announced, streams, closedStreams, late>>
    BY DEF Accept
<1>2. closing[Reader] = "no"
    BY <1>1 DEF SessionInv, LifeOK, Calls
<1>3. SessionTypesOK'
    BY <1>1 DEF SessionInv, SessionTypesOK
<1>4. LifeOK'
    BY <1>1, <1>2 DEF SessionInv, LifeOK, Ended
<1>5. OnlyReaderCloses' => SingleOK'
    BY <1>1, <1>2 DEF SessionInv, OnlyReaderCloses, SingleOK, Unannounced, SessionTypesOK
<1> QED
    BY <1>3, <1>4, <1>5 DEF SessionInv

\* A stream attached to a connection that is not connected is a late one.
LEMMA StreamStep ==
    ASSUME SessionInv, CreateStream \/ DeleteStream
    PROVE  SessionInv'
<1>1. /\ reader = "parse" /\ reader' \in {"parse", "reply"}
      /\ UNCHANGED <<readyState, connOpen, closing, announced, accepts>>
    BY DEF CreateStream, DeleteStream, Take
<1>2. closing[Reader] = "no"
    BY <1>1 DEF SessionInv, LifeOK, Calls
<1>3. SessionTypesOK'
    BY <1>1 DEF SessionInv, SessionTypesOK
<1>4. LifeOK'
    BY <1>1, <1>2 DEF SessionInv, LifeOK, Ended, UnderWay
<1>5. readyState # "connected" /\ streams \ closedStreams \subseteq late =>
         streams' \ closedStreams' \subseteq late'
    BY DEF CreateStream, DeleteStream
<1>6. OnlyReaderCloses' => SingleOK'
    BY <1>1, <1>2, <1>5 DEF SessionInv, OnlyReaderCloses, SingleOK, Unannounced
<1> QED
    BY <1>3, <1>4, <1>6 DEF SessionInv

LEMMA SessionStep == SessionInv /\ [SessionNext]_sessionVars => SessionInv'
<1> SUFFICES ASSUME SessionInv, [SessionNext]_sessionVars PROVE SessionInv'
    OBVIOUS
<1>1. CASE UNCHANGED sessionVars
    BY <1>1 DEF sessionVars, reads, SessionInv, SessionTypesOK, LifeOK, SingleOK, Unannounced,
       OnlyReaderCloses, UnderWay, Ended
<1>2. CASE PeerHangsUp
    BY <1>2 DEF PeerHangsUp, reads, SessionInv, SessionTypesOK, LifeOK, SingleOK, Unannounced,
       OnlyReaderCloses, UnderWay, Ended
<1>3. ASSUME NEW t \in Goroutines, Closing(t)
      PROVE  SessionInv'
    BY <1>3, ClosingStep
<1>4. CASE Handshake \/ ReadMessages \/ ReadFails \/ ParsedAll
    BY <1>4, ReaderMoves DEF Handshake, ReadMessages, ReadFails, ParsedAll, Kept, Outside, Calls
<1>5. CASE OtherMessage \/ DeleteControl \/ CloseCommand \/ NoControlStream
    BY <1>5, ReaderMoves DEF OtherMessage, DeleteControl, CloseCommand, NoControlStream,
       Take, Kept, Outside, Calls
<1>6. CASE Reject \/ Reply
    BY <1>6, ReaderMoves DEF Reject, Reply, Kept, Outside, Calls
<1>7. CASE ConnectCommand
    <2>1. /\ reader = "parse" /\ reader' \in {"close in read", "onConnect", "parse"}
          /\ reader' = "onConnect" => readyState # "connected"
        BY <1>7 DEF ConnectCommand, Take
    <2> QED
        BY <1>7, <2>1, ReaderMoves DEF ConnectCommand, Take, Calls
<1>8. CASE Accept \/ CreateStream \/ DeleteStream \/ Returned
    BY <1>8, AcceptStep, StreamStep, ReturnedStep
<1> QED
    BY <1>1, <1>2, <1>3, <1>4, <1>5, <1>6, <1>7, <1>8, ReaderIsThread
       DEF SessionNext, Serve, ProcessMessage, Goroutines

THEOREM SessionInvariance == SessionSpec => []SessionInv
BY SessionInvInit, SessionStep, PTL DEF SessionSpec

\* Whoever closes the connection, and whenever, it is closed for good once
\* serve has returned and no Close is under way.
THEOREM ClosedInTheEnd == SessionSpec => []EndsClosed
<1>1. SessionInv => EndsClosed
    BY DEF SessionInv, LifeOK, UnderWay, EndsClosed, NobodyCloses
<1> QED
    BY <1>1, SessionInvariance, PTL

\* When only its own goroutine closes the connection, accepts and CLOSE events
\* alternate, and the last word is a CLOSE event.
THEOREM AcceptsAreAnnounced == SessionSpec => []EveryAcceptIsAnnounced
<1>1. SessionInv => EveryAcceptIsAnnounced
    <2> SUFFICES ASSUME SessionInv, OnlyReaderCloses
                 PROVE  /\ announced <= accepts /\ accepts <= announced + 1
                        /\ Ended => announced = accepts
        BY DEF EveryAcceptIsAnnounced
    <2>1. Ended => ~Unannounced
        BY DEF SessionInv, LifeOK, Unannounced, Ended, Calls
    <2> QED
        BY <2>1 DEF SessionInv, SessionTypesOK, SingleOK
<1> QED
    BY <1>1, SessionInvariance, PTL

\* ... and no stream outlives it but those created behind a close.
THEOREM StreamsEnd == SessionSpec => []StreamsAreClosed
<1>1. SessionInv => StreamsAreClosed
    BY DEF SessionInv, LifeOK, SingleOK, StreamsAreClosed, Ended, Calls
<1> QED
    BY <1>1, SessionInvariance, PTL

=============================================================================
