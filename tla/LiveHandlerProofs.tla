------------------------- MODULE LiveHandlerProofs --------------------------
(***************************************************************************)
(* The properties of LiveHandler hold for any clients, however many        *)
(* commands they send, with and without the proxy and the recorders.       *)
(*                                                                         *)
(* The inductive invariant looks ahead of the attachment itself: it says   *)
(* of the feeds that are decided on what OneFeedUnlessBlind says of those  *)
(* that are attached, and of each client what is owed to the notification  *)
(* service while a handler is in progress.                                 *)
(***************************************************************************)
EXTENDS LiveHandler, TLAPS

\* Two feeds, attached or about to be, have been decided on blindly.
FeedsOK == \A f, g \in feeding \cup Deciding : f # g => {f, g} \in blind

\* A closed connection is detached, and not on its way to attach, but for the
\* clients that another goroutine closed in the middle of a handler.
ClosedOK(c) ==
    c \notin overtaken =>
        /\ conn[c] = "closed" => /\ Publisher(c) \notin feeding /\ c \notin watching
                                 /\ readyState[c] = "init"
        /\ pc[c] \in {"publish sink", "play source"} => conn[c] # "closed"

\* Between the notification and the attachment.
PublishTold(c) == pc[c] \in {"publish start", "publish sink"}
PlayTold(c) == pc[c] \in {"play begin", "play reset", "play start", "play source"}

\* What the service was told is undone by onCloseStream, which goes by
\* readyState, or the handler is on its way to set readyState.
TellsOK(c) ==
    c \notin unsent \cup both \cup unended =>
        /\ "publish" \in begun[c] => readyState[c] = "publishing" \/ PublishTold(c)
        /\ "play" \in begun[c] => readyState[c] = "playing" \/ PlayTold(c)

ClientOK(c) == ClosedOK(c) /\ TellsOK(c)

ClientsOK == \A c \in Clients : ClientOK(c)

IInv == TypeOK /\ FeedsOK /\ ClientsOK

\* A handler that gives up here leaves a notification behind.
Owing(c) ==
    \/ "publish" \in begun[c] /\ PublishTold(c)
    \/ "play" \in begun[c] /\ PlayTold(c)

-----------------------------------------------------------------------------
(* TypeOK.                                                                 *)

Steps == {"idle", "publish notify", "publish start", "publish sink", "publish record",
          "play notify", "play begin", "play reset", "play start", "play source", "play proxy"}

\* The kinds of feed differ, and each tells its client.
LEMMA FeedsDiffer ==
    ASSUME NEW c, NEW d
    PROVE  /\ Publisher(c) # Pull(d)
           /\ Publisher(c) = Publisher(d) => c = d
           /\ Pull(c) = Pull(d) => c = d
    BY DEF Publisher, Pull

\* What Detach, Close, Go and Receive leave is of the right type.
LEMMA DetachTypes ==
    ASSUME TypeOK, NEW c \in Clients, Detach(c)
    PROVE  /\ begun' \in [Clients -> SUBSET {"publish", "play"}]
           /\ readyState' \in [Clients -> {"init", "publishing", "playing"}]
           /\ feeding' \subseteq {"publisher", "pull"} \X Clients
           /\ watching' \subseteq Clients /\ unended' \subseteq Clients
<1>1. /\ begun \in [Clients -> SUBSET {"publish", "play"}] /\ unended \subseteq Clients
      /\ \/ begun' = [begun EXCEPT ![c] = @ \ OnCloseStream(readyState[c])] /\ unended' = unended
         \/ begun' = begun /\ unended' = unended \cup {c}
    BY DEF Detach, TypeOK
<1>2. begun' \in [Clients -> SUBSET {"publish", "play"}]
    BY <1>1
<1>3. unended' \subseteq Clients
    BY <1>1
<1> QED
    BY <1>2, <1>3 DEF Detach, TypeOK

LEMMA CloseTypes ==
    ASSUME TypeOK, NEW c \in Clients, Close(c)
    PROVE  /\ conn' \in [Clients -> {"open", "closing", "closed"}]
           /\ begun' \in [Clients -> SUBSET {"publish", "play"}]
           /\ readyState' \in [Clients -> {"init", "publishing", "playing"}]
           /\ feeding' \subseteq {"publisher", "pull"} \X Clients
           /\ watching' \subseteq Clients /\ unended' \subseteq Clients
<1>1. CASE conn[c] = "open"
    BY <1>1, DetachTypes DEF Close, TypeOK
<1>2. CASE conn[c] # "open"
    BY <1>2 DEF Close, TypeOK
<1> QED
    BY <1>1, <1>2

LEMMA GoTypes ==
    ASSUME TypeOK, NEW c \in Clients, NEW s \in Steps, Go(c, s)
    PROVE  pc' \in [Clients -> Steps]
    BY DEF Go, TypeOK, Steps

LEMMA ReceiveTypes ==
    ASSUME TypeOK, NEW c \in Clients, Receive(c)
    PROVE  commands' \in [Clients -> 0..MaxCommands]
<1>1. commands[c] \in 0..MaxCommands /\ commands[c] < MaxCommands
    BY DEF Receive, TypeOK
<1>2. commands[c] + 1 \in 0..MaxCommands
    BY <1>1, LiveAssumption DEF LiveAssumption
<1> QED
    BY <1>2 DEF Receive, TypeOK

LEMMA FeedTypes ==
    ASSUME NEW c \in Clients
    PROVE  {Publisher(c), Pull(c)} \subseteq {"publisher", "pull"} \X Clients
    BY DEF Publisher, Pull

\* Every step keeps the types.
LEMMA TypeStep ==
    ASSUME TypeOK, [Next]_vars
    PROVE  TypeOK'
<1> USE DEF flow, told
<1>1. ASSUME NEW c \in Clients, PublishRefused(c) PROVE TypeOK'
    BY <1>1, CloseTypes, ReceiveTypes DEF PublishRefused, TypeOK
<1>2. ASSUME NEW c \in Clients, PublishAllowed(c) \/ Play(c) PROVE TypeOK'
    BY <1>2, GoTypes, ReceiveTypes DEF PublishAllowed, Play, TypeOK, Steps
<1>3. ASSUME NEW c \in Clients, PublishAccepted(c) \/ PlayAccepted(c) PROVE TypeOK'
    <2>1. PICK event \in {"publish", "play"} : begun' = [begun EXCEPT ![c] = @ \cup {event}]
        BY <1>3 DEF PublishAccepted, PlayAccepted
    <2>2. begun' \in [Clients -> SUBSET {"publish", "play"}]
        BY <2>1 DEF TypeOK
    <2> QED
        BY <1>3, <2>2, GoTypes DEF PublishAccepted, PlayAccepted, TypeOK, Steps
<1>4. ASSUME NEW c \in Clients, NEW step, Denied(c, step) PROVE TypeOK'
    BY <1>4, GoTypes, DetachTypes DEF Denied, TypeOK, Steps
<1>5. ASSUME NEW c \in Clients, NEW event, GiveUp(c, event) PROVE TypeOK'
    BY <1>5, GoTypes, CloseTypes DEF GiveUp, TypeOK, Steps
<1>6. ASSUME NEW c \in Clients, PublishStarted(c) PROVE TypeOK'
    BY <1>5, <1>6, GoTypes DEF PublishStarted, TypeOK, Steps
<1>7. ASSUME NEW c \in Clients, SinkStream(c) PROVE TypeOK'
    BY <1>7, GoTypes, FeedTypes DEF SinkStream, TypeOK, Steps
<1>8. ASSUME NEW c \in Clients, StartRecorders(c) PROVE TypeOK'
    BY <1>8, GoTypes DEF StartRecorders, TypeOK, Steps
<1>9. ASSUME NEW c \in Clients, NoStreamToPlay(c) PROVE TypeOK'
    BY <1>9, GoTypes, CloseTypes DEF NoStreamToPlay, TypeOK, Steps
<1>10. ASSUME NEW c \in Clients, PlayStatus(c) PROVE TypeOK'
    <2>1. CASE /\ \E s \in {"play reset", "play start", "play source"} : Go(c, s)
               /\ UNCHANGED <<conn, peer, readyState, flow, commands, told>>
        BY <2>1, GoTypes DEF TypeOK, Steps
    <2> QED
        BY <1>5, <1>10, <2>1 DEF PlayStatus, PlaySends
<1>11. ASSUME NEW c \in Clients, SourceStream(c) PROVE TypeOK'
    BY <1>11, GoTypes DEF SourceStream, TypeOK, Steps
<1>12. ASSUME NEW c \in Clients, PlayFromProxy(c) PROVE TypeOK'
    BY <1>12, GoTypes DEF PlayFromProxy, TypeOK, Steps
<1>13. ASSUME NEW c \in Clients, Refuse(c) PROVE TypeOK'
    BY <1>13, CloseTypes DEF Refuse, TypeOK
<1>14. ASSUME NEW c \in Clients, OnRecorderStop(c) \/ PeerLeaves(c) PROVE TypeOK'
    BY <1>14 DEF OnRecorderStop, PeerLeaves, TypeOK
<1>15. ASSUME NEW c \in Clients, CloseStream(c) \/ OtherClosed(c) PROVE TypeOK'
    BY <1>15, DetachTypes DEF CloseStream, OtherClosed, TypeOK
<1>16. ASSUME NEW c \in Clients, OtherCloses(c) PROVE TypeOK'
    <2>1. CASE Detach(c)
        BY <1>16, <2>1, DetachTypes DEF OtherCloses, TypeOK
    <2>2. CASE UNCHANGED <<pc, begun, unended, readyState, feeding, watching, overtaken>>
        BY <1>16, <2>2 DEF OtherCloses, TypeOK
    <2> QED
        BY <1>16, <2>1, <2>2 DEF OtherCloses
<1>17. ASSUME NEW c \in Clients, PullArrives(c) \/ PullEnds(c) PROVE TypeOK'
    BY <1>17, FeedTypes DEF PullArrives, PullEnds, TypeOK
<1>18. CASE UNCHANGED vars
    BY <1>18 DEF vars, TypeOK
<1> QED
    BY <1>1, <1>2, <1>3, <1>4, <1>6, <1>7, <1>8, <1>9, <1>10, <1>11, <1>12, <1>13, <1>14, <1>15,
       <1>16, <1>17, <1>18 DEF Next, Publish, PlayCommand

-----------------------------------------------------------------------------
(* FeedsOK.                                                                *)

\* The members of Deciding, before and after a step.
LEMMA DecidingMembers ==
    ASSUME NEW f
    PROVE  f \in Deciding <=>
            \/ \E d \in Clients : /\ f = Publisher(d)
                                  /\ pc[d] \in {"publish notify", "publish start", "publish sink"}
            \/ \E d \in pulling : f = Pull(d)
    BY DEF Deciding

LEMMA DecidingNext ==
    ASSUME NEW f
    PROVE  f \in Deciding' <=>
            \/ \E d \in Clients : /\ f = Publisher(d)
                                  /\ pc'[d] \in {"publish notify", "publish start", "publish sink"}
            \/ \E d \in pulling' : f = Pull(d)
    BY DEF Deciding, Publisher, Pull

LEMMA NextDeciders ==
    ASSUME NEW c
    PROVE  /\ Publisher(c) \in Deciding' =>
                c \in Clients /\ pc'[c] \in {"publish notify", "publish start", "publish sink"}
           /\ Pull(c) \in Deciding' => c \in pulling'
<1>1. ASSUME Publisher(c) \in Deciding'
      PROVE  c \in Clients /\ pc'[c] \in {"publish notify", "publish start", "publish sink"}
    <2>1. PICK d \in Clients : /\ Publisher(c) = Publisher(d)
                               /\ pc'[d] \in {"publish notify", "publish start", "publish sink"}
        <3>1. \A d \in pulling' : Publisher(c) # Pull(d)
            BY FeedsDiffer
        <3>2. \/ \E d \in Clients : /\ Publisher(c) = Publisher(d)
                                    /\ pc'[d] \in {"publish notify", "publish start", "publish sink"}
              \/ \E d \in pulling' : Publisher(c) = Pull(d)
            BY <1>1, DecidingNext
        <3> QED
            BY <3>1, <3>2
    <2>2. c = d
        BY <2>1, FeedsDiffer
    <2> QED
        BY <2>1, <2>2
<1>2. ASSUME Pull(c) \in Deciding' PROVE c \in pulling'
    <2>1. PICK d \in pulling' : Pull(c) = Pull(d)
        BY <1>2, DecidingNext, FeedsDiffer
    <2>2. c = d
        BY <2>1, FeedsDiffer
    <2> QED
        BY <2>2
<1> QED
    BY <1>1, <1>2

\* No feed is added, and no pair forgotten.
LEMMA FeedsKept ==
    ASSUME FeedsOK, feeding' \cup Deciding' \subseteq feeding \cup Deciding, blind \subseteq blind'
    PROVE  FeedsOK'
    BY DEF FeedsOK

\* One feed goes, and its pairs with it.
LEMMA FeedsWithout ==
    ASSUME FeedsOK, NEW h,
           feeding' \cup Deciding' \subseteq (feeding \cup Deciding) \ {h},
           blind' = {b \in blind : h \notin b}
    PROVE  FeedsOK'
    BY DEF FeedsOK

\* One feed is decided on where nothing feeds the stream.
LEMMA FeedDecided ==
    ASSUME FeedsOK, NEW h, feeding = {}, Decide(h),
           feeding' \cup Deciding' \subseteq Deciding \cup {h}
    PROVE  FeedsOK'
<1> SUFFICES ASSUME NEW f \in (feeding \cup Deciding)', NEW g \in (feeding \cup Deciding)', f # g
             PROVE  {f, g} \in blind'
    BY DEF FeedsOK
<1>1. {f, g} = {g, f}
    OBVIOUS
<1>2. CASE f = h
    BY <1>2 DEF Decide
<1>3. CASE g = h
    BY <1>1, <1>3 DEF Decide
<1>4. CASE f # h /\ g # h
    BY <1>4 DEF Decide, FeedsOK
<1> QED
    BY <1>2, <1>3, <1>4

\* A client is detached, by itself or by the Close of its connection.
LEMMA FeedsDetached ==
    ASSUME TypeOK, FeedsOK, NEW c \in Clients, Detach(c), pulling' = pulling,
           pc' = pc \/ pc' = [pc EXCEPT ![c] = "idle"]
    PROVE  FeedsOK'
<1>1. Deciding' \subseteq Deciding
    BY DecidingMembers, DecidingNext DEF TypeOK
<1>2. feeding' = feeding \ {Publisher(c)}
    BY DEF Detach
<1>3. CASE pc'[c] # "idle" /\ Publisher(c) \in Deciding
    <2>1. blind' = blind
        BY <1>3 DEF Detach
    <2> QED
        BY <1>1, <1>2, <2>1, FeedsKept
<1>4. CASE ~(pc'[c] # "idle" /\ Publisher(c) \in Deciding)
    <2>1. blind' = {b \in blind : Publisher(c) \notin b}
        BY <1>4 DEF Detach
    <2>2. pc'[c] = "idle" => Publisher(c) \notin Deciding'
        BY NextDeciders
    <2>3. Publisher(c) \notin Deciding'
        BY <1>1, <1>4, <2>2
    <2> QED
        BY <1>1, <1>2, <2>1, <2>3, FeedsWithout
<1> QED
    BY <1>3, <1>4

LEMMA FeedsClosed ==
    ASSUME TypeOK, FeedsOK, NEW c \in Clients, Close(c), pulling' = pulling,
           pc' = pc \/ pc' = [pc EXCEPT ![c] = "idle"]
    PROVE  FeedsOK'
<1>1. CASE conn[c] = "open"
    BY <1>1, FeedsDetached DEF Close
<1>2. CASE conn[c] # "open"
    <2>1. feeding' = feeding /\ blind' = blind
        BY <1>2 DEF Close
    <2>2. Deciding' \subseteq Deciding
        BY DecidingMembers, DecidingNext DEF TypeOK
    <2> QED
        BY <2>1, <2>2, FeedsKept
<1> QED
    BY <1>1, <1>2

\* Every step keeps FeedsOK: a feed is decided on only where none is attached,
\* and only what was decided on is attached.
LEMMA FeedsStep ==
    ASSUME TypeOK, FeedsOK, [Next]_vars
    PROVE  FeedsOK'
<1>1. ASSUME NEW c \in Clients, PublishRefused(c) PROVE FeedsOK'
    BY <1>1, FeedsClosed DEF PublishRefused
<1>2. ASSUME NEW c \in Clients, PublishAllowed(c) PROVE FeedsOK'
    <2>1. feeding = {} /\ feeding' = {} /\ Decide(Publisher(c))
        BY <1>2 DEF PublishAllowed, Publishing, flow
    <2>2. Deciding' \subseteq Deciding \cup {Publisher(c)}
        BY <1>2, DecidingMembers, DecidingNext DEF PublishAllowed, Go, flow, TypeOK
    <2> QED
        BY <2>1, <2>2, FeedDecided
<1>3. ASSUME NEW c \in Clients, PublishAccepted(c) PROVE FeedsOK'
    <2>1. Deciding' \subseteq Deciding
        BY <1>3, DecidingMembers, DecidingNext DEF PublishAccepted, Go, flow, TypeOK
    <2> QED
        BY <1>3, <2>1, FeedsKept DEF PublishAccepted, flow
<1>4. ASSUME NEW c \in Clients, NEW step, Denied(c, step) PROVE FeedsOK'
    BY <1>4, FeedsDetached DEF Denied, Go
<1>5. ASSUME NEW c \in Clients, PublishStarted(c) PROVE FeedsOK'
    <2>1. CASE GiveUp(c, "publish")
        BY <2>1, FeedsClosed DEF GiveUp, Go
    <2>2. CASE Go(c, "publish sink") /\ UNCHANGED <<flow, told>>
        <3>1. Deciding' \subseteq Deciding
            BY <1>5, <2>2, DecidingMembers, DecidingNext DEF PublishStarted, Go, flow, TypeOK
        <3> QED
            BY <2>2, <3>1, FeedsKept DEF flow, told
    <2> QED
        BY <1>5, <2>1, <2>2 DEF PublishStarted
<1>6. ASSUME NEW c \in Clients, SinkStream(c) PROVE FeedsOK'
    <2>1. Deciding' \subseteq Deciding
        BY <1>6, DecidingMembers, DecidingNext DEF SinkStream, Go, TypeOK
    <2>2. Publisher(c) \in Deciding
        BY <1>6, DecidingMembers DEF SinkStream
    <2> QED
        BY <1>6, <2>1, <2>2, FeedsKept DEF SinkStream
<1>7. ASSUME NEW c \in Clients, StartRecorders(c) \/ Play(c) \/ PlayAccepted(c) \/ SourceStream(c)
      PROVE  FeedsOK'
    <2>1. pulling' = pulling /\ feeding' = feeding /\ blind' = blind
        BY <1>7 DEF StartRecorders, Play, PlayAccepted, SourceStream, flow, told
    <2>2. \E s \in {"idle", "play notify", "play begin", "play proxy"} : pc' = [pc EXCEPT ![c] = s]
        BY <1>7 DEF StartRecorders, Play, PlayAccepted, SourceStream, Go
    <2>3. Deciding' \subseteq Deciding
        BY <2>1, <2>2, DecidingMembers, DecidingNext DEF TypeOK
    <2> QED
        BY <2>1, <2>3, FeedsKept
<1>8. ASSUME NEW c \in Clients, NoStreamToPlay(c) PROVE FeedsOK'
    BY <1>8, FeedsClosed DEF NoStreamToPlay, Go
<1>9. ASSUME NEW c \in Clients, PlayStatus(c) PROVE FeedsOK'
    <2>1. CASE GiveUp(c, "play")
        BY <2>1, FeedsClosed DEF GiveUp, Go
    <2>2. CASE /\ UNCHANGED <<flow, told>>
               /\ \E s \in {"play reset", "play start", "play source"} : Go(c, s)
        <3>1. Deciding' \subseteq Deciding
            BY <2>2, DecidingMembers, DecidingNext DEF Go, flow, TypeOK
        <3> QED
            BY <2>2, <3>1, FeedsKept DEF flow, told
    <2> QED
        BY <1>9, <2>1, <2>2 DEF PlayStatus, PlaySends
<1>10. ASSUME NEW c \in Clients, PlayFromProxy(c) PROVE FeedsOK'
    <2>1. CASE pulling' = pulling \cup {c} /\ Decide(Pull(c)) /\ ~Publishing
        <3>1. feeding = {} /\ feeding' = {}
            BY <1>10, <2>1 DEF PlayFromProxy, Publishing
        <3>2. Deciding' \subseteq Deciding \cup {Pull(c)}
            BY <1>10, <2>1, DecidingMembers, DecidingNext DEF PlayFromProxy, Go, TypeOK
        <3> QED
            BY <2>1, <3>1, <3>2, FeedDecided
    <2>2. CASE pulling' = pulling /\ blind' = blind
        <3>1. Deciding' \subseteq Deciding
            BY <1>10, <2>2, DecidingMembers, DecidingNext DEF PlayFromProxy, Go, TypeOK
        <3> QED
            BY <1>10, <2>2, <3>1, FeedsKept DEF PlayFromProxy
    <2> QED
        BY <1>10, <2>1, <2>2 DEF PlayFromProxy
<1>11. ASSUME NEW c \in Clients, Refuse(c) PROVE FeedsOK'
    BY <1>11, FeedsClosed DEF Refuse
<1>12. ASSUME NEW c \in Clients, OnRecorderStop(c) \/ PeerLeaves(c) PROVE FeedsOK'
    <2>1. pc' = pc /\ pulling' = pulling /\ feeding' = feeding /\ blind' = blind
        BY <1>12 DEF OnRecorderStop, PeerLeaves, flow, told
    <2>2. Deciding' \subseteq Deciding
        BY <2>1, DecidingMembers, DecidingNext
    <2> QED
        BY <2>1, <2>2, FeedsKept
<1>13. ASSUME NEW c \in Clients, CloseStream(c) \/ OtherClosed(c) PROVE FeedsOK'
    BY <1>13, FeedsDetached DEF CloseStream, OtherClosed
<1>14. ASSUME NEW c \in Clients, OtherCloses(c) PROVE FeedsOK'
    <2>1. CASE Detach(c)
        BY <1>14, <2>1, FeedsDetached DEF OtherCloses
    <2>2. CASE UNCHANGED <<pc, feeding, blind, pulling>>
        <3>1. Deciding' \subseteq Deciding
            BY <2>2, DecidingMembers, DecidingNext
        <3> QED
            BY <2>2, <3>1, FeedsKept
    <2> QED
        BY <1>14, <2>1, <2>2 DEF OtherCloses
<1>15. ASSUME NEW c \in Clients, PullArrives(c) PROVE FeedsOK'
    <2>1. Deciding' \subseteq Deciding
        BY <1>15, DecidingMembers, DecidingNext DEF PullArrives
    <2>2. Pull(c) \in Deciding
        BY <1>15, DecidingMembers DEF PullArrives
    <2> QED
        BY <1>15, <2>1, <2>2, FeedsKept DEF PullArrives, told
<1>16. ASSUME NEW c \in Clients, PullEnds(c) PROVE FeedsOK'
    <2>1. Deciding' \subseteq Deciding
        BY <1>16, DecidingMembers, DecidingNext DEF PullEnds
    <2>2. Pull(c) \notin Deciding'
        BY <1>16, NextDeciders DEF PullEnds
    <2> QED
        BY <1>16, <2>1, <2>2, FeedsWithout DEF PullEnds
<1>17. CASE UNCHANGED vars
    <2>1. Deciding' \subseteq Deciding
        BY <1>17, DecidingMembers, DecidingNext DEF vars, flow
    <2> QED
        BY <1>17, <2>1, FeedsKept DEF vars, flow, told
<1> QED
    BY <1>1, <1>2, <1>3, <1>4, <1>5, <1>6, <1>7, <1>8, <1>9, <1>10, <1>11, <1>12, <1>13, <1>14,
       <1>15, <1>16, <1>17 DEF Next, Publish, PlayCommand

-----------------------------------------------------------------------------
(* ClientsOK.                                                              *)

\* A step of c does nothing to the others.
FlowKept(q) ==
    /\ Publisher(q) \in feeding' => Publisher(q) \in feeding
    /\ q \in watching' => q \in watching

OthersKept(c) ==
    /\ overtaken \subseteq overtaken' /\ unsent \subseteq unsent' /\ both \subseteq both'
    /\ unended \subseteq unended'
    /\ \A q \in Clients \ {c} :
        /\ conn'[q] = conn[q] /\ pc'[q] = pc[q]
        /\ readyState'[q] = readyState[q] /\ begun'[q] = begun[q]
        /\ FlowKept(q)

LEMMA ClientStep ==
    ASSUME ClientsOK, NEW c \in Clients, OthersKept(c), ClientOK(c)'
    PROVE  ClientsOK'
<1> SUFFICES ASSUME NEW q \in Clients \ {c} PROVE ClientOK(q)'
    BY DEF ClientsOK
<1> QED
    BY DEF ClientsOK, ClientOK, ClosedOK, TellsOK, PublishTold, PlayTold, OthersKept, FlowKept,
        Publisher

\* What Detach and Go do to c and to the others.
LEMMA Detached ==
    ASSUME TypeOK, NEW c \in Clients, Detach(c)
    PROVE  /\ begun'[c] = begun[c] \ OnCloseStream(readyState[c]) \/ c \in unended'
           /\ unended \subseteq unended'
           /\ readyState'[c] = "init"
           /\ Publisher(c) \notin feeding' /\ c \notin watching'
           /\ \A q \in Clients \ {c} :
                readyState'[q] = readyState[q] /\ begun'[q] = begun[q] /\ FlowKept(q)
    BY FeedsDiffer DEF Detach, TypeOK, FlowKept

LEMMA Gone ==
    ASSUME TypeOK, NEW c \in Clients, NEW s, Go(c, s)
    PROVE  pc'[c] = s /\ \A q \in Clients \ {c} : pc'[q] = pc[q]
    BY DEF Go, TypeOK

\* A client that is detached, one that is left as it is, and one whose
\* connection is closed: either way nothing is owed, or it is in unsent.
LEMMA DetachClients ==
    ASSUME TypeOK, ClientsOK, NEW c \in Clients, Detach(c),
           conn' = conn \/ conn' = [conn EXCEPT ![c] = "closed"],
           pc' = pc \/ Go(c, "idle"),
           pc' = pc \/ c \in unsent' \/ ~Owing(c),
           conn' = conn \/ pc'[c] = "idle" \/ c \in overtaken',
           overtaken \subseteq overtaken', unsent \subseteq unsent', both' = both
    PROVE  ClientsOK'
<1>1. \A q \in Clients \ {c} : conn'[q] = conn[q] /\ pc'[q] = pc[q]
    BY Gone DEF TypeOK
<1>2. OthersKept(c)
    BY <1>1, Detached DEF OthersKept
<1>3. pc'[c] = pc[c] \/ pc'[c] = "idle"
    BY Gone
<1>4. ClosedOK(c)'
    BY <1>3, Detached DEF ClientsOK, ClientOK, ClosedOK, Publisher, TypeOK
<1>5. TellsOK(c)'
    <2>1. ASSUME c \notin unsent' \cup both' \cup unended', "publish" \in begun'[c]
          PROVE  pc'[c] \in {"publish start", "publish sink"}
        BY <1>3, <2>1, Detached DEF ClientsOK, ClientOK, TellsOK, PublishTold, PlayTold,
            OnCloseStream, Owing
    <2>2. ASSUME c \notin unsent' \cup both' \cup unended', "play" \in begun'[c]
          PROVE  pc'[c] \in {"play begin", "play reset", "play start", "play source"}
        BY <1>3, <2>2, Detached DEF ClientsOK, ClientOK, TellsOK, PublishTold, PlayTold,
            OnCloseStream, Owing
    <2> QED
        BY <2>1, <2>2 DEF TellsOK, PublishTold, PlayTold
<1> QED
    BY <1>2, <1>4, <1>5, ClientStep DEF ClientOK

LEMMA StayClients ==
    ASSUME TypeOK, ClientsOK, NEW c \in Clients,
           UNCHANGED <<begun, unended, readyState, feeding, watching, both>>,
           conn' = conn \/ conn' = [conn EXCEPT ![c] = "closing"],
           pc' = pc \/ Go(c, "idle"),
           pc' = pc \/ c \in unsent' \/ ~Owing(c),
           overtaken \subseteq overtaken', unsent \subseteq unsent'
    PROVE  ClientsOK'
<1>1. \A q \in Clients \ {c} : conn'[q] = conn[q] /\ pc'[q] = pc[q]
    BY Gone DEF TypeOK
<1>2. OthersKept(c)
    BY <1>1 DEF OthersKept, FlowKept
<1>3. pc'[c] = pc[c] \/ pc'[c] = "idle"
    BY Gone
<1>4. ClosedOK(c)'
    BY <1>3 DEF ClientsOK, ClientOK, ClosedOK, Publisher, TypeOK
<1>5. TellsOK(c)'
    BY <1>3 DEF ClientsOK, ClientOK, TellsOK, PublishTold, PlayTold, Owing
<1> QED
    BY <1>2, <1>4, <1>5, ClientStep DEF ClientOK

LEMMA CloseClients ==
    ASSUME TypeOK, ClientsOK, NEW c \in Clients, Close(c), 
           pc' = pc \/ Go(c, "idle"), pc'[c] = "idle",
           pc' = pc \/ c \in unsent' \/ ~Owing(c),
           overtaken' = overtaken, unsent \subseteq unsent', both' = both
    PROVE  ClientsOK'
<1>1. CASE conn[c] = "open"
    BY <1>1, DetachClients DEF Close
<1>2. CASE conn[c] # "open"
    BY <1>2, StayClients DEF Close
<1> QED
    BY <1>1, <1>2

\* Every step keeps ClientsOK.
LEMMA ClientsStep ==
    ASSUME TypeOK, ClientsOK, [Next]_vars
    PROVE  ClientsOK'
<1> USE DEF flow, told
<1>1. ASSUME NEW c \in Clients, PublishRefused(c) \/ Refuse(c) PROVE ClientsOK'
    BY <1>1, CloseClients DEF PublishRefused, Refuse, Receive
<1>2. ASSUME NEW c \in Clients, NEW step \in {"publish notify", "play notify"}, Denied(c, step)
      PROVE  ClientsOK'
    BY <1>2, DetachClients DEF Denied, Owing, PublishTold, PlayTold
<1>3. ASSUME NEW c \in Clients, GiveUp(c, "publish"), pc[c] = "publish start" PROVE ClientsOK'
    BY <1>3, Gone, CloseClients DEF GiveUp, Owing, PublishTold, PlayTold
<1>4. ASSUME NEW c \in Clients, GiveUp(c, "play"), pc[c] \in {"play begin", "play reset", "play start"}
      PROVE  ClientsOK'
    BY <1>4, Gone, CloseClients DEF GiveUp, Owing, PublishTold, PlayTold
<1>5. ASSUME NEW c \in Clients, NoStreamToPlay(c) PROVE ClientsOK'
    BY <1>5, Gone, CloseClients DEF NoStreamToPlay
<1>6. ASSUME NEW c \in Clients, CloseStream(c) PROVE ClientsOK'
    BY <1>6, DetachClients DEF CloseStream
<1>7. ASSUME NEW c \in Clients, OtherClosed(c) PROVE ClientsOK'
    BY <1>7, DetachClients DEF OtherClosed
<1>8. ASSUME NEW c \in Clients, OtherCloses(c) PROVE ClientsOK'
    <2>1. CASE Detach(c)
        BY <1>8, <2>1, DetachClients, StayClients DEF OtherCloses
    <2>2. CASE conn' = [conn EXCEPT ![c] = "closing"]
               /\ UNCHANGED <<pc, begun, unended, readyState, feeding, watching, overtaken>>
        BY <1>8, <2>2, StayClients DEF OtherCloses
    <2> QED
        BY <1>8, <2>1, <2>2 DEF OtherCloses
<1>9. ASSUME NEW c \in Clients, PublishAllowed(c) \/ Play(c) PROVE ClientsOK'
    <2>1. UNCHANGED <<conn, feeding, watching, readyState, begun, unended, unsent, both, overtaken>>
        BY <1>9 DEF PublishAllowed, Play
    <2>2. pc[c] = "idle" /\ \E s \in {"publish notify", "play notify"} : Go(c, s)
        BY <1>9 DEF PublishAllowed, Play, Receive
    <2>3. OthersKept(c)
        BY <2>1, <2>2, Gone DEF OthersKept, FlowKept
    <2>4. ClientOK(c)'
        BY <2>1, <2>2, Gone DEF ClientsOK, ClientOK, ClosedOK, TellsOK, PublishTold, PlayTold,
            Publisher
    <2> QED
        BY <2>3, <2>4, ClientStep
<1>10. ASSUME NEW c \in Clients, PublishAccepted(c) \/ PlayAccepted(c) PROVE ClientsOK'
    <2>1. UNCHANGED <<conn, feeding, watching, readyState, unended, unsent, both, overtaken>>
        BY <1>10 DEF PublishAccepted, PlayAccepted
    <2>2. CASE /\ pc[c] = "publish notify"
               /\ Go(c, "publish start")
               /\ begun' = [begun EXCEPT ![c] = @ \cup {"publish"}]
        <3>1. pc'[c] = "publish start" /\ begun'[c] = begun[c] \cup {"publish"}
            BY <2>2, Gone DEF TypeOK
        <3>2. OthersKept(c)
            BY <2>1, <2>2, Gone DEF OthersKept, FlowKept, TypeOK
        <3>3. ClientOK(c)'
            BY <2>1, <2>2, <3>1 DEF ClientsOK, ClientOK, ClosedOK, TellsOK, PublishTold,
                PlayTold, Publisher
        <3> QED
            BY <3>2, <3>3, ClientStep
    <2>3. CASE /\ pc[c] = "play notify"
               /\ Go(c, "play begin")
               /\ begun' = [begun EXCEPT ![c] = @ \cup {"play"}]
        <3>1. pc'[c] = "play begin" /\ begun'[c] = begun[c] \cup {"play"}
            BY <2>3, Gone DEF TypeOK
        <3>2. OthersKept(c)
            BY <2>1, <2>3, Gone DEF OthersKept, FlowKept, TypeOK
        <3>3. ClientOK(c)'
            BY <2>1, <2>3, <3>1 DEF ClientsOK, ClientOK, ClosedOK, TellsOK, PublishTold,
                PlayTold, Publisher
        <3> QED
            BY <3>2, <3>3, ClientStep
    <2> QED
        BY <1>10, <2>2, <2>3 DEF PublishAccepted, PlayAccepted
<1>11. ASSUME NEW c \in Clients, SendWorks(c), NEW s \in Steps, NEW t \in Steps,
              pc[c] = s, Go(c, t), UNCHANGED <<conn, peer, readyState, flow, commands, told>>,
              <<s, t>> \in {<<"publish start", "publish sink">>, <<"play begin", "play reset">>,
                            <<"play begin", "play start">>, <<"play reset", "play start">>,
                            <<"play start", "play source">>}
       PROVE  ClientsOK'
    <2>1. pc'[c] = t /\ \A q \in Clients \ {c} : pc'[q] = pc[q]
        BY <1>11, Gone
    <2>2. OthersKept(c)
        BY <1>11, <2>1 DEF OthersKept, FlowKept
    <2>3. ClosedOK(c)'
        BY <1>11, <2>1 DEF SendWorks, ClientsOK, ClientOK, ClosedOK, Publisher
    <2>4. TellsOK(c)'
        BY <1>11, <2>1 DEF ClientsOK, ClientOK, TellsOK, PublishTold, PlayTold
    <2> QED
        BY <2>2, <2>3, <2>4, ClientStep DEF ClientOK
<1>12. ASSUME NEW c \in Clients, PublishStarted(c) PROVE ClientsOK'
    BY <1>3, <1>11, <1>12 DEF PublishStarted, Steps
<1>13. ASSUME NEW c \in Clients, PlayStatus(c) PROVE ClientsOK'
    BY <1>4, <1>11, <1>13 DEF PlayStatus, PlaySends, Steps
<1>14. ASSUME NEW c \in Clients, SinkStream(c) PROVE ClientsOK'
    <2>1. \A q \in Clients \ {c} :
            /\ conn'[q] = conn[q] /\ pc'[q] = pc[q]
            /\ readyState'[q] = readyState[q] /\ begun'[q] = begun[q]
        BY <1>14, Gone DEF SinkStream, TypeOK
    <2>2. OthersKept(c)
        BY <1>14, <2>1, FeedsDiffer DEF SinkStream, OthersKept, FlowKept
    <2>3. ClosedOK(c)'
        BY <1>14, Gone DEF SinkStream, ClientsOK, ClientOK, ClosedOK, Publisher
    <2>4. TellsOK(c)'
        BY <1>14, Gone DEF SinkStream, ClientsOK, ClientOK, TellsOK, PublishTold, PlayTold, TypeOK
    <2> QED
        BY <2>2, <2>3, <2>4, ClientStep DEF ClientOK
<1>15. ASSUME NEW c \in Clients, SourceStream(c) PROVE ClientsOK'
    <2>1. \A q \in Clients \ {c} :
            /\ conn'[q] = conn[q] /\ pc'[q] = pc[q]
            /\ readyState'[q] = readyState[q] /\ begun'[q] = begun[q]
        BY <1>15, Gone DEF SourceStream, TypeOK
    <2>2. OthersKept(c)
        BY <1>15, <2>1 DEF SourceStream, OthersKept, FlowKept
    <2>3. ClosedOK(c)'
        BY <1>15, Gone DEF SourceStream, ClientsOK, ClientOK, ClosedOK, Publisher
    <2>4. TellsOK(c)'
        BY <1>15, Gone DEF SourceStream, ClientsOK, ClientOK, TellsOK, PublishTold, PlayTold,
            TypeOK
    <2> QED
        BY <2>2, <2>3, <2>4, ClientStep DEF ClientOK
<1>16. ASSUME NEW c \in Clients, StartRecorders(c) \/ PlayFromProxy(c) PROVE ClientsOK'
    BY <1>16, StayClients DEF StartRecorders, PlayFromProxy, Owing, PublishTold, PlayTold
<1>17. ASSUME NEW c \in Clients, OnRecorderStop(c) \/ PeerLeaves(c) PROVE ClientsOK'
    BY <1>17, StayClients DEF OnRecorderStop, PeerLeaves
<1>18. ASSUME NEW c \in Clients, PullArrives(c) \/ PullEnds(c) PROVE ClientsOK'
    <2>1. \A q \in Clients : FlowKept(q)
        BY <1>18, FeedsDiffer DEF PullArrives, PullEnds, FlowKept
    <2>2. UNCHANGED <<conn, pc, readyState, begun, unended, unsent, both, overtaken>>
        BY <1>18 DEF PullArrives, PullEnds, told
    <2>3. OthersKept(c)
        BY <2>1, <2>2 DEF OthersKept
    <2>4. ClientOK(c)'
        BY <2>1, <2>2 DEF ClientsOK, ClientOK, ClosedOK, TellsOK, PublishTold, PlayTold,
            FlowKept, Publisher
    <2> QED
        BY <2>3, <2>4, ClientStep
<1>19. CASE UNCHANGED vars
    BY <1>19 DEF vars, ClientsOK, ClientOK, ClosedOK, TellsOK, PublishTold, PlayTold, Publisher
<1> QED
    BY <1>1, <1>2, <1>5, <1>6, <1>7, <1>8, <1>9, <1>10, <1>12, <1>13, <1>14, <1>15, <1>16,
       <1>17, <1>18, <1>19 DEF Next, Publish, PlayCommand

-----------------------------------------------------------------------------
(* The theorems.                                                           *)

\* The invariant holds when the server starts.
LEMMA InvInit ==
    ASSUME Init
    PROVE  IInv
<1>1. TypeOK
    BY LiveAssumption DEF Init, TypeOK, LiveAssumption
<1>2. feeding = {} /\ Deciding = {}
    BY DEF Init, Deciding
<1>3. FeedsOK
    BY <1>2 DEF FeedsOK
<1>4. ClientsOK
    BY DEF Init, ClientsOK, ClientOK, ClosedOK, TellsOK, PublishTold, PlayTold
<1> QED
    BY <1>1, <1>3, <1>4 DEF IInv

\* The invariant holds in every state of every behaviour.
LEMMA Invariant == Spec => []IInv
<1>1. IInv /\ [Next]_vars => IInv'
    BY TypeStep, FeedsStep, ClientsStep DEF IInv
<1> QED
    BY InvInit, <1>1, PTL DEF Spec

\* The variables keep their types.
THEOREM TypeCorrect == Spec => []TypeOK
<1>1. IInv => TypeOK
    BY DEF IInv
<1> QED
    BY Invariant, <1>1, PTL

\* Two feeds share the stream only if both had passed the check of
\* STREAM_PUBLISHING before either was attached: onPublish and onPlay never add
\* a feed to one that is there.
THEOREM FeedsAreAlone == Spec => []OneFeedUnlessBlind
<1>1. IInv => OneFeedUnlessBlind
    BY DEF IInv, FeedsOK, OneFeedUnlessBlind
<1> QED
    BY Invariant, <1>1, PTL

\* Every way out of onPublish and onPlay leaves a client whose connection is
\* closed detached from the stream, unless another goroutine closed it in the
\* middle of a handler.
THEOREM ClosedAreDetached == Spec => []NoGhosts
<1>1. IInv => NoGhosts
    BY DEF IInv, ClientsOK, ClientOK, ClosedOK, NoGhosts
<1> QED
    BY Invariant, <1>1, PTL

\* When no handler is in progress, every accepted notification that was not
\* ended belongs to a NetStream that is publishing or playing on a connection
\* that has yet to be closed, so that onCloseStream will end it; with the
\* exceptions EveryBeginIsEnded names.
THEOREM BegunIsEnded == Spec => []EveryBeginIsEnded
<1>1. IInv => EveryBeginIsEnded
    <2> SUFFICES ASSUME IInv, NEW c \in Clients \ (unsent \cup both \cup overtaken \cup unended),
                        pc[c] = "idle"
                 PROVE  /\ "publish" \in begun[c] => readyState[c] = "publishing"
                        /\ "play" \in begun[c] => readyState[c] = "playing"
                        /\ begun[c] # {} => conn[c] # "closed"
        BY DEF EveryBeginIsEnded
    <2>1. /\ "publish" \in begun[c] => readyState[c] = "publishing"
          /\ "play" \in begun[c] => readyState[c] = "playing"
        BY DEF IInv, ClientsOK, ClientOK, TellsOK, PublishTold, PlayTold
    <2>2. begun[c] \subseteq {"publish", "play"}
        BY DEF IInv, TypeOK
    <2>3. conn[c] = "closed" => readyState[c] = "init"
        BY DEF IInv, ClientsOK, ClientOK, ClosedOK
    <2> QED
        BY <2>1, <2>2, <2>3
<1> QED
    BY Invariant, <1>1, PTL
=============================================================================
