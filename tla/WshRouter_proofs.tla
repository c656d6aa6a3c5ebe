--------------------------- MODULE WshRouter_proofs ---------------------------
(* That what a router hands to a link stands in one queue, backlog or not,    *)
(* that a route stays with the link that holds it, and that the responses to  *)
(* a request reach the link that made it, all of them and in order: for any   *)
(* links, routes and requests, channels of any size and any number of         *)
(* responses.                                                                 *)
EXTENDS WshRouter, SequenceTheorems, TLAPS

\* What the switching of messages needs of the types.
SwitchTyped ==
  /\ toRemote \in [Links -> Seq(Message)] /\ backlog \in [Links -> Seq(Message)]
  /\ input \in Seq([msg : Message, from : Links])
  /\ server \in InHand \cup {None}
  /\ upBuf \in Seq(Announcements)

LinksTyped ==
  /\ wants \in [Leaves -> Routes] /\ upstream \in {Up, None}
  /\ link \in [Links -> {"new", "untrusted", "trusted", "gone"}]
  /\ source \in [Links -> Routes \cup {None}] /\ routeMap \in [Routes -> Leaves \cup {None}]

CallsTyped ==
  /\ rpcMap \in [Requests -> RpcRoutingInfo \cup {None}]
  /\ dest \in [Requests -> Dests \cup {None}] /\ said \in [Requests -> Nat]
  /\ root \subseteq Routes
  /\ heard \in [Links -> SUBSET Requests] /\ requests \subseteq Requests

\* Only what has been a link is sent anything, and what waits for the link upstream has one.
SendsToLinks ==
  /\ upstream = Up => link[Up] = "trusted"
  /\ upBuf # << >> => upstream = Up
  /\ \A l \in Links : backlog[l] # << >> => link[l] # "new"
  /\ server # None =>
       /\ server.to # None => link[server.to] # "new"
       /\ server.then = "register" => server.msg.kind = "request" /\ server.from \in Links

\* A channel holds no more than its capacity: a round sends what there is room for.
ChannelsHold == \A l \in Links : Len(toRemote[l]) <= ChanSize

RouterInv == SwitchTyped /\ LinksTyped /\ CallsTyped /\ SendsToLinks /\ ChannelsHold
-----------------------------------------------------------------------------
(* Sequences.                                                                *)

\* Of two sequences in a row, at the end of either and at the start of the first.
LEMMA AppendLast ==
  ASSUME NEW S, NEW s \in Seq(S), NEW t \in Seq(S), NEW e \in S
  PROVE  s \o Append(t, e) = Append(s \o t, e) /\ Append(t, e) \in Seq(S)
  BY ConcatAssociative, AppendIsConcat, AppendProperties, ConcatProperties

LEMMA AppendFirst ==
  ASSUME NEW S, NEW s \in Seq(S), NEW e \in S
  PROVE  Append(s, e) \o << >> = Append(s \o << >>, e) /\ Append(s, e) \in Seq(S)
  BY ConcatEmptySeq, AppendProperties

LEMMA TailFirst ==
  ASSUME NEW S, NEW s \in Seq(S), NEW t \in Seq(S), s # << >>
  PROVE  /\ Tail(s) \o t = Tail(s \o t) /\ Tail(s) \in Seq(S)
         /\ s \o t # << >> /\ Head(s) \in S
  BY HeadTailProperties, ConcatProperties, ConcatEqualIffEmpty, ConcatEmptySeq, EmptySeq, SeqEqual

\* A sequence cut in two is the two in a row.
LEMMA Cut ==
  ASSUME NEW S, NEW s \in Seq(S), NEW t \in Seq(S), NEW d \in 0 .. Len(t)
  PROVE  /\ (s \o SubSeq(t, 1, d)) \o SubSeq(t, d + 1, Len(t)) = s \o t
         /\ SubSeq(t, 1, d) \in Seq(S) /\ SubSeq(t, d + 1, Len(t)) \in Seq(S)
         /\ s \o SubSeq(t, 1, d) \in Seq(S)
<1> DEFINE front == SubSeq(t, 1, d)
           rest  == SubSeq(t, d + 1, Len(t))
<1>1. front \in Seq(S) /\ rest \in Seq(S)
  BY SubSeqProperties
<1>2. front \o rest = SubSeq(t, 1, Len(t))
  <2>1. 1 \in 1 .. Len(t) + 1 /\ d \in 1 - 1 .. Len(t) /\ Len(t) \in d .. Len(t)
    OBVIOUS
  <2>2. QED BY <2>1, ConcatAdjacentSubSeq, Zenon
<1>3. front \o rest = t
  BY <1>2, SubSeqFull, Zenon
<1> HIDE DEF front, rest
<1>4. (s \o front) \o rest = s \o t /\ s \o front \in Seq(S)
  <2>1. (s \o front) \o rest = s \o (front \o rest)
    BY <1>1, ConcatAssociative
  <2>2. s \o front \in Seq(S)
    BY <1>1, ConcatProperties
  <2>3. QED BY <1>3, <2>1, <2>2
<1>5. QED BY <1>1, <1>4 DEF front, rest

-----------------------------------------------------------------------------
(* Lookups, and what is sent.                                                *)

\* A message is routed to nobody, or to what has been a link; a response likewise.
LEMMA LookupOK ==
  ASSUME RouterInv, NEW d
  PROVE  /\ LinkFor(d) \in Links \cup {None}
         /\ LinkFor(d) # None => link[LinkFor(d)] # "new"
  BY DEF RouterInv, LinksTyped, SendsToLinks, LinkFor, Known, Links

LEMMA AskedOK ==
  ASSUME RouterInv, NEW q \in Requests, rpcMap[q] # None
  PROVE  /\ Asked(q) \in Links \cup {None}
         /\ Asked(q) # None => link[Asked(q)] # "new"
  BY DEF RouterInv, CallsTyped, RpcRoutingInfo, Asked, Known

Queues == [l \in Links |-> Queue(l)]

\* What is sent is put at the end of one queue, in the channel or in the backlog.
LEMMA SendOK ==
  ASSUME RouterInv, NEW l \in Links, NEW m \in Message, link[l] # "new", SendTo(l, m)
  PROVE  /\ toRemote' \in [Links -> Seq(Message)] /\ backlog' \in [Links -> Seq(Message)]
         /\ \A k \in Links : backlog'[k] # << >> => link[k] # "new"
         /\ ChannelsHold'
         /\ Queues' = [Queues EXCEPT ![l] = Append(@, m)]
<1> DEFINE r == toRemote[l]
           b == backlog[l]
<1>1. r \in Seq(Message) /\ b \in Seq(Message)
  BY DEF RouterInv, SwitchTyped
<1>2. CASE Fits(l)
  <2>1. toRemote' = [toRemote EXCEPT ![l] = Append(r, m)] /\ backlog' = backlog /\ b = << >>
    BY <1>2 DEF SendTo, Fits
  <2>2. /\ Append(r, m) \o b = Append(r \o b, m) /\ Append(r, m) \in Seq(Message)
        /\ Len(Append(r, m)) = Len(r) + 1
    BY <1>1, <2>1, AppendFirst, AppendProperties
  <2>3. Len(r) + 1 <= ChanSize
    BY <1>1, <1>2, RouterAssumption DEF Fits, Room
  <2> HIDE DEF r, b
  <2>4. ChannelsHold'
    BY <2>1, <2>2, <2>3 DEF RouterInv, SwitchTyped, ChannelsHold
  <2>5. QED BY <2>1, <2>2, <2>4 DEF RouterInv, SwitchTyped, SendsToLinks, Queues, Queue, r, b
<1>3. CASE ~Fits(l)
  <2>1. toRemote' = toRemote /\ backlog' = [backlog EXCEPT ![l] = Append(b, m)]
    BY <1>3 DEF SendTo
  <2> HIDE DEF r, b
  <2>2. r \o Append(b, m) = Append(r \o b, m) /\ Append(b, m) \in Seq(Message)
    BY <1>1, AppendLast
  <2>3. ChannelsHold'
    BY <2>1 DEF RouterInv, ChannelsHold
  <2>4. QED BY <2>1, <2>2, <2>3 DEF RouterInv, SwitchTyped, SendsToLinks, Queues, Queue, r, b
<1>4. QED BY <1>2, <1>3

\* A round moves messages from a backlog to its channel, or drops the backlog of what is gone.
LEMMA RoundOK ==
  ASSUME RouterInv, Round, NEW l \in Links
  PROVE  /\ toRemote'[l] \in Seq(Message) /\ backlog'[l] \in Seq(Message)
         /\ Len(toRemote'[l]) <= ChanSize
         /\ backlog'[l] # << >> => link[l] # "new"
         /\ \/ Queue(l)' = Queue(l)
            \/ link[l] = "gone" /\ Queue(l)' = SubSeq(Queue(l), 1, Len(toRemote[l]))
<1> DEFINE r == toRemote[l]
           b == backlog[l]
           d == Drained(l)
<1>1. r \in Seq(Message) /\ b \in Seq(Message)
  BY DEF RouterInv, SwitchTyped
<1>2. d \in 0 .. Len(b) /\ d <= ChanSize - Len(r)
  BY <1>1, RouterAssumption DEF Drained, Room, RouterInv, ChannelsHold
<1>3. toRemote'[l] = r \o SubSeq(b, 1, d) /\ backlog'[l] = Left(l)
  BY DEF Round, RouterInv
<1>4. CASE Known(l)
  <2>1. backlog'[l] = SubSeq(b, d + 1, Len(b))
    BY <1>3, <1>4 DEF Left
  <2>2. link[l] # "new"
    BY <1>4 DEF Known
  <2> HIDE DEF r, b, d
  <2>3. /\ (r \o SubSeq(b, 1, d)) \o SubSeq(b, d + 1, Len(b)) = r \o b
        /\ SubSeq(b, 1, d) \in Seq(Message) /\ SubSeq(b, d + 1, Len(b)) \in Seq(Message)
        /\ r \o SubSeq(b, 1, d) \in Seq(Message)
    BY <1>1, <1>2, Cut
  <2>4. Len(r \o SubSeq(b, 1, d)) = Len(r) + d
    BY <1>1, <1>2
  <2>5. Len(toRemote'[l]) <= ChanSize
    BY <1>1, <1>2, <1>3, <2>4, RouterAssumption
  <2>6. QED BY <1>3, <2>1, <2>2, <2>3, <2>5 DEF Queue, r, b
<1>5. CASE ~Known(l)
  <2>1. d = 0 /\ backlog'[l] = << >>
    BY <1>3, <1>5 DEF Drained, Left
  <2>2. link[l] = "gone" \/ b = << >>
    BY <1>5 DEF Known, RouterInv, LinksTyped, SendsToLinks
  <2> HIDE DEF r, b, d
  <2>3. r \o SubSeq(b, 1, d) = r
    BY <1>1, <2>1
  <2>4. r \o << >> = SubSeq(r \o b, 1, Len(r)) /\ (b = << >> => r \o << >> = r \o b)
    BY <1>1
  <2>5. toRemote'[l] = r /\ Len(r) <= ChanSize
    BY <1>3, <2>3 DEF r, RouterInv, ChannelsHold
  <2>6. Queue(l)' = r \o << >> /\ Queue(l) = r \o b
    BY <2>1, <2>5 DEF Queue, r, b
  <2>7. QED BY <1>1, <2>1, <2>2, <2>4, <2>5, <2>6 DEF r
<1>6. QED BY <1>4, <1>5

\* What is queued for the router, and for upstream.
LEMMA PassedOn ==
  ASSUME RouterInv, NEW l \in Links, NEW m \in Message, PassOn(l, m)
  PROVE  input' \in Seq([msg : Message, from : Links])
  BY AppendProperties DEF RouterInv, SwitchTyped, PassOn

LEMMA QueuedUpstream ==
  ASSUME RouterInv, NEW m \in Announcements, queueUpstreamMessage(m)
  PROVE  upBuf' \in Seq(Announcements) /\ (upBuf' # << >> => upstream = Up)
  BY AppendProperties DEF RouterInv, SwitchTyped, LinksTyped, SendsToLinks, queueUpstreamMessage
-----------------------------------------------------------------------------
(* RouterInv holds at first, and every step keeps it.                        *)
LEMMA InitInv == Init => RouterInv
<1> SUFFICES ASSUME NEW scene \in Scenes, SceneIs(scene, scene.here) PROVE RouterInv
  BY DEF Init
<1>1. /\ scene.here \subseteq Leaves /\ scene.wants \in [Leaves -> Routes]
      /\ scene.asks \subseteq Requests
  BY RouterAssumption
<1>2. LinksTyped
  BY <1>1, RouterAssumption DEF SceneIs, LinksTyped, Links
<1>3. SwitchTyped
  BY DEF SceneIs, SwitchTyped
<1>4. CallsTyped
  BY <1>1 DEF SceneIs, CallsTyped
<1>5. SendsToLinks /\ ChannelsHold
  BY RouterAssumption DEF SceneIs, SendsToLinks, ChannelsHold, Links
<1>6. QED BY <1>2, <1>3, <1>4, <1>5 DEF RouterInv

(* The router's own goroutines.                                              *)
LEMMA RouterSteps ==
  ASSUME RouterInv, \/ Rest \/ Round \/ runUpstreamBufferLoop \/ runServer
                    \/ sendRpcMessageToLink \/ registerRouteInfo \/ unregisterRouteInfo
  PROVE  RouterInv'
<1> USE RouterAssumption
<1>1. CASE Rest
  BY <1>1 DEF Rest, RouterInv, SwitchTyped, LinksTyped, CallsTyped, SendsToLinks, ChannelsHold,
              fixed, linkVars,
             rootVars, callVars
<1>2. CASE Round
  <2>1. ASSUME NEW l \in Links
        PROVE  /\ toRemote'[l] \in Seq(Message) /\ backlog'[l] \in Seq(Message)
               /\ Len(toRemote'[l]) <= ChanSize
               /\ backlog'[l] # << >> => link[l] # "new"
    BY <1>2, RoundOK
  <2>2. QED
    BY <1>2, <2>1 DEF Round, RouterInv, SwitchTyped, LinksTyped, CallsTyped, SendsToLinks,
                      ChannelsHold, fixed,
                      linkVars, rootVars, callVars
<1>3. CASE runUpstreamBufferLoop
  <2>1. /\ Head(upBuf) \in Announcements /\ Tail(upBuf) \in Seq(Announcements)
        /\ Announcements \subseteq Message /\ Up \in Links /\ link[Up] # "new"
        /\ SendTo(Up, Head(upBuf))
    BY <1>3, HeadTailProperties
    DEF runUpstreamBufferLoop, RouterInv, SwitchTyped, SendsToLinks, Announcements, Message, Links
  <2>2. QED
    BY <1>3, <2>1, SendOK
    DEF runUpstreamBufferLoop, RouterInv, SwitchTyped, LinksTyped, CallsTyped, SendsToLinks,
        ChannelsHold, fixed,
        linkVars, rootVars, callVars
<1>4. CASE runServer
  <2> DEFINE m == Head(input).msg
             from == Head(input).from
  <2>1. m \in Message /\ from \in Links /\ Tail(input) \in Seq([msg : Message, from : Links])
    <3>1. /\ Head(input) \in [msg : Message, from : Links]
          /\ Tail(input) \in Seq([msg : Message, from : Links])
      BY <1>4, HeadTailProperties DEF runServer, RouterInv, SwitchTyped
    <3>2. QED BY <3>1
  <2>2. /\ server' # None => server' \in InHand
        /\ server' # None /\ server'.to # None => link[server'.to] # "new"
        /\ server' # None /\ server'.then = "register"
             => server'.msg.kind = "request" /\ server'.from \in Links
    <3> HIDE DEF m, from
    <3>1. CASE m.kind = "request" /\ RouteRequest(m, from)
      <4>1. m.id \in Requests /\ NoRoute(m.id) \in Message
        BY <2>1, <3>1 DEF Message, NoRoute
      <4>2. QED
        BY <2>1, <3>1, <4>1, LookupOK DEF RouteRequest, Serve, InHand
    <3>2. CASE m.kind = "cancel" /\ RouteCancel(m, from)
      BY <2>1, <3>2, LookupOK DEF RouteCancel, Serve, InHand
    <3>3. CASE m.kind = "response" /\ RouteResponse(m, from)
      <4>1. m.id \in Requests
        BY <2>1, <3>3 DEF Message
      <4>2. QED
        BY <2>1, <3>3, <4>1, AskedOK DEF RouteResponse, Afterwards, Serve, InHand
    <3>4. QED BY <1>4, <3>1, <3>2, <3>3 DEF runServer, m, from
  <2>3. QED
    BY <1>4, <2>1, <2>2
    DEF runServer, RouterInv, SwitchTyped, LinksTyped, CallsTyped, SendsToLinks, ChannelsHold,
        fixed, linkVars, sendVars, rootVars, callVars
<1>5. CASE sendRpcMessageToLink
  <2>1. /\ server \in InHand /\ server.to \in Links /\ link[server.to] # "new"
        /\ SendTo(server.to, server.msg)
    BY <1>5 DEF sendRpcMessageToLink, RouterInv, SwitchTyped, SendsToLinks, InHand
  <2>2. QED
    BY <1>5, <2>1, SendOK
    DEF sendRpcMessageToLink, RouterInv, SwitchTyped, LinksTyped, CallsTyped, SendsToLinks,
        ChannelsHold, fixed,
        linkVars, rootVars, callVars, InHand
<1>6. CASE registerRouteInfo
  <2>1. server \in InHand /\ server.msg.kind = "request" /\ server.from \in Links
    BY <1>6 DEF registerRouteInfo, RouterInv, SwitchTyped, SendsToLinks
  <2>2. server.msg.id \in Requests /\ server.msg.route \in Dests
    BY <2>1 DEF InHand, Message
  <2>3. QED
    BY <1>6, <2>1, <2>2
    DEF registerRouteInfo, RouterInv, SwitchTyped, LinksTyped, CallsTyped, SendsToLinks,
        ChannelsHold, RpcRoutingInfo, fixed,
        linkVars, sendVars, rootVars, callVars
<1>7. CASE unregisterRouteInfo
  BY <1>7
  DEF unregisterRouteInfo, RouterInv, SwitchTyped, LinksTyped, CallsTyped, SendsToLinks,
      ChannelsHold, fixed,
      linkVars, sendVars, rootVars, callVars
<1>8. QED BY <1>1, <1>2, <1>3, <1>4, <1>5, <1>6, <1>7

(* Links and their routes.                                                   *)
LEMMA LinkSteps ==
  ASSUME RouterInv, NEW l \in Leaves,
         \/ RegisterUntrustedLink(l) \/ trustLink(l) \/ bindRouteLocally(l) \/ announceUpstream(l)
         \/ UnregisterLink(l) \/ DeleteLink(l)
         \/ \E r \in Routes : unbindRouteLocally(l, r) \/ unannounceUpstream(l, r)
  PROVE  RouterInv'
<1> USE RouterAssumption DEF RouterInv, SwitchTyped, LinksTyped, CallsTyped, SendsToLinks,
                             ChannelsHold, fixed, sendVars, rootVars, Links
<1>1. CASE RegisterUntrustedLink(l)
  BY <1>1 DEF RegisterUntrustedLink, callVars
<1>2. CASE trustLink(l)
  BY <1>2 DEF trustLink, callVars, Known
<1>3. CASE bindRouteLocally(l)
  <2>1. CASE link[l] = "trusted"
    <3>1. wants[l] \in Routes /\ l \in Links
      OBVIOUS
    <3>2. /\ source' \in [Links -> Routes \cup {None}]
          /\ routeMap' \in [Routes -> Leaves \cup {None}]
      BY <1>3, <2>1, <3>1 DEF bindRouteLocally
    <3>3. QED BY <1>3, <2>1, <3>2 DEF bindRouteLocally, callVars
  <2>2. CASE link[l] # "trusted"
    BY <1>3, <2>2 DEF bindRouteLocally, callVars
  <2>3. QED BY <2>1, <2>2
<1>4. CASE announceUpstream(l)
  BY <1>4, QueuedUpstream DEF announceUpstream, callVars, Announcements
<1>5. CASE UnregisterLink(l)
  BY <1>5 DEF UnregisterLink
<1>6. CASE DeleteLink(l)
  BY <1>6 DEF DeleteLink, callVars
<1>7. ASSUME NEW r \in Routes, unbindRouteLocally(l, r) PROVE RouterInv'
  BY <1>7 DEF unbindRouteLocally, Unbound, callVars
<1>8. ASSUME NEW r \in Routes, unannounceUpstream(l, r) PROVE RouterInv'
  BY <1>8, QueuedUpstream DEF unannounceUpstream, callVars, Announcements
<1>9. QED BY <1>1, <1>2, <1>3, <1>4, <1>5, <1>6, <1>7, <1>8

(* What the links say and are told.                                          *)
LEMMA MessageSteps ==
  ASSUME RouterInv, NEW l \in Links, NEW q \in Requests,
         \/ Refuse(l, q) \/ Cancel(l, q) \/ \E d \in Dests : Ask(l, q, d)
         \/ \E cont \in BOOLEAN : Answer(l, q, cont)
         \/ Bounce(q)
  PROVE  RouterInv'
<1> USE DEF fixed, linkVars, sendVars, rootVars
<1>1. CASE Refuse(l, q)
  <2>1. NoRoute(q) \in Message /\ link[l] # "new" /\ SendTo(l, NoRoute(q))
    BY <1>1, RouterAssumption DEF Refuse, NoRoute, Message
  <2>2. QED
    BY <1>1, <2>1, SendOK
    DEF Refuse, RouterInv, SwitchTyped, LinksTyped, CallsTyped, SendsToLinks
<1>2. CASE Cancel(l, q)
  <2>1. input' \in Seq([msg : Message, from : Links])
    BY <1>2, PassedOn DEF Cancel, Message
  <2>2. QED
    BY <1>2, <2>1
    DEF Cancel, RouterInv, SwitchTyped, LinksTyped, CallsTyped, SendsToLinks, ChannelsHold
<1>3. ASSUME NEW d \in Dests, Ask(l, q, d) PROVE RouterInv'
  <2>1. input' \in Seq([msg : Message, from : Links])
    BY <1>3, PassedOn DEF Ask, Message, RouterInv, LinksTyped
  <2>2. QED
    BY <1>3, <2>1
    DEF Ask, RouterInv, SwitchTyped, LinksTyped, CallsTyped, SendsToLinks, ChannelsHold
<1>4. ASSUME NEW cont \in BOOLEAN, Answer(l, q, cont) PROVE RouterInv'
  <2>1. said[q] + 1 \in 0 .. MaxAnswers
    BY <1>4, RouterAssumption DEF Answer, RouterInv, CallsTyped
  <2>2. input' \in Seq([msg : Message, from : Links])
    <3>1. [kind |-> "response", id |-> q, n |-> said[q] + 1, cont |-> cont] \in Message
      BY <2>1 DEF Message
    <3>2. QED BY <1>4, <3>1, PassedOn DEF Answer, RouterInv, SwitchTyped
  <2>3. QED
    BY <1>4, <2>1, <2>2
    DEF Answer, RouterInv, SwitchTyped, LinksTyped, CallsTyped, SendsToLinks, ChannelsHold
<1>5. CASE Bounce(q)
  <2>1. dest[q] \in Routes /\ Up \in Links
    BY <1>5 DEF Bounce, RouterInv, CallsTyped, Links
  <2>2. input' \in Seq([msg : Message, from : Links])
    BY <1>5, <2>1, PassedOn DEF Bounce, Message, Dests
  <2>3. QED
    BY <1>5, <2>2
    DEF Bounce, RouterInv, SwitchTyped, LinksTyped, CallsTyped, SendsToLinks, ChannelsHold
<1>6. QED BY <1>1, <1>2, <1>3, <1>4, <1>5

(* What the links are given.                                                *)
LEMMA DeliverySteps ==
  ASSUME RouterInv, (\E l \in Links : Deliver(l)) \/ \E m \in Announcements : HandleAnnouncement(m)
  PROVE  RouterInv'
<1> USE DEF fixed, linkVars, sendVars, rootVars
<1>1. ASSUME NEW l \in Links, Deliver(l) PROVE RouterInv'
  <2>1. /\ Head(toRemote[l]) \in Message /\ Tail(toRemote[l]) \in Seq(Message)
        /\ Len(Tail(toRemote[l])) <= ChanSize
    BY <1>1, HeadTailProperties, RouterAssumption DEF Deliver, RouterInv, SwitchTyped, ChannelsHold
  <2>2. Head(toRemote[l]).kind = "request" => Head(toRemote[l]).id \in Requests
    BY <2>1 DEF Message
  <2>3. heard' \in [Links -> SUBSET Requests]
    BY <1>1, <2>2 DEF Deliver, RouterInv, CallsTyped
  <2>4. QED
    BY <1>1, <2>1, <2>3
    DEF Deliver, RouterInv, SwitchTyped, LinksTyped, CallsTyped, SendsToLinks, ChannelsHold
<1>2. ASSUME NEW m \in Announcements, HandleAnnouncement(m) PROVE RouterInv'
  BY <1>2
  DEF HandleAnnouncement, RouterInv, SwitchTyped, LinksTyped, CallsTyped, SendsToLinks,
      ChannelsHold, callVars, Announcements
<1>3. QED BY <1>1, <1>2

(* Spec keeps the types, and nothing is sent to what has never been a link:   *)
(* a message in hand may be for a link that is gone, and so may a backlog.    *)
THEOREM RouterInvariant == Spec => []RouterInv
<1>1. RouterInv /\ Next => RouterInv'
  <2> SUFFICES ASSUME RouterInv, Next PROVE RouterInv'
    OBVIOUS
  <2>1. CASE \/ Rest \/ Round \/ runUpstreamBufferLoop \/ runServer
             \/ sendRpcMessageToLink \/ registerRouteInfo \/ unregisterRouteInfo
    BY <2>1, RouterSteps
  <2>2. ASSUME NEW l \in Leaves,
               \/ RegisterUntrustedLink(l) \/ trustLink(l) \/ bindRouteLocally(l)
               \/ announceUpstream(l) \/ UnregisterLink(l) \/ DeleteLink(l)
               \/ \E r \in Routes : unbindRouteLocally(l, r) \/ unannounceUpstream(l, r)
        PROVE RouterInv'
    BY <2>2, LinkSteps
  <2>3. CASE (\E l \in Links : Deliver(l)) \/ \E m \in Announcements : HandleAnnouncement(m)
    BY <2>3, DeliverySteps
  <2>4. ASSUME NEW q \in Requests, Bounce(q) PROVE RouterInv'
    <3>1. Up \in Links
      BY DEF Links
    <3>2. QED BY <2>4, <3>1, MessageSteps
  <2>5. ASSUME NEW q \in Requests, NEW l \in Links,
               \/ Refuse(l, q) \/ Cancel(l, q) \/ \E d \in Dests : Ask(l, q, d)
               \/ \E cont \in BOOLEAN : Answer(l, q, cont)
        PROVE RouterInv'
    BY <2>5, MessageSteps
  <2>6. QED BY <2>1, <2>2, <2>3, <2>4, <2>5 DEF Next
<1>2. RouterInv /\ UNCHANGED vars => RouterInv'
  BY DEF RouterInv, SwitchTyped, LinksTyped, CallsTyped, SendsToLinks, ChannelsHold, vars, fixed,
         linkVars, sendVars, rootVars, callVars
<1>3. QED BY InitInv, <1>1, <1>2, PTL DEF Spec
-----------------------------------------------------------------------------
(* The queue of each link.                                                   *)

GoneLinks == {l \in Links : link[l] = "gone"}

\* The queues are sequences; and what is sent is put into one of them.
LEMMA QueuesTyped ==
  ASSUME RouterInv PROVE Queues \in [Links -> Seq(Message)]
  BY DEF RouterInv, SwitchTyped, Queues, Queue

\* The router sends to nobody, and nobody goes.
LEMMA Idles ==
  ASSUME UNCHANGED <<toRemote, backlog, link>> PROVE UNCHANGED <<Queues, GoneLinks>>
  BY DEF Queues, Queue, GoneLinks

LEMMA Puts ==
  ASSUME RouterInv, NEW l \in Links, NEW m \in Message, link[l] # "new", SendTo(l, m),
         UNCHANGED link
  PROVE  Switch!Put(l, m)
  BY SendOK DEF Switch!Put, Queues, GoneLinks

(* What the router hands to a link stands in one queue, IsLinkQueue, through  *)
(* the channel, the backlog, its worker and links that come and go.           *)
THEOREM RouterIsLinkQueue == Spec => IsLinkQueue
<1>1. Init => Switch!Init
  BY RouterAssumption DEF Init, SceneIs, Switch!Init, Queue, Links
<1>2. ASSUME RouterInv, Next PROVE Switch!Next \/ UNCHANGED Switch!vars
  <2> USE <1>2
  <2>1. CASE \/ Rest \/ runServer \/ registerRouteInfo \/ unregisterRouteInfo
             \/ \E m \in Announcements : HandleAnnouncement(m)
    BY <2>1, Idles
    DEF Rest, runServer, registerRouteInfo, unregisterRouteInfo, HandleAnnouncement, sendVars,
        linkVars, Queues, GoneLinks, Switch!vars
  <2>2. CASE Round
    <3>1. UNCHANGED GoneLinks
      BY <2>2 DEF Round, linkVars, GoneLinks
    <3>2. ASSUME NEW l \in Links
          PROVE  \E n \in 0 .. Len(Queues[l]) : /\ Queues'[l] = SubSeq(Queues[l], 1, n)
                                                /\ l \in GoneLinks \/ n = Len(Queues[l])
      <4>1. /\ Queues[l] = Queue(l) /\ Queues'[l] = Queue(l)'
            /\ toRemote[l] \in Seq(Message) /\ backlog[l] \in Seq(Message)
        BY DEF Queues, RouterInv, SwitchTyped
      <4>2. Queue(l) \in Seq(Message) /\ Len(Queue(l)) = Len(toRemote[l]) + Len(backlog[l])
        BY <4>1, ConcatProperties DEF Queue
      <4> DEFINE x == Len(toRemote[l])
                 y == Len(backlog[l])
                 z == Len(Queue(l))
      <4>3. x \in Nat /\ y \in Nat /\ z \in Nat
        BY <4>1, <4>2, LenProperties
      <4> HIDE DEF x, y, z
      <4>4. CASE Queue(l)' = Queue(l)
        <5>1. SubSeq(Queue(l), 1, z) = Queue(l)
          BY <4>2, SubSeqFull DEF z
        <5>2. z \in 0 .. z
          BY <4>3
        <5>3. QED BY <4>1, <4>4, <5>1, <5>2 DEF z
      <4>5. CASE link[l] = "gone" /\ Queue(l)' = SubSeq(Queue(l), 1, Len(toRemote[l]))
        <5>1. z = x + y
          BY <4>2 DEF x, y, z
        <5>2. x \in 0 .. z
          BY <4>3, <5>1
        <5>3. QED BY <4>1, <4>5, <5>2 DEF GoneLinks, x, z
      <4>6. QED BY <2>2, <4>4, <4>5, RoundOK
    <3>3. Queues' \in [Links -> Seq(Message)]
      <4>1. RouterInv'
        BY <2>2, RouterSteps
      <4>2. QED BY <4>1 DEF RouterInv, SwitchTyped, Queues, Queue
    <3>4. QED BY <3>1, <3>2, <3>3 DEF Switch!Next, Switch!Forget, Queues, GoneLinks
  <2>3. CASE runUpstreamBufferLoop
    <3>1. /\ Head(upBuf) \in Message /\ Up \in Links /\ link[Up] # "new"
          /\ SendTo(Up, Head(upBuf)) /\ UNCHANGED link
      BY <2>3, HeadTailProperties
      DEF runUpstreamBufferLoop, RouterInv, SwitchTyped, SendsToLinks, Announcements, Message,
          Links, linkVars
    <3>2. QED BY <3>1, Puts DEF Switch!Next
  <2>4. CASE sendRpcMessageToLink
    <3>1. /\ server.msg \in Message /\ server.to \in Links /\ link[server.to] # "new"
          /\ SendTo(server.to, server.msg) /\ UNCHANGED link
      BY <2>4 DEF sendRpcMessageToLink, RouterInv, SwitchTyped, SendsToLinks, InHand, linkVars
    <3>2. QED BY <3>1, Puts DEF Switch!Next
  <2>5. ASSUME NEW l \in Links, Deliver(l) PROVE Switch!Take(l)
    <3>1. /\ toRemote[l] \in Seq(Message) /\ backlog[l] \in Seq(Message) /\ toRemote[l] # << >>
          /\ toRemote' = [toRemote EXCEPT ![l] = Tail(@)] /\ UNCHANGED <<backlog, link>>
      BY <2>5 DEF Deliver, RouterInv, SwitchTyped, linkVars
    <3>2. Tail(toRemote[l]) \o backlog[l] = Tail(Queue(l)) /\ Queue(l) # << >>
      BY <3>1, TailFirst DEF Queue
    <3>3. Queues' = [Queues EXCEPT ![l] = Tail(@)]
      BY <3>1, <3>2 DEF Queues, Queue, RouterInv, SwitchTyped
    <3>4. QED BY <3>1, <3>2, <3>3 DEF Switch!Take, Queues, GoneLinks
  <2>6. ASSUME NEW l \in Leaves, DeleteLink(l) PROVE Switch!Leave(l)
    <3>1. UNCHANGED Queues
      BY <2>6 DEF DeleteLink, sendVars, Queues, Queue
    <3>2. GoneLinks' = GoneLinks \cup {l}
      BY <2>6 DEF DeleteLink, GoneLinks, Links, RouterInv, LinksTyped
    <3>3. QED BY <3>1, <3>2 DEF Switch!Leave, Queues, GoneLinks
  <2>7. ASSUME NEW l \in Leaves,
               \/ RegisterUntrustedLink(l) \/ trustLink(l) \/ bindRouteLocally(l)
               \/ announceUpstream(l) \/ UnregisterLink(l)
               \/ \E r \in Routes : unbindRouteLocally(l, r) \/ unannounceUpstream(l, r)
        PROVE UNCHANGED Switch!vars
    <3>1. UNCHANGED Queues
      BY <2>7
      DEF RegisterUntrustedLink, trustLink, bindRouteLocally, announceUpstream, UnregisterLink,
          unbindRouteLocally, unannounceUpstream, sendVars, Queues, Queue
    <3>2. UNCHANGED GoneLinks
      BY <2>7
      DEF RegisterUntrustedLink, trustLink, bindRouteLocally, announceUpstream, UnregisterLink,
          unbindRouteLocally, unannounceUpstream, GoneLinks, Known, RouterInv, LinksTyped
    <3>3. QED BY <3>1, <3>2 DEF Switch!vars, Queues, GoneLinks
  <2>8. ASSUME NEW q \in Requests, NEW l \in Links,
               \/ Bounce(q) \/ Cancel(l, q) \/ \E d \in Dests : Ask(l, q, d)
               \/ \E cont \in BOOLEAN : Answer(l, q, cont)
        PROVE UNCHANGED Switch!vars
    BY <2>8, Idles DEF Bounce, Cancel, Ask, Answer, sendVars, linkVars, Switch!vars, Queues,
                       GoneLinks
  <2>9. ASSUME NEW q \in Requests, NEW l \in Links, Refuse(l, q) PROVE Switch!Put(l, NoRoute(q))
    <3>1. NoRoute(q) \in Message /\ link[l] # "new" /\ SendTo(l, NoRoute(q)) /\ UNCHANGED link
      BY <2>9, RouterAssumption DEF Refuse, NoRoute, Message, linkVars
    <3>2. QED BY <3>1, Puts
  <2>10. ASSUME NEW q \in Requests PROVE NoRoute(q) \in Message /\ Up \in Links
    BY RouterAssumption DEF NoRoute, Message, Links
  <2>11. QED
    BY <2>1, <2>2, <2>3, <2>4, <2>5, <2>6, <2>7, <2>8, <2>9, <2>10 DEF Next, Switch!Next, Links
<1>3. UNCHANGED vars => UNCHANGED Switch!vars
  BY DEF vars, sendVars, linkVars, Switch!vars, Queue
<1>4. QED BY RouterInvariant, <1>1, <1>2, <1>3, PTL DEF Spec, IsLinkQueue, Switch!Spec
-----------------------------------------------------------------------------
(* A link loses its route to another that binds it, or as it leaves: the      *)
(* clean-up unbinds only what the link still holds, HolderKeeps.              *)
THEOREM RouteStaysWithHolder == Spec => HolderKeeps
<1>1. ASSUME RouterInv, Next, NEW r \in Routes, routeMap[r] # None, routeMap'[r] = None
      PROVE  r \in unreg[routeMap[r]].unbind
  <2>1. /\ routeMap[r] \in Leaves /\ routeMap \in [Routes -> Leaves \cup {None}]
        /\ wants \in [Leaves -> Routes]
    BY <1>1 DEF RouterInv, LinksTyped
  <2>2. ~ UNCHANGED routeMap
    BY <1>1
  <2>3. PICK l \in Leaves : bindRouteLocally(l) \/ \E k \in Routes : unbindRouteLocally(l, k)
    <3>1. ~ (\/ Rest \/ Round \/ runUpstreamBufferLoop \/ runServer
             \/ sendRpcMessageToLink \/ registerRouteInfo \/ unregisterRouteInfo
             \/ \E m \in Announcements : HandleAnnouncement(m))
      BY <2>2
      DEF Rest, Round, runUpstreamBufferLoop, runServer, sendRpcMessageToLink, registerRouteInfo,
          unregisterRouteInfo, HandleAnnouncement
    <3>2. \A k \in Leaves : ~ (\/ RegisterUntrustedLink(k) \/ trustLink(k) \/ announceUpstream(k)
                               \/ UnregisterLink(k) \/ DeleteLink(k)
                               \/ \E x \in Routes : unannounceUpstream(k, x))
      BY <2>2
      DEF RegisterUntrustedLink, trustLink, announceUpstream, UnregisterLink, DeleteLink,
          unannounceUpstream
    <3>3. \A k \in Links : ~ Deliver(k)
      BY <2>2 DEF Deliver
    <3>4. \A q \in Requests :
            ~ (Bounce(q) \/ \E k \in Links : \/ Refuse(k, q) \/ Cancel(k, q)
                                             \/ \E d \in Dests : Ask(k, q, d))
      BY <2>2 DEF Bounce, Refuse, Cancel, Ask
    <3>5. \A q \in Requests, k \in Links, cont \in BOOLEAN : ~ Answer(k, q, cont)
      BY <2>2 DEF Answer
    <3>6. QED BY <1>1, <3>1, <3>2, <3>3, <3>4, <3>5 DEF Next
  <2>4. ~ bindRouteLocally(l)
    BY <1>1, <2>1, RouterAssumption DEF bindRouteLocally, Links
  <2>5. PICK k \in Routes : unbindRouteLocally(l, k)
    BY <2>3, <2>4
  <2>6. k = r /\ routeMap[r] = l
    BY <1>1, <2>1, <2>5 DEF unbindRouteLocally, Unbound
  <2>7. QED BY <2>5, <2>6 DEF unbindRouteLocally
<1>2. RouterInv /\ [Next]_vars
        => [\A r \in Routes : routeMap[r] # None /\ routeMap'[r] = None
                                => r \in unreg[routeMap[r]].unbind]_vars
  BY <1>1 DEF vars
<1>3. QED BY RouterInvariant, <1>2, PTL DEF Spec, HolderKeeps
-----------------------------------------------------------------------------
(* The responses.  A request is in one place until it is answered for the     *)
(* last time; what answers it goes the way of its asker, in order.           *)
IsRequest(m, q) == m.kind = "request" /\ m.id = q

Has(q, s) == \E i \in DOMAIN s : IsRequest(s[i], q)
HasOnce(q, s) == \A i, j \in DOMAIN s : IsRequest(s[i], q) /\ IsRequest(s[j], q) => i = j

\* The server has m to send.
Serves(q) == server # None /\ server.to # None /\ IsRequest(server.msg, q)
Registering(q) == server # None /\ server.to = None /\ IsRequest(server.msg, q)
Registered(q) == rpcMap[q] # None \/ Registering(q)

ServerNumbers(q) ==
  IF server # None /\ server.to # None /\ Answers(server.msg, q) THEN {server.msg.n} ELSE {}

\* Nobody has the request to answer it.
Over(q) ==
  /\ ~ Has(q, Inbox) /\ ~ Serves(q)
  /\ \A l \in Links : ~ Has(q, Queue(l)) /\ q \notin heard[l]

HeldOnce(q) ==
  /\ HasOnce(q, Inbox)
  /\ \A l \in Links : HasOnce(q, Queue(l))
  /\ \A l, k \in Links : Has(q, Queue(l)) /\ Has(q, Queue(k)) => l = k
  /\ \A l, k \in Links : q \in heard[l] /\ q \in heard[k] => l = k
  /\ \A l, k \in Links : Has(q, Queue(l)) => q \notin heard[k]
  /\ Has(q, Inbox) \/ Serves(q) => \A l \in Links : ~ Has(q, Queue(l)) /\ q \notin heard[l]
  /\ Has(q, Inbox) => ~ Serves(q)

ComesFromAsker(q) ==
  /\ \A i \in DOMAIN input : IsRequest(input[i].msg, q) => input[i].from = asker[q]
  /\ server # None /\ IsRequest(server.msg, q) => server.from = asker[q] /\ server.then = "register"
  /\ rpcMap[q] # None => rpcMap[q].from = asker[q]
  /\ \A l \in Links : Numbers(q, Queue(l)) # {} => l = asker[q]
  /\ ServerNumbers(q) # {} => server.to = asker[q]

IsRegistered(q) ==
  (\E l \in Links : Has(q, Queue(l)) \/ q \in heard[l]) \/ Numbers(q, Inbox) # {} => Registered(q)

ForgottenLast(q) ==
  /\ \A i \in DOMAIN input : Answers(input[i].msg, q) /\ ~ input[i].msg.cont =>
       Over(q) /\ input[i].msg.n = said[q]
  /\ server # None /\ server.then = "forget" /\ server.msg.id = q =>
       asker[q] # None /\ Over(q) /\ Numbers(q, Inbox) = {}

Numbered(q) ==
  /\ got[q] = [i \in 1 .. Len(got[q]) |-> i] /\ Len(got[q]) <= said[q]
  /\ Numbers(q, Queue(asker[q])) \cup ServerNumbers(q) \cup Numbers(q, Inbox)
       = Len(got[q]) + 1 .. said[q]
  /\ Ascending(q, Queue(asker[q])) /\ Ascending(q, Inbox)
  /\ \A x \in Numbers(q, Queue(asker[q])), y \in ServerNumbers(q) \cup Numbers(q, Inbox) : x < y
  /\ \A x \in ServerNumbers(q), y \in Numbers(q, Inbox) : x < y

AskedOf(q) == IF asker[q] = None THEN said[q] = 0 /\ got[q] = << >> ELSE Numbered(q)

\* The requests the theorem is about, while their asker, if any, listens.
Live(q) == q \notin bounced \cup ignored /\ (asker[q] # None => Listening(asker[q]))

AnswersTyped ==
  /\ asker \in [Requests -> Links \cup {None}] /\ got \in [Requests -> Seq(Nat)]
  /\ \A q \in Requests : asker[q] # None => link[asker[q]] # "new"
  /\ \A i \in DOMAIN input : input[i].msg.kind = "response" => input[i].msg.n > 0
  /\ server # None /\ server.then = "register" => server.msg.kind = "request"
  /\ server # None /\ server.then = "forget" => server.msg.kind = "response"

AnswersOK(q) ==
  HeldOnce(q) /\ ComesFromAsker(q) /\ IsRegistered(q) /\ ForgottenLast(q) /\ AskedOf(q)

AnswersInv == AnswersTyped /\ \A q \in Requests : Live(q) => AnswersOK(q)
-----------------------------------------------------------------------------
(* What a sequence of messages says of q when one comes or goes.             *)
NumberOf(m, q) == IF Answers(m, q) THEN {m.n} ELSE {}

LEMMA AppendAnswers ==
  ASSUME NEW s \in Seq(Message), NEW m \in Message, NEW q
  PROVE  /\ Numbers(q, Append(s, m)) = Numbers(q, s) \cup NumberOf(m, q)
         /\ Ascending(q, s) /\ (\A x \in Numbers(q, s), y \in NumberOf(m, q) : x < y)
              => Ascending(q, Append(s, m))
         /\ Has(q, Append(s, m)) <=> Has(q, s) \/ IsRequest(m, q)
         /\ HasOnce(q, s) /\ ~ (Has(q, s) /\ IsRequest(m, q)) => HasOnce(q, Append(s, m))
<1> DEFINE t == Append(s, m)
           n == Len(s)
<1>1. /\ n \in Nat /\ DOMAIN s = 1 .. n /\ DOMAIN t = 1 .. n + 1
      /\ \A i \in 1 .. n : t[i] = s[i]
      /\ t[n + 1] = m
  OBVIOUS
<1> HIDE DEF t, n
<1>2. /\ \A i \in DOMAIN s : i \in DOMAIN t /\ t[i] = s[i] /\ i < n + 1
      /\ n + 1 \in DOMAIN t /\ \A i \in DOMAIN t : i \in DOMAIN s \/ i = n + 1
      /\ \A i, j \in DOMAIN t : i < j => i \in DOMAIN s
  BY <1>1
<1>3. Numbers(q, t) = Numbers(q, s) \cup NumberOf(m, q)
  <2>1. ASSUME NEW x \in Numbers(q, t) PROVE x \in Numbers(q, s) \cup NumberOf(m, q)
    <3>1. PICK i \in DOMAIN t : Answers(t[i], q) /\ x = t[i].n
      BY DEF Numbers
    <3>2. QED BY <1>1, <1>2, <3>1 DEF Numbers, NumberOf
  <2>2. Numbers(q, s) \subseteq Numbers(q, t)
    BY <1>2 DEF Numbers
  <2>3. NumberOf(m, q) \subseteq Numbers(q, t)
    BY <1>1, <1>2 DEF Numbers, NumberOf
  <2>4. QED BY <2>1, <2>2, <2>3
<1>4. ASSUME Ascending(q, s), \A x \in Numbers(q, s), y \in NumberOf(m, q) : x < y
      PROVE  Ascending(q, t)
  <2> SUFFICES ASSUME NEW i \in DOMAIN t, NEW j \in DOMAIN t,
                      i < j, Answers(t[i], q), Answers(t[j], q)
               PROVE  t[i].n < t[j].n
    BY DEF Ascending
  <2>1. i \in DOMAIN s /\ t[i] = s[i]
    BY <1>2
  <2>2. CASE j \in DOMAIN s
    BY <1>2, <1>4, <2>1, <2>2 DEF Ascending
  <2>3. CASE j = n + 1
    BY <1>1, <1>4, <2>1, <2>3 DEF Numbers, NumberOf
  <2>4. QED BY <1>2, <2>2, <2>3
<1>5. Has(q, t) <=> Has(q, s) \/ IsRequest(m, q)
  BY <1>1, <1>2 DEF Has
<1>6. HasOnce(q, s) /\ ~ (Has(q, s) /\ IsRequest(m, q)) => HasOnce(q, t)
  BY <1>1, <1>2 DEF Has, HasOnce
<1>7. QED BY <1>3, <1>4, <1>5, <1>6 DEF t

LEMMA AppendNothing ==
  ASSUME NEW s \in Seq(Message), NEW m \in Message, NEW q, NumberOf(m, q) = {}, ~ IsRequest(m, q)
  PROVE  /\ Numbers(q, Append(s, m)) = Numbers(q, s)
         /\ Ascending(q, s) => Ascending(q, Append(s, m))
         /\ Has(q, Append(s, m)) <=> Has(q, s)
         /\ HasOnce(q, s) => HasOnce(q, Append(s, m))
<1>1. /\ Numbers(q, Append(s, m)) = Numbers(q, s) \cup NumberOf(m, q)
      /\ Ascending(q, s) /\ (\A x \in Numbers(q, s), y \in NumberOf(m, q) : x < y)
           => Ascending(q, Append(s, m))
      /\ Has(q, Append(s, m)) <=> Has(q, s) \/ IsRequest(m, q)
      /\ HasOnce(q, s) /\ ~ (Has(q, s) /\ IsRequest(m, q)) => HasOnce(q, Append(s, m))
  BY AppendAnswers, Zenon
<1>2. QED BY <1>1

LEMMA TailAnswers ==
  ASSUME NEW s \in Seq(Message), s # << >>, NEW q
  PROVE  /\ Head(s) \in Message /\ Tail(s) \in Seq(Message)
         /\ Numbers(q, s) = Numbers(q, Tail(s)) \cup NumberOf(Head(s), q)
         /\ Ascending(q, s) => /\ Ascending(q, Tail(s))
                               /\ \A x \in NumberOf(Head(s), q), y \in Numbers(q, Tail(s)) : x < y
         /\ Has(q, s) <=> Has(q, Tail(s)) \/ IsRequest(Head(s), q)
         /\ HasOnce(q, s) => /\ HasOnce(q, Tail(s))
                             /\ IsRequest(Head(s), q) => ~ Has(q, Tail(s))
<1> DEFINE t == Tail(s)
           n == Len(s)
<1>1. /\ Head(s) \in Message /\ t \in Seq(Message)
      /\ n \in Nat /\ n >= 1 /\ DOMAIN s = 1 .. n /\ Len(t) = n - 1 /\ DOMAIN t = 1 .. n - 1
      /\ \A i \in 1 .. n - 1 : t[i] = s[i + 1]
      /\ Head(s) = s[1]
  BY HeadTailProperties
<1> HIDE DEF t, n
<1>2. /\ \A i \in DOMAIN t : i + 1 \in DOMAIN s /\ s[i + 1] = t[i] /\ 1 < i + 1 /\ i + 1 # 1
      /\ 1 \in DOMAIN s /\ \A i \in DOMAIN s : i = 1 \/ (i - 1 \in DOMAIN t /\ s[i] = t[i - 1])
      /\ \A i, j \in DOMAIN t : (i < j => i + 1 < j + 1) /\ (i + 1 = j + 1 => i = j)
  <2>1. ASSUME NEW i \in DOMAIN t
        PROVE  i + 1 \in DOMAIN s /\ s[i + 1] = t[i] /\ 1 < i + 1 /\ i + 1 # 1
    BY <1>1
  <2>2. ASSUME NEW i \in DOMAIN s, i # 1
        PROVE  i - 1 \in DOMAIN t /\ s[i] = t[i - 1]
    <3>1. i \in 1 .. n /\ n \in Nat /\ i # 1
      BY <1>1, <2>2
    <3>2. i - 1 \in 1 .. n - 1 /\ (i - 1) + 1 = i
      BY <3>1
    <3>3. QED BY <1>1, <3>2
  <2>3. \A i, j \in DOMAIN t : (i < j => i + 1 < j + 1) /\ (i + 1 = j + 1 => i = j)
    BY <1>1
  <2>4. 1 \in DOMAIN s
    BY <1>1
  <2>5. QED BY <2>1, <2>2, <2>3, <2>4
<1>3. Numbers(q, s) = Numbers(q, t) \cup NumberOf(Head(s), q)
  <2>1. ASSUME NEW x \in Numbers(q, s) PROVE x \in Numbers(q, t) \cup NumberOf(Head(s), q)
    <3>1. PICK i \in DOMAIN s : Answers(s[i], q) /\ x = s[i].n
      BY DEF Numbers
    <3>2. QED BY <1>1, <1>2, <3>1 DEF Numbers, NumberOf
  <2>2. Numbers(q, t) \subseteq Numbers(q, s)
    BY <1>2 DEF Numbers
  <2>3. NumberOf(Head(s), q) \subseteq Numbers(q, s)
    BY <1>1, <1>2 DEF Numbers, NumberOf
  <2>4. QED BY <2>1, <2>2, <2>3
<1>4. ASSUME Ascending(q, s)
      PROVE  Ascending(q, t) /\ \A x \in NumberOf(Head(s), q), y \in Numbers(q, t) : x < y
  <2>1. Ascending(q, t)
    <3> SUFFICES ASSUME NEW i \in DOMAIN t, NEW j \in DOMAIN t,
                        i < j, Answers(t[i], q), Answers(t[j], q)
                 PROVE  t[i].n < t[j].n
      BY DEF Ascending
    <3>1. i + 1 \in DOMAIN s /\ j + 1 \in DOMAIN s /\ i + 1 < j + 1
          /\ s[i + 1] = t[i] /\ s[j + 1] = t[j]
      BY <1>2
    <3>2. QED BY <1>4, <3>1 DEF Ascending
  <2>2. ASSUME NEW x \in NumberOf(Head(s), q), NEW y \in Numbers(q, t) PROVE x < y
    <3>1. PICK j \in DOMAIN t : Answers(t[j], q) /\ y = t[j].n
      BY DEF Numbers
    <3>2. j + 1 \in DOMAIN s /\ s[j + 1] = t[j] /\ 1 < j + 1 /\ 1 \in DOMAIN s
      BY <1>2
    <3>3. x = s[1].n /\ Answers(s[1], q)
      BY <1>1 DEF NumberOf
    <3>4. QED BY <1>4, <3>1, <3>2, <3>3 DEF Ascending
  <2>3. QED BY <2>1, <2>2
<1>5. Has(q, s) <=> Has(q, t) \/ IsRequest(Head(s), q)
  BY <1>1, <1>2 DEF Has
<1>6. ASSUME HasOnce(q, s)
      PROVE  HasOnce(q, t) /\ (IsRequest(Head(s), q) => ~ Has(q, t))
  <2>1. HasOnce(q, t)
    <3> SUFFICES ASSUME NEW i \in DOMAIN t, NEW j \in DOMAIN t,
                        IsRequest(t[i], q), IsRequest(t[j], q)
                 PROVE  i = j
      BY DEF HasOnce
    <3>1. /\ i + 1 \in DOMAIN s /\ j + 1 \in DOMAIN s /\ s[i + 1] = t[i] /\ s[j + 1] = t[j]
          /\ i + 1 = j + 1 => i = j
      BY <1>2
    <3>2. QED BY <1>6, <3>1 DEF HasOnce
  <2>2. IsRequest(Head(s), q) => ~ Has(q, t)
    BY <1>1, <1>2, <1>6 DEF Has, HasOnce
  <2>3. QED BY <2>1, <2>2
<1>7. QED BY <1>1, <1>3, <1>4, <1>5, <1>6 DEF t

\* What is appended to or taken from input is so of the messages in it.
LEMMA InboxOK ==
  ASSUME RouterInv
  PROVE  /\ Inbox \in Seq(Message) /\ DOMAIN Inbox = DOMAIN input
         /\ \A i \in DOMAIN input : Inbox[i] = input[i].msg
         /\ \A m \in Message, l \in Links :
              input' = Append(input, [msg |-> m, from |-> l]) => Inbox' = Append(Inbox, m)
         /\ input # << >> /\ input' = Tail(input) =>
              /\ Inbox # << >> /\ Head(Inbox) = Head(input).msg /\ Inbox' = Tail(Inbox)
<1>1. input \in Seq([msg : Message, from : Links])
  BY DEF RouterInv, SwitchTyped
<1>2. /\ Inbox \in Seq(Message) /\ DOMAIN Inbox = DOMAIN input /\ Len(Inbox) = Len(input)
      /\ \A i \in DOMAIN input : Inbox[i] = input[i].msg
  <2>1. Len(input) \in Nat /\ DOMAIN input = 1 .. Len(input)
        /\ \A i \in 1 .. Len(input) : input[i].msg \in Message
    <3>1. Len(input) \in Nat /\ DOMAIN input = 1 .. Len(input)
          /\ \A i \in 1 .. Len(input) : input[i] \in [msg : Message, from : Links]
      BY <1>1, ElementOfSeq, LenProperties, Zenon
    <3>2. QED BY <3>1
  <2>2. Inbox \in [1 .. Len(input) -> Message]
    BY <2>1 DEF Inbox
  <2>3. Inbox \in Seq(Message) /\ Len(Inbox) = Len(input)
    BY <2>1, <2>2
  <2>4. QED BY <2>1, <2>3 DEF Inbox
<1>3. ASSUME NEW m \in Message, NEW l \in Links,
             input' = Append(input, [msg |-> m, from |-> l])
      PROVE  Inbox' = Append(Inbox, m)
  <2>1. /\ Len(input') = Len(input) + 1 /\ Len(input) \in Nat
        /\ \A i \in 1 .. Len(input) : input'[i] = input[i]
        /\ input'[Len(input) + 1].msg = m
    BY <1>1, <1>3
  <2>2. /\ Inbox' = [i \in 1 .. Len(input) + 1 |-> input'[i].msg]
        /\ Append(Inbox, m) \in Seq(Message) /\ Inbox' \in Seq(Message)
    BY <1>1, <1>2, <1>3, <2>1 DEF Inbox
  <2>3. /\ DOMAIN Append(Inbox, m) = 1 .. Len(input) + 1
        /\ \A i \in 1 .. Len(input) : Append(Inbox, m)[i] = Inbox[i]
        /\ Append(Inbox, m)[Len(input) + 1] = m
    BY <1>2
  <2>4. \A i \in 1 .. Len(input) + 1 : Inbox'[i] = Append(Inbox, m)[i]
    BY <1>1, <1>2, <2>1, <2>2, <2>3
  <2>5. Len(Inbox') = Len(input) + 1 /\ Len(Append(Inbox, m)) = Len(input) + 1
    BY <1>2, <2>1, <2>2, <2>3
  <2>6. QED BY <2>2, <2>4, <2>5, SeqEqual, Zenon
<1>4. ASSUME input # << >>, input' = Tail(input)
      PROVE  Inbox # << >> /\ Head(Inbox) = Head(input).msg /\ Inbox' = Tail(Inbox)
  <2>1. Len(input) \in Nat /\ Len(input) >= 1 /\ Head(input) = input[1]
        /\ Len(input') = Len(input) - 1
        /\ \A i \in 1 .. Len(input) - 1 : input'[i] = input[i + 1]
    BY <1>1, <1>4
  <2>2. Inbox # << >> /\ Head(Inbox) = Head(input).msg
    BY <1>2, <2>1
  <2>3. /\ Tail(Inbox) = [i \in 1 .. Len(input) - 1 |-> Inbox[i + 1]]
        /\ Inbox' = [i \in 1 .. Len(input) - 1 |-> input'[i].msg]
    BY <1>2, <2>1, <2>2 DEF Inbox
  <2>4. \A i \in 1 .. Len(input) - 1 : Inbox[i + 1] = input'[i].msg
    BY <1>2, <2>1
  <2>5. QED BY <2>2, <2>3, <2>4
<1>5. QED BY <1>2, <1>3, <1>4

-----------------------------------------------------------------------------
(* Steps that are not about q, or take from where it is only.                *)

SameFor(q) ==
  /\ rpcMap'[q] = rpcMap[q] /\ asker'[q] = asker[q] /\ said'[q] = said[q] /\ got'[q] = got[q]
  /\ bounced \subseteq bounced' /\ ignored \subseteq ignored'

\* Nothing that matters to q is new in what the links are given.
LEMMA QuietKeeps ==
  ASSUME RouterInv, AnswersInv, NEW q \in Requests,
         UNCHANGED <<input, server>>, SameFor(q),
         \A l \in Links : /\ q \in heard'[l] => q \in heard[l]
                          /\ link[l] # "new" => (Listening(l)' => Listening(l))
                          /\ Has(q, Queue(l)') => Has(q, Queue(l))
                          /\ HasOnce(q, Queue(l)) => HasOnce(q, Queue(l)')
                          /\ Numbers(q, Queue(l)') \subseteq Numbers(q, Queue(l))
                          /\ Listening(l) => /\ Numbers(q, Queue(l)') = Numbers(q, Queue(l))
                                             /\ Ascending(q, Queue(l)) => Ascending(q, Queue(l)')
  PROVE  Live(q)' => AnswersOK(q)'
<1> SUFFICES ASSUME Live(q)' PROVE AnswersOK(q)'
  OBVIOUS
<1> USE DEF SameFor
<1>1. Inbox' = Inbox
  BY DEF Inbox
<1>2. asker[q] \in Links \cup {None} /\ (asker[q] # None => link[asker[q]] # "new")
  BY DEF AnswersInv, AnswersTyped
<1>3. AnswersOK(q) /\ (asker[q] # None => Listening(asker[q]))
  BY <1>2 DEF AnswersInv, Live
<1>4. HeldOnce(q)'
  BY <1>1, <1>3 DEF AnswersOK, HeldOnce, Serves
<1>5. Over(q) => Over(q)'
  BY <1>1 DEF Over, Serves
<1>6. ComesFromAsker(q)'
  BY <1>3 DEF AnswersOK, ComesFromAsker, ServerNumbers
<1>7. IsRegistered(q)'
  BY <1>1, <1>3 DEF AnswersOK, IsRegistered, Registered, Registering
<1>8. ForgottenLast(q)'
  BY <1>1, <1>3, <1>5 DEF AnswersOK, ForgottenLast
<1>9. AskedOf(q)'
  <2>1. CASE asker[q] = None
    BY <1>3, <2>1 DEF AnswersOK, AskedOf
  <2>2. CASE asker[q] # None
    BY <1>1, <1>2, <1>3, <2>2 DEF AnswersOK, AskedOf, Numbered, ServerNumbers
  <2>3. QED BY <2>1, <2>2
<1>10. QED BY <1>4, <1>6, <1>7, <1>8, <1>9 DEF AnswersOK
LEMMA LinksKeepAnswers ==
  ASSUME RouterInv, AnswersInv,
         \/ Rest \/ \E m \in Announcements : HandleAnnouncement(m)
         \/ \E l \in Leaves :
              \/ RegisterUntrustedLink(l) \/ trustLink(l) \/ bindRouteLocally(l)
              \/ announceUpstream(l) \/ UnregisterLink(l) \/ DeleteLink(l)
              \/ \E r \in Routes : unbindRouteLocally(l, r) \/ unannounceUpstream(l, r)
  PROVE  AnswersInv'
<1>1. /\ UNCHANGED <<input, server, rpcMap, asker, said, got, bounced, ignored>>
      /\ UNCHANGED <<toRemote, backlog>>
  BY DEF Rest, HandleAnnouncement, RegisterUntrustedLink, trustLink, bindRouteLocally,
         announceUpstream, UnregisterLink, DeleteLink, unbindRouteLocally, unannounceUpstream,
         sendVars, callVars
<1>2. \A l \in Links : heard'[l] \subseteq heard[l]
  <2>1. CASE UNCHANGED heard
    BY <2>1
  <2>2. ASSUME NEW l \in Leaves, UnregisterLink(l)
        PROVE  \A k \in Links : heard'[k] \subseteq heard[k]
    BY <2>2 DEF UnregisterLink, RouterInv, CallsTyped
  <2>3. QED
    BY <2>1, <2>2
    DEF Rest, HandleAnnouncement, RegisterUntrustedLink, trustLink, bindRouteLocally,
        announceUpstream, DeleteLink, unbindRouteLocally, unannounceUpstream, callVars
<1>3. \A l \in Links : link[l] # "new" => link'[l] # "new" /\ (Listening(l)' => Listening(l))
  <2> SUFFICES ASSUME NEW k \in Links, link[k] # "new"
               PROVE  link'[k] # "new" /\ (Listening(k)' => Listening(k))
    OBVIOUS
  <2>1. CASE UNCHANGED <<link, hung>>
    BY <2>1 DEF Listening, Known
  <2>2. ASSUME NEW l \in Leaves,
               RegisterUntrustedLink(l) \/ trustLink(l) \/ UnregisterLink(l) \/ DeleteLink(l)
        PROVE  link'[k] # "new" /\ (Listening(k)' => Listening(k))
    BY <2>2
    DEF RegisterUntrustedLink, trustLink, UnregisterLink, DeleteLink, Listening, Known,
        RouterInv, LinksTyped
  <2>3. QED
    BY <2>1, <2>2
    DEF Rest, HandleAnnouncement, bindRouteLocally, announceUpstream, unbindRouteLocally,
        unannounceUpstream, linkVars
<1>4. AnswersTyped'
  BY <1>1, <1>3 DEF AnswersInv, AnswersTyped
<1>5. ASSUME NEW q \in Requests PROVE Live(q)' => AnswersOK(q)'
  <2>1. \A l \in Links : Queue(l)' = Queue(l)
    BY <1>1 DEF Queue
  <2>2. QED BY <1>1, <1>2, <1>3, <2>1, QuietKeeps DEF SameFor
<1>6. QED BY <1>4, <1>5 DEF AnswersInv
-----------------------------------------------------------------------------
(* Steps that send to a link something that does not matter to q.            *)

\* A message is put at the end of the queue of one link.
LEMMA SentTo ==
  ASSUME RouterInv, NEW l \in Links, NEW m \in Message, link[l] # "new", SendTo(l, m)
  PROVE  /\ \A k \in Links : Queue(k) \in Seq(Message)
         /\ \A k \in Links : Queue(k)' = IF k = l THEN Append(Queue(l), m) ELSE Queue(k)
<1>1. Queues' = [Queues EXCEPT ![l] = Append(@, m)]
  BY SendOK
<1>2. \A k \in Links : Queues[k] = Queue(k) /\ Queues'[k] = Queue(k)'
  BY DEF Queues
<1>3. Queues \in [Links -> Seq(Message)]
  BY QueuesTyped
<1>4. QED BY <1>1, <1>2, <1>3

LEMMA SendingNothing ==
  ASSUME RouterInv, NEW l \in Links, NEW m \in Message, link[l] # "new", SendTo(l, m),
         NEW q \in Requests, NumberOf(m, q) = {}, ~ IsRequest(m, q)
  PROVE  \A k \in Links : /\ Has(q, Queue(k)') <=> Has(q, Queue(k))
                          /\ HasOnce(q, Queue(k)) => HasOnce(q, Queue(k)')
                          /\ Numbers(q, Queue(k)') = Numbers(q, Queue(k))
                          /\ Ascending(q, Queue(k)) => Ascending(q, Queue(k)')
<1>1. Queue(l) \in Seq(Message) /\ Queue(l)' = Append(Queue(l), m)
      /\ \A k \in Links : k # l => Queue(k)' = Queue(k)
  BY SentTo
<1>2. /\ Numbers(q, Append(Queue(l), m)) = Numbers(q, Queue(l))
      /\ Ascending(q, Queue(l)) => Ascending(q, Append(Queue(l), m))
      /\ Has(q, Append(Queue(l), m)) <=> Has(q, Queue(l))
      /\ HasOnce(q, Queue(l)) => HasOnce(q, Append(Queue(l), m))
  BY <1>1, AppendNothing, Zenon
<1>3. QED BY <1>1, <1>2

LEMMA Front ==
  ASSUME NEW s \in Seq(Message), NEW n \in 0 .. Len(s)
  PROVE  /\ DOMAIN SubSeq(s, 1, n) \subseteq DOMAIN s
         /\ \A i \in DOMAIN SubSeq(s, 1, n) : SubSeq(s, 1, n)[i] = s[i]
<1>1. Len(s) \in Nat /\ DOMAIN s = 1 .. Len(s)
  OBVIOUS
<1>2. DOMAIN SubSeq(s, 1, n) = 1 .. n /\ \A i \in 1 .. n : SubSeq(s, 1, n)[i] = s[i]
  BY <1>1
<1>3. QED BY <1>1, <1>2

LEMMA BacklogKeepsAnswers ==
  ASSUME RouterInv, AnswersInv, runUpstreamBufferLoop \/ Round
  PROVE  AnswersInv'
<1>1. /\ UNCHANGED <<input, server, rpcMap, asker, said, got, bounced, ignored>>
      /\ UNCHANGED <<heard, link, hung>>
  BY DEF runUpstreamBufferLoop, Round, linkVars, callVars
<1>2. AnswersTyped'
  BY <1>1 DEF AnswersInv, AnswersTyped
<1>3. \A l \in Links : Listening(l)' <=> Listening(l)
  BY <1>1 DEF Listening, Known
<1>4. ASSUME NEW q \in Requests PROVE Live(q)' => AnswersOK(q)'
  <2>1. CASE runUpstreamBufferLoop
    <3> DEFINE m == Head(upBuf)
    <3>1. m \in Announcements /\ m \in Message /\ Up \in Links /\ link[Up] # "new" /\ SendTo(Up, m)
      BY <2>1, HeadTailProperties
      DEF runUpstreamBufferLoop, RouterInv, SwitchTyped, SendsToLinks, Announcements, Message,
          Links
    <3>2. NumberOf(m, q) = {} /\ ~ IsRequest(m, q)
      BY <3>1 DEF Announcements, NumberOf, Answers, IsRequest
    <3> HIDE DEF m
    <3>3. QED BY <1>1, <1>3, <3>1, <3>2, SendingNothing, QuietKeeps DEF SameFor
  <2>2. CASE Round
    <3>1. ASSUME NEW l \in Links
          PROVE  /\ Has(q, Queue(l)') => Has(q, Queue(l))
                 /\ HasOnce(q, Queue(l)) => HasOnce(q, Queue(l)')
                 /\ Numbers(q, Queue(l)') \subseteq Numbers(q, Queue(l))
                 /\ Listening(l) => Queue(l)' = Queue(l)
      <4>1. \/ Queue(l)' = Queue(l)
            \/ link[l] = "gone" /\ Queue(l)' = SubSeq(Queue(l), 1, Len(toRemote[l]))
        BY <2>2, RoundOK
      <4>2. CASE Queue(l)' = Queue(l)
        BY <4>2
      <4>3. CASE link[l] = "gone" /\ Queue(l)' = SubSeq(Queue(l), 1, Len(toRemote[l]))
        <5>1. ~ Listening(l)
          BY <4>3 DEF Listening, Known
        <5>2. /\ DOMAIN Queue(l)' \subseteq DOMAIN Queue(l)
              /\ \A i \in DOMAIN Queue(l)' : Queue(l)'[i] = Queue(l)[i]
          <6>1. toRemote[l] \in Seq(Message) /\ backlog[l] \in Seq(Message)
            BY DEF RouterInv, SwitchTyped
          <6>2. /\ Queue(l) \in Seq(Message)
                /\ Len(Queue(l)) = Len(toRemote[l]) + Len(backlog[l])
                /\ Len(toRemote[l]) \in Nat /\ Len(backlog[l]) \in Nat
            BY <6>1, ConcatProperties DEF Queue
          <6>3. Len(toRemote[l]) \in 0 .. Len(Queue(l))
            <7>1. \A x, y \in Nat : x \in 0 .. x + y
              OBVIOUS
            <7>2. QED BY <6>2, <7>1, Zenon
          <6>4. PICK s \in Seq(Message) : s = Queue(l)
            BY <6>2
          <6>5. PICK n \in 0 .. Len(s) : n = Len(toRemote[l])
            BY <6>3, <6>4
          <6>6. Queue(l)' = SubSeq(s, 1, n)
            BY <4>3, <6>4, <6>5
          <6>7. QED BY <6>4, <6>6, Front
        <5>3. QED BY <5>1, <5>2 DEF Has, HasOnce, Numbers
      <4>4. QED BY <4>1, <4>2, <4>3
    <3>2. QED BY <1>1, <1>3, <3>1, QuietKeeps DEF SameFor
  <2>3. QED BY <2>1, <2>2
<1>5. QED BY <1>2, <1>4 DEF AnswersInv
-----------------------------------------------------------------------------
(* What the links say.                                                       *)
LEMMA Says ==
  ASSUME RouterInv, NEW l \in Links, NEW m \in Message, PassOn(l, m)
  PROVE  /\ Inbox \in Seq(Message) /\ Inbox' = Append(Inbox, m)
         /\ \A i \in DOMAIN input' : \/ i \in DOMAIN input /\ input'[i] = input[i]
                                     \/ input'[i].msg = m /\ input'[i].from = l
<1>1. input' = Append(input, [msg |-> m, from |-> l])
  BY DEF PassOn
<1>2. Inbox \in Seq(Message) /\ Inbox' = Append(Inbox, m)
  BY <1>1, InboxOK
<1>3. /\ input \in Seq([msg : Message, from : Links])
      /\ [msg |-> m, from |-> l] \in [msg : Message, from : Links]
  BY DEF RouterInv, SwitchTyped
<1> DEFINE e == [msg |-> m, from |-> l]
           S == [msg : Message, from : Links]
<1>4. e.msg = m /\ e.from = l
  OBVIOUS
<1> HIDE DEF e, S
<1>5. /\ Len(input) \in Nat /\ DOMAIN input = 1 .. Len(input)
      /\ DOMAIN Append(input, e) = 1 .. Len(input) + 1
      /\ \A i \in 1 .. Len(input) : Append(input, e)[i] = input[i]
      /\ Append(input, e)[Len(input) + 1] = e
  BY <1>3 DEF e, S
<1>6. \A i \in DOMAIN input' : \/ i \in DOMAIN input /\ input'[i] = input[i]
                               \/ input'[i].msg = m /\ input'[i].from = l
  <2> SUFFICES ASSUME NEW i \in DOMAIN input'
               PROVE  \/ i \in DOMAIN input /\ input'[i] = input[i]
                      \/ input'[i].msg = m /\ input'[i].from = l
    OBVIOUS
  <2>1. input' = Append(input, e)
    BY <1>1 DEF e
  <2>2. i \in 1 .. Len(input) \/ i = Len(input) + 1
    BY <1>5, <2>1
  <2>3. QED BY <1>4, <1>5, <2>1, <2>2
<1>7. QED BY <1>2, <1>6

\* What is said does not matter to q.
LEMMA SayingNothing ==
  ASSUME RouterInv, AnswersInv, NEW q \in Requests, NEW l \in Links, NEW m \in Message,
         PassOn(l, m), NumberOf(m, q) = {}, ~ IsRequest(m, q),
         UNCHANGED <<server, toRemote, backlog, link, hung>>, SameFor(q),
         \A k \in Links : q \in heard'[k] => q \in heard[k]
  PROVE  Live(q)' => AnswersOK(q)'
<1> SUFFICES ASSUME Live(q)' PROVE AnswersOK(q)'
  OBVIOUS
<1> USE DEF SameFor
<1>1. /\ Numbers(q, Inbox') = Numbers(q, Inbox)
      /\ Ascending(q, Inbox) => Ascending(q, Inbox')
      /\ Has(q, Inbox') <=> Has(q, Inbox)
      /\ HasOnce(q, Inbox) => HasOnce(q, Inbox')
  <2>1. PICK s \in Seq(Message) : s = Inbox
    BY Says
  <2>2. Inbox' = Append(s, m)
    BY <2>1, Says
  <2>3. /\ Numbers(q, Append(s, m)) = Numbers(q, s)
        /\ Ascending(q, s) => Ascending(q, Append(s, m))
        /\ Has(q, Append(s, m)) <=> Has(q, s)
        /\ HasOnce(q, s) => HasOnce(q, Append(s, m))
    BY AppendNothing, Zenon
  <2>4. QED BY <2>1, <2>2, <2>3
<1>2. \A k \in Links : Queue(k)' = Queue(k)
  BY DEF Queue
<1>3. asker[q] \in Links \cup {None} /\ AnswersOK(q)
  BY DEF AnswersInv, AnswersTyped, Live, Listening, Known
<1>4. \A i \in DOMAIN input' : IsRequest(input'[i].msg, q) \/ Answers(input'[i].msg, q)
        => i \in DOMAIN input /\ input'[i] = input[i]
  <2>1. ~ Answers(m, q) /\ ~ IsRequest(m, q)
    BY DEF NumberOf
  <2>2. QED BY <2>1, Says
<1>5. HeldOnce(q)'
  BY <1>1, <1>2, <1>3 DEF AnswersOK, HeldOnce, Serves
<1>6. Over(q) => Over(q)'
  BY <1>1, <1>2 DEF Over, Serves
<1>7. ComesFromAsker(q)'
  BY <1>2, <1>3, <1>4 DEF AnswersOK, ComesFromAsker, ServerNumbers
<1>8. IsRegistered(q)'
  BY <1>1, <1>2, <1>3 DEF AnswersOK, IsRegistered, Registered, Registering
<1>9. ForgottenLast(q)'
  BY <1>1, <1>3, <1>4, <1>6 DEF AnswersOK, ForgottenLast
<1>10. AskedOf(q)'
  <2>1. CASE asker[q] = None
    BY <1>3, <2>1 DEF AnswersOK, AskedOf
  <2>2. CASE asker[q] # None
    BY <1>1, <1>2, <1>3, <2>2 DEF AnswersOK, AskedOf, Numbered, ServerNumbers
  <2>3. QED BY <2>1, <2>2
<1>11. QED BY <1>5, <1>7, <1>8, <1>9, <1>10 DEF AnswersOK

\* The types of what is said.
LEMMA SayingTyped ==
  ASSUME RouterInv, AnswersInv, NEW l \in Links, NEW m \in Message, PassOn(l, m),
         m.kind = "response" => m.n > 0, UNCHANGED server
  PROVE  /\ \A i \in DOMAIN input' : input'[i].msg.kind = "response" => input'[i].msg.n > 0
         /\ server' # None /\ server'.then = "register" => server'.msg.kind = "request"
         /\ server' # None /\ server'.then = "forget" => server'.msg.kind = "response"
  BY Says DEF AnswersInv, AnswersTyped

LEMMA CancelKeepsAnswers ==
  ASSUME RouterInv, AnswersInv, NEW l \in Links, NEW q \in Requests, Cancel(l, q)
  PROVE  AnswersInv'
<1> DEFINE m == [kind |-> "cancel", id |-> q]
<1>1. m \in Message /\ m.kind = "cancel"
  BY DEF Message
<1>2. \A r \in Requests : NumberOf(m, r) = {} /\ ~ IsRequest(m, r)
  BY <1>1 DEF NumberOf, Answers, IsRequest
<1>3. /\ PassOn(l, m)
      /\ UNCHANGED <<server, toRemote, backlog, link, hung, rpcMap, asker, said, got, bounced,
                     ignored, heard>>
  BY DEF Cancel, linkVars, sendVars
<1> HIDE DEF m
<1>4. \A r \in Requests : Live(r)' => AnswersOK(r)'
  BY <1>1, <1>2, <1>3, SayingNothing DEF SameFor
<1>5. AnswersTyped'
  BY <1>1, <1>3, SayingTyped DEF AnswersInv, AnswersTyped
<1>6. QED BY <1>4, <1>5 DEF AnswersInv
\* Of a request nobody has made there is nothing.
LEMMA Unasked ==
  ASSUME RouterInv, AnswersInv, NEW q \in Requests, asker[q] = None, q \notin bounced \cup ignored
  PROVE  /\ AnswersOK(q) /\ said[q] = 0 /\ got[q] = << >>
         /\ Over(q) /\ ~ Registered(q)
         /\ \A l \in Links : Numbers(q, Queue(l)) = {}
         /\ ServerNumbers(q) = {} /\ Numbers(q, Inbox) = {}
         /\ ~ (server # None /\ IsRequest(server.msg, q))
         /\ ~ (server # None /\ server.then = "forget" /\ server.msg.id = q)
<1>1. AnswersOK(q) /\ said[q] = 0 /\ got[q] = << >>
  BY DEF AnswersInv, Live, AnswersOK, AskedOf
<1>2. None \notin Links
  BY RouterAssumption DEF Links
<1>3. ~ Has(q, Inbox)
  <2>1. \A i \in DOMAIN input : input[i].from \in Links
    <3>1. \A i \in 1 .. Len(input) : input[i] \in [msg : Message, from : Links]
      BY ElementOfSeq, Zenon DEF RouterInv, SwitchTyped
    <3>2. DOMAIN input = 1 .. Len(input)
      BY DEF RouterInv, SwitchTyped
    <3>3. QED BY <3>1, <3>2
  <2>2. \A i \in DOMAIN input : ~ IsRequest(input[i].msg, q)
    BY <1>1, <1>2, <2>1 DEF AnswersOK, ComesFromAsker
  <2>3. QED BY <2>2, InboxOK DEF Has
<1>4. ~ (server # None /\ IsRequest(server.msg, q))
  BY <1>1, <1>2 DEF AnswersOK, ComesFromAsker, RouterInv, SendsToLinks
<1>5. rpcMap[q] = None
  BY <1>1, <1>2 DEF AnswersOK, ComesFromAsker, RouterInv, CallsTyped, RpcRoutingInfo
<1>6. ~ Registered(q) /\ ~ Serves(q)
  BY <1>4, <1>5 DEF Registered, Registering, Serves
<1>7. Over(q) /\ Numbers(q, Inbox) = {}
  BY <1>1, <1>3, <1>6 DEF AnswersOK, IsRegistered, Over
<1>8. \A l \in Links : Numbers(q, Queue(l)) = {}
  BY <1>1, <1>2 DEF AnswersOK, ComesFromAsker
<1>9. ServerNumbers(q) = {}
  BY <1>1 DEF AnswersOK, ComesFromAsker, ServerNumbers
<1>10. ~ (server # None /\ server.then = "forget" /\ server.msg.id = q)
  BY <1>1 DEF AnswersOK, ForgottenLast
<1>11. QED BY <1>1, <1>4, <1>6, <1>7, <1>8, <1>9, <1>10

\* It is made: it is in the inbox, or refused.
LEMMA FirstAsked ==
  ASSUME RouterInv, AnswersInv, NEW q \in Requests, asker[q] = None, asker'[q] \in Links,
         bounced \subseteq bounced', ignored \subseteq ignored',
         UNCHANGED <<server, rpcMap, said, got, heard>>,
         HasOnce(q, Inbox'), Numbers(q, Inbox') = {},
         \A l \in Links : /\ ~ Has(q, Queue(l)') /\ HasOnce(q, Queue(l)')
                          /\ Numbers(q, Queue(l)') = {},
         \A i \in DOMAIN input' : /\ IsRequest(input'[i].msg, q) => input'[i].from = asker'[q]
                                  /\ ~ Answers(input'[i].msg, q)
  PROVE  Live(q)' => AnswersOK(q)'
<1> SUFFICES ASSUME Live(q)' PROVE AnswersOK(q)'
  OBVIOUS
<1>1. q \notin bounced \cup ignored
  BY DEF Live
<1>2. /\ AnswersOK(q) /\ said[q] = 0 /\ got[q] = << >>
      /\ Over(q) /\ ~ Registered(q) /\ ServerNumbers(q) = {}
      /\ ~ (server # None /\ IsRequest(server.msg, q))
      /\ ~ (server # None /\ server.then = "forget" /\ server.msg.id = q)
  BY <1>1, Unasked
<1>3. \A l \in Links : q \notin heard'[l]
  BY <1>2 DEF Over
<1>4. HeldOnce(q)'
  BY <1>2, <1>3 DEF HeldOnce, Serves
<1>5. ComesFromAsker(q)'
  BY <1>2 DEF ComesFromAsker, ServerNumbers, Registered
<1>6. IsRegistered(q)'
  BY <1>3 DEF IsRegistered
<1>7. ForgottenLast(q)'
  BY <1>2 DEF ForgottenLast
<1>8. AskedOf(q)'
  <2>1. ServerNumbers(q)' = {} /\ said'[q] = 0 /\ got'[q] = << >> /\ Len(<< >>) = 0
    BY <1>2 DEF ServerNumbers
  <2>2. << >> = [i \in 1 .. 0 |-> i] /\ {} = 0 + 1 .. 0
    OBVIOUS
  <2>3. Ascending(q, Queue(asker[q]))' /\ Ascending(q, Inbox)'
    BY DEF Ascending, Numbers
  <2>4. Numbered(q)'
    BY <2>1, <2>2, <2>3 DEF Numbered
  <2>5. asker'[q] # None
    BY RouterAssumption DEF Links
  <2>6. QED BY <2>4, <2>5 DEF AskedOf
<1>9. QED BY <1>4, <1>5, <1>6, <1>7, <1>8 DEF AnswersOK

LEMMA AskKeepsAnswers ==
  ASSUME RouterInv, AnswersInv, NEW l \in Links, NEW q \in Requests, NEW d \in Dests, Ask(l, q, d)
  PROVE  AnswersInv'
<1> DEFINE m == [kind |-> "request", id |-> q, route |-> d, source |-> source[l]]
<1>1. m \in Message /\ m.kind = "request" /\ m.id = q
  BY DEF Message, RouterInv, LinksTyped
<1>2. /\ PassOn(l, m) /\ asker[q] = None /\ asker' = [asker EXCEPT ![q] = l]
      /\ link[l] # "new"
      /\ UNCHANGED <<server, toRemote, backlog, link, hung, rpcMap, said, got, bounced,
                     ignored, heard>>
  BY DEF Ask, linkVars, sendVars
<1>3. asker \in [Requests -> Links \cup {None}]
  BY DEF AnswersInv, AnswersTyped
<1> HIDE DEF m
<1>4. ASSUME NEW r \in Requests, r # q PROVE Live(r)' => AnswersOK(r)'
  <2>1. NumberOf(m, r) = {} /\ ~ IsRequest(m, r)
    BY <1>1, <1>4 DEF NumberOf, Answers, IsRequest
  <2>2. SameFor(r)
    BY <1>2, <1>3, <1>4 DEF SameFor
  <2>3. QED BY <1>1, <1>2, <2>1, <2>2, SayingNothing
<1>5. Live(q)' => AnswersOK(q)'
  <2> SUFFICES ASSUME q \notin bounced \cup ignored PROVE Live(q)' => AnswersOK(q)'
    BY <1>2 DEF Live
  <2>1. /\ AnswersOK(q) /\ Over(q)
        /\ \A k \in Links : Numbers(q, Queue(k)) = {}
        /\ Numbers(q, Inbox) = {}
    BY <1>2, Unasked
  <2>2. \A k \in Links : Queue(k)' = Queue(k)
    BY <1>2 DEF Queue
  <2>3. NumberOf(m, q) = {}
    BY <1>1 DEF NumberOf, Answers
  <2>4. Inbox \in Seq(Message) /\ Inbox' = Append(Inbox, m)
    BY <1>1, <1>2, Says
  <2>5. Numbers(q, Inbox') = {} /\ HasOnce(q, Inbox')
    <3>1. PICK s \in Seq(Message) : s = Inbox
      BY <2>4
    <3>2. /\ Numbers(q, Append(s, m)) = Numbers(q, s) \cup NumberOf(m, q)
          /\ HasOnce(q, s) /\ ~ Has(q, s) => HasOnce(q, Append(s, m))
      BY <1>1, AppendAnswers
    <3>3. QED BY <2>1, <2>3, <2>4, <3>1, <3>2 DEF Over, AnswersOK, HeldOnce
  <2>6. \A i \in DOMAIN input : ~ IsRequest(input[i].msg, q) /\ ~ Answers(input[i].msg, q)
    BY <2>1, InboxOK DEF Over, Has, Numbers
  <2>7. \A i \in DOMAIN input' : /\ IsRequest(input'[i].msg, q) => input'[i].from = asker'[q]
                                 /\ ~ Answers(input'[i].msg, q)
    BY <1>1, <1>2, <1>3, <2>6, Says DEF Answers
  <2>8. \A k \in Links : /\ ~ Has(q, Queue(k)') /\ HasOnce(q, Queue(k)')
                         /\ Numbers(q, Queue(k)') = {}
    BY <2>1, <2>2 DEF Over, AnswersOK, HeldOnce
  <2>9. asker'[q] \in Links
    BY <1>2, <1>3
  <2>10. QED BY <1>2, <2>5, <2>7, <2>8, <2>9, FirstAsked
<1>6. AnswersTyped'
  <2>1. /\ asker' \in [Requests -> Links \cup {None}]
        /\ \A r \in Requests : asker'[r] # None => link'[asker'[r]] # "new"
    BY <1>2, <1>3 DEF AnswersInv, AnswersTyped
  <2>2. QED BY <1>1, <1>2, <2>1, SayingTyped DEF AnswersInv, AnswersTyped
<1>7. QED BY <1>4, <1>5, <1>6 DEF AnswersInv

LEMMA RefuseKeepsAnswers ==
  ASSUME RouterInv, AnswersInv, NEW l \in Links, NEW q \in Requests, Refuse(l, q)
  PROVE  AnswersInv'
<1> DEFINE m == NoRoute(q)
<1>1. m \in Message /\ m.kind = "response" /\ m.id = q /\ m.n = 0
  BY RouterAssumption DEF Message, NoRoute
<1>2. /\ SendTo(l, m) /\ asker[q] = None /\ asker' = [asker EXCEPT ![q] = l]
      /\ link[l] # "new"
      /\ UNCHANGED <<server, input, link, hung, rpcMap, said, got, bounced, ignored, heard>>
  BY RouterAssumption DEF Refuse, linkVars
<1>3. asker \in [Requests -> Links \cup {None}]
  BY DEF AnswersInv, AnswersTyped
<1> HIDE DEF m
<1>4. \A r \in Requests : NumberOf(m, r) = {} /\ ~ IsRequest(m, r)
  BY <1>1 DEF NumberOf, Answers, IsRequest
<1>5. \A r \in Requests : \A k \in Links :
        /\ Has(r, Queue(k)') <=> Has(r, Queue(k))
        /\ HasOnce(r, Queue(k)) => HasOnce(r, Queue(k)')
        /\ Numbers(r, Queue(k)') = Numbers(r, Queue(k))
        /\ Ascending(r, Queue(k)) => Ascending(r, Queue(k)')
  BY <1>1, <1>2, <1>4, SendingNothing
<1>6. ASSUME NEW r \in Requests, r # q PROVE Live(r)' => AnswersOK(r)'
  <2>1. SameFor(r)
    BY <1>2, <1>3, <1>6 DEF SameFor
  <2>2. \A k \in Links : Listening(k)' <=> Listening(k)
    BY <1>2 DEF Listening, Known
  <2>3. QED BY <1>2, <1>5, <2>1, <2>2, QuietKeeps
<1>7. Live(q)' => AnswersOK(q)'
  <2> SUFFICES ASSUME q \notin bounced \cup ignored PROVE Live(q)' => AnswersOK(q)'
    BY <1>2 DEF Live
  <2>1. /\ AnswersOK(q) /\ Over(q)
        /\ \A k \in Links : Numbers(q, Queue(k)) = {}
        /\ Numbers(q, Inbox) = {}
    BY <1>2, Unasked
  <2>2. Inbox' = Inbox
    BY <1>2 DEF Inbox
  <2>3. \A i \in DOMAIN input' : /\ ~ IsRequest(input'[i].msg, q)
                                 /\ ~ Answers(input'[i].msg, q)
    <3>1. \A i \in DOMAIN input : ~ IsRequest(input[i].msg, q) /\ ~ Answers(input[i].msg, q)
      BY <2>1, InboxOK DEF Over, Has, Numbers
    <3>2. QED BY <1>2, <3>1
  <2>4. Numbers(q, Inbox') = {} /\ HasOnce(q, Inbox')
    BY <2>1, <2>2 DEF AnswersOK, HeldOnce
  <2>5. \A k \in Links : /\ ~ Has(q, Queue(k)') /\ HasOnce(q, Queue(k)')
                         /\ Numbers(q, Queue(k)') = {}
    BY <1>5, <2>1 DEF Over, AnswersOK, HeldOnce
  <2>6. asker'[q] \in Links
    BY <1>2, <1>3
  <2>7. QED BY <1>2, <2>3, <2>4, <2>5, <2>6, FirstAsked
<1>8. AnswersTyped'
  <2>1. /\ asker' \in [Requests -> Links \cup {None}]
        /\ \A r \in Requests : asker'[r] # None => link'[asker'[r]] # "new"
    BY <1>2, <1>3 DEF AnswersInv, AnswersTyped
  <2>2. QED BY <1>2, <2>1 DEF AnswersInv, AnswersTyped
<1>9. QED BY <1>6, <1>7, <1>8 DEF AnswersInv
LEMMA AnswerKeepsAnswers ==
  ASSUME RouterInv, AnswersInv, NEW l \in Links, NEW q \in Requests, NEW cont \in BOOLEAN,
         Answer(l, q, cont)
  PROVE  AnswersInv'
<1> DEFINE m == [kind |-> "response", id |-> q, n |-> said[q] + 1, cont |-> cont]
<1>1. /\ said[q] \in Nat /\ m \in Message /\ m.kind = "response" /\ m.id = q
      /\ m.n = said[q] + 1 /\ m.cont = cont
  <2>1. said[q] \in Nat /\ said[q] + 1 \in 0 .. MaxAnswers
    BY RouterAssumption DEF Answer, RouterInv, CallsTyped
  <2>2. QED BY <2>1 DEF Message
<1>2. /\ q \in heard[l] /\ said' = [said EXCEPT ![q] = @ + 1]
      /\ heard' = [heard EXCEPT ![l] = IF cont THEN @ ELSE @ \ {q}]
      /\ \/ PassOn(l, m) /\ UNCHANGED ignored
         \/ ignored' = ignored \cup {q} /\ UNCHANGED input
      /\ UNCHANGED <<server, toRemote, backlog, link, hung, rpcMap, asker, got, bounced>>
  BY DEF Answer, linkVars, sendVars
<1> HIDE DEF m
<1>3. /\ heard \in [Links -> SUBSET Requests] /\ said \in [Requests -> Nat]
      /\ asker \in [Requests -> Links \cup {None}]
  BY DEF AnswersInv, AnswersTyped, RouterInv, CallsTyped
<1>4. /\ said'[q] = said[q] + 1 /\ \A r \in Requests : r # q => said'[r] = said[r]
      /\ \A k \in Links : heard'[k] \subseteq heard[k]
      /\ \A k \in Links : k # l \/ cont => heard'[k] = heard[k]
      /\ ~ cont => q \notin heard'[l]
  BY <1>2, <1>3
<1>5. \A k \in Links : (Listening(k)' <=> Listening(k)) /\ Queue(k)' = Queue(k)
  BY <1>2 DEF Listening, Known, Queue
<1>6. ASSUME NEW r \in Requests, r # q PROVE Live(r)' => AnswersOK(r)'
  <2>1. NumberOf(m, r) = {} /\ ~ IsRequest(m, r)
    BY <1>1, <1>6 DEF NumberOf, Answers, IsRequest
  <2>2. SameFor(r)
    BY <1>2, <1>4, <1>6 DEF SameFor
  <2>3. CASE PassOn(l, m)
    BY <1>1, <1>2, <1>4, <2>1, <2>2, <2>3, SayingNothing
  <2>4. CASE UNCHANGED input
    BY <1>2, <1>4, <1>5, <2>2, <2>4, QuietKeeps
  <2>5. QED BY <1>2, <2>3, <2>4
<1>7. Live(q)' => AnswersOK(q)'
  <2> SUFFICES ASSUME Live(q)' PROVE AnswersOK(q)'
    OBVIOUS
  <2>1. PassOn(l, m) /\ UNCHANGED ignored
    BY <1>2 DEF Live
  <2>2. Live(q) /\ AnswersOK(q)
    BY <1>2, <1>3, <1>5, <2>1 DEF Live, AnswersInv
  <2>3. asker[q] \in Links /\ asker[q] # None /\ Numbered(q) /\ ~ Over(q)
    <3>1. ~ Over(q)
      BY <1>2 DEF Over
    <3>2. asker[q] # None
      BY <2>2, <3>1, Unasked DEF Live
    <3>3. QED BY <1>3, <2>2, <3>1, <3>2 DEF AnswersOK, AskedOf
  <2>4. /\ ~ Has(q, Inbox) /\ ~ Serves(q)
        /\ \A k \in Links : ~ Has(q, Queue(k)) /\ (q \in heard[k] => k = l)
    BY <1>2, <2>2 DEF AnswersOK, HeldOnce
  <2>5. NumberOf(m, q) = {said[q] + 1} /\ ~ IsRequest(m, q) /\ Answers(m, q)
    BY <1>1 DEF NumberOf, Answers, IsRequest
  <2>6. /\ Numbers(q, Inbox') = Numbers(q, Inbox) \cup {said[q] + 1}
        /\ Ascending(q, Inbox') /\ ~ Has(q, Inbox') /\ HasOnce(q, Inbox')
    <3>1. PICK s \in Seq(Message) : s = Inbox
      BY <1>1, <2>1, Says
    <3>2. Inbox' = Append(s, m)
      BY <1>1, <2>1, <3>1, Says
    <3>3. \A x \in Numbers(q, s), y \in NumberOf(m, q) : x < y
      BY <1>1, <2>3, <2>5, <3>1 DEF Numbered
    <3>4. Ascending(q, s) /\ HasOnce(q, s) /\ ~ Has(q, s)
      BY <2>2, <2>3, <2>4, <3>1 DEF Numbered, AnswersOK, HeldOnce
    <3>5. /\ Numbers(q, Append(s, m)) = Numbers(q, s) \cup NumberOf(m, q)
          /\ Ascending(q, Append(s, m)) /\ ~ Has(q, Append(s, m)) /\ HasOnce(q, Append(s, m))
      BY <1>1, <2>5, <3>3, <3>4, AppendAnswers
    <3>6. QED BY <2>5, <3>1, <3>2, <3>5
  <2>7. ServerNumbers(q)' = ServerNumbers(q) /\ asker'[q] = asker[q] /\ got'[q] = got[q]
    BY <1>2 DEF ServerNumbers
  <2>8. HeldOnce(q)'
    BY <1>2, <1>4, <1>5, <2>2, <2>4, <2>6 DEF AnswersOK, HeldOnce, Serves
  <2>9. ~ cont => Over(q)'
    BY <1>2, <1>4, <1>5, <2>4, <2>6 DEF Over, Serves
  <2>10. ComesFromAsker(q)'
    <3>1. \A i \in DOMAIN input' : IsRequest(input'[i].msg, q) => input'[i].from = asker[q]
      BY <1>1, <2>1, <2>2, <2>5, Says DEF AnswersOK, ComesFromAsker
    <3>2. QED BY <1>2, <1>5, <2>2, <2>7, <3>1 DEF AnswersOK, ComesFromAsker
  <2>11. IsRegistered(q)'
    <3>1. Registered(q)
      BY <1>2, <2>2 DEF AnswersOK, IsRegistered
    <3>2. QED BY <1>2, <3>1 DEF IsRegistered, Registered, Registering
  <2>12. ForgottenLast(q)'
    <3>1. /\ \A i \in DOMAIN input : ~ (Answers(input[i].msg, q) /\ ~ input[i].msg.cont)
          /\ ~ (server # None /\ server.then = "forget" /\ server.msg.id = q)
      BY <2>2, <2>3 DEF AnswersOK, ForgottenLast
    <3>2. \A i \in DOMAIN input' : Answers(input'[i].msg, q) /\ ~ input'[i].msg.cont =>
            ~ cont /\ input'[i].msg.n = said'[q]
      BY <1>1, <1>4, <2>1, <3>1, Says
    <3>3. QED BY <1>2, <2>9, <3>1, <3>2 DEF ForgottenLast
  <2>13. Numbered(q)'
    <3> DEFINE Q == Numbers(q, Queue(asker[q]))
               V == ServerNumbers(q)
               I == Numbers(q, Inbox)
               G == Len(got[q])
               N == said[q]
    <3>1. /\ G \in Nat /\ N \in Nat /\ G <= N /\ Q \cup V \cup I = G + 1 .. N
          /\ \A x \in Q, y \in V \cup I : x < y
          /\ \A x \in V, y \in I : x < y
      <4>1. got[q] \in Seq(Nat)
        BY DEF AnswersInv, AnswersTyped
      <4>2. QED BY <1>1, <2>3, <4>1 DEF Numbered
    <3>2. Numbers(q, Inbox') = I \cup {N + 1} /\ said'[q] = N + 1
      BY <1>4, <2>6
    <3>3. Numbers(q, Queue(asker[q]))' = Q /\ Ascending(q, Queue(asker[q]))'
      BY <1>5, <2>3, <2>7 DEF Numbered
    <3>4. got'[q] = [i \in 1 .. G |-> i] /\ Len(got'[q]) = G /\ ServerNumbers(q)' = V
      BY <2>3, <2>7 DEF Numbered
    <3> HIDE DEF Q, V, I, G, N
    <3>5. /\ Q \cup V \cup (I \cup {N + 1}) = G + 1 .. N + 1 /\ G <= N + 1
          /\ \A x \in Q, y \in V \cup (I \cup {N + 1}) : x < y
          /\ \A x \in V, y \in I \cup {N + 1} : x < y
      BY <3>1
    <3>6. QED BY <2>6, <3>2, <3>3, <3>4, <3>5 DEF Numbered
  <2>14. QED BY <2>3, <2>7, <2>8, <2>10, <2>11, <2>12, <2>13 DEF AnswersOK, AskedOf
<1>8. AnswersTyped'
  <2>1. CASE PassOn(l, m)
    BY <1>1, <1>2, <2>1, SayingTyped DEF AnswersInv, AnswersTyped
  <2>2. CASE UNCHANGED input
    BY <1>2, <2>2 DEF AnswersInv, AnswersTyped
  <2>3. QED BY <1>2, <2>1, <2>2
<1>9. QED BY <1>6, <1>7, <1>8 DEF AnswersInv

LEMMA BounceKeepsAnswers ==
  ASSUME RouterInv, AnswersInv, NEW q \in Requests, Bounce(q)
  PROVE  AnswersInv'
<1> DEFINE m == [kind |-> "request", id |-> q, route |-> dest[q], source |-> None]
<1>1. m \in Message /\ m.kind = "request" /\ m.id = q /\ Up \in Links
  <2>1. dest[q] \in Routes
    BY DEF Bounce, RouterInv, CallsTyped
  <2>2. QED BY <2>1 DEF Message, Dests, Links
<1>2. /\ PassOn(Up, m) /\ bounced' = bounced \cup {q}
      /\ heard' = [heard EXCEPT ![Up] = @ \ {q}]
      /\ UNCHANGED <<server, toRemote, backlog, link, hung, rpcMap, asker, said, got, ignored>>
  BY DEF Bounce, linkVars, sendVars
<1> HIDE DEF m
<1>3. \A k \in Links, r \in Requests : r \in heard'[k] => r \in heard[k]
  BY <1>2 DEF RouterInv, CallsTyped
<1>4. ASSUME NEW r \in Requests, r # q PROVE Live(r)' => AnswersOK(r)'
  <2>1. NumberOf(m, r) = {} /\ ~ IsRequest(m, r) /\ SameFor(r)
    BY <1>1, <1>2, <1>4 DEF NumberOf, Answers, IsRequest, SameFor
  <2>2. QED BY <1>1, <1>2, <1>3, <2>1, SayingNothing
<1>5. ~ Live(q)'
  BY <1>2 DEF Live
<1>6. AnswersTyped'
  BY <1>1, <1>2, SayingTyped DEF AnswersInv, AnswersTyped
<1>7. QED BY <1>4, <1>5, <1>6 DEF AnswersInv
-----------------------------------------------------------------------------
(* What the links are given.                                                 *)
LEMMA Taken ==
  ASSUME RouterInv, NEW l \in Links, Deliver(l)
  PROVE  /\ \A k \in Links : Queue(k) \in Seq(Message)
         /\ Queue(l) # << >> /\ Head(Queue(l)) = Head(toRemote[l])
         /\ \A k \in Links : Queue(k)' = IF k = l THEN Tail(Queue(l)) ELSE Queue(k)
<1>1. /\ toRemote \in [Links -> Seq(Message)] /\ backlog \in [Links -> Seq(Message)]
      /\ toRemote[l] # << >> /\ toRemote' = [toRemote EXCEPT ![l] = Tail(@)] /\ UNCHANGED backlog
  BY DEF Deliver, RouterInv, SwitchTyped
<1>2. PICK s \in Seq(Message) : s = toRemote[l]
  BY <1>1
<1>3. PICK t \in Seq(Message) : t = backlog[l]
  BY <1>1
<1>4. s # << >>
  BY <1>1, <1>2
<1>5. Tail(s) \o t = Tail(s \o t) /\ s \o t # << >>
  BY <1>4, TailFirst
<1>6. Head(s \o t) = Head(s)
  BY <1>4
<1>7. Queue(l) = s \o t /\ Queue(l)' = Tail(s) \o t
  BY <1>1, <1>2, <1>3 DEF Queue
<1>8. \A k \in Links : k # l => Queue(k)' = Queue(k)
  BY <1>1 DEF Queue
<1>9. \A k \in Links : Queue(k) \in Seq(Message)
  BY <1>1 DEF Queue
<1>10. QED BY <1>2, <1>5, <1>6, <1>7, <1>8, <1>9

LEMMA DeliverKeepsAnswers ==
  ASSUME RouterInv, AnswersInv, NEW l \in Links, Deliver(l)
  PROVE  AnswersInv'
<1> DEFINE m == Head(Queue(l))
<1>1. /\ m \in Message /\ Tail(Queue(l)) \in Seq(Message)
      /\ \A q : /\ Numbers(q, Queue(l)) = Numbers(q, Queue(l)') \cup NumberOf(m, q)
                /\ Ascending(q, Queue(l)) =>
                     /\ Ascending(q, Queue(l)')
                     /\ \A x \in NumberOf(m, q), y \in Numbers(q, Queue(l)') : x < y
                /\ Has(q, Queue(l)) <=> Has(q, Queue(l)') \/ IsRequest(m, q)
                /\ HasOnce(q, Queue(l)) => /\ HasOnce(q, Queue(l)')
                                           /\ IsRequest(m, q) => ~ Has(q, Queue(l)')
  <2>1. PICK s \in Seq(Message) : s = Queue(l)
    BY Taken
  <2>2. s # << >> /\ Queue(l)' = Tail(s)
    BY <2>1, Taken
  <2>3. \A q : /\ Head(s) \in Message /\ Tail(s) \in Seq(Message)
               /\ Numbers(q, s) = Numbers(q, Tail(s)) \cup NumberOf(Head(s), q)
               /\ Ascending(q, s) =>
                    /\ Ascending(q, Tail(s))
                    /\ \A x \in NumberOf(Head(s), q), y \in Numbers(q, Tail(s)) : x < y
               /\ Has(q, s) <=> Has(q, Tail(s)) \/ IsRequest(Head(s), q)
               /\ HasOnce(q, s) => /\ HasOnce(q, Tail(s))
                                   /\ IsRequest(Head(s), q) => ~ Has(q, Tail(s))
    BY <2>2, TailAnswers, Zenon
  <2>4. QED BY <2>1, <2>2, <2>3, Zenon
<1>2. /\ \A k \in Links : k # l => Queue(k)' = Queue(k)
      /\ heard' = IF m.kind = "request" THEN [heard EXCEPT ![l] = @ \cup {m.id}] ELSE heard
      /\ got' = IF m.kind = "response" /\ m.n > 0
                THEN [got EXCEPT ![m.id] = Append(@, m.n)] ELSE got
      /\ UNCHANGED <<input, server, link, hung, rpcMap, asker, said, bounced, ignored>>
  BY Taken DEF Deliver, linkVars
<1> HIDE DEF m
<1>3. /\ heard \in [Links -> SUBSET Requests] /\ got \in [Requests -> Seq(Nat)]
      /\ asker \in [Requests -> Links \cup {None}]
      /\ m.kind = "response" => m.id \in Requests /\ m.n \in Nat
  BY <1>1, RouterAssumption DEF Message, AnswersInv, AnswersTyped, RouterInv, CallsTyped
<1>4. \A k \in Links : Listening(k)' <=> Listening(k)
  BY <1>2 DEF Listening, Known
<1>5. Inbox' = Inbox
  BY <1>2 DEF Inbox
<1>6. ASSUME NEW q \in Requests, NumberOf(m, q) = {}, ~ IsRequest(m, q)
      PROVE  Live(q)' => AnswersOK(q)'
  <2>1. got'[q] = got[q] /\ \A k \in Links : q \in heard'[k] => q \in heard[k]
    BY <1>2, <1>3, <1>6 DEF NumberOf, Answers, IsRequest
  <2>2. SameFor(q)
    BY <1>2, <2>1 DEF SameFor
  <2>3. \A k \in Links : /\ Has(q, Queue(k)') <=> Has(q, Queue(k))
                         /\ HasOnce(q, Queue(k)) => HasOnce(q, Queue(k)')
                         /\ Numbers(q, Queue(k)') = Numbers(q, Queue(k))
                         /\ Ascending(q, Queue(k)) => Ascending(q, Queue(k)')
    <3>1. /\ Has(q, Queue(l)') <=> Has(q, Queue(l))
          /\ HasOnce(q, Queue(l)) => HasOnce(q, Queue(l)')
          /\ Numbers(q, Queue(l)') = Numbers(q, Queue(l))
          /\ Ascending(q, Queue(l)) => Ascending(q, Queue(l)')
      BY <1>1, <1>6
    <3>2. QED BY <1>2, <3>1
  <2>4. QED BY <1>2, <1>4, <2>1, <2>2, <2>3, QuietKeeps
<1>7. ASSUME NEW q \in Requests, Live(q)' PROVE Live(q) /\ AnswersOK(q)
  BY <1>2, <1>3, <1>4, <1>7 DEF Live, AnswersInv
<1>8. ASSUME NEW q \in Requests, IsRequest(m, q), Live(q)' PROVE AnswersOK(q)'
  <2>1. /\ AnswersOK(q) /\ Has(q, Queue(l)) /\ NumberOf(m, q) = {}
        /\ m.kind = "request" /\ m.id = q
    BY <1>1, <1>7, <1>8 DEF NumberOf, Answers, IsRequest
  <2>2. /\ ~ Has(q, Inbox) /\ ~ Serves(q) /\ HasOnce(q, Inbox)
        /\ \A k \in Links : /\ HasOnce(q, Queue(k)) /\ q \notin heard[k]
                            /\ Has(q, Queue(k)) => k = l
    BY <2>1 DEF AnswersOK, HeldOnce
  <2>3. \A k \in Links : /\ HasOnce(q, Queue(k)') /\ ~ Has(q, Queue(k)')
                         /\ q \in heard'[k] => k = l
                         /\ Numbers(q, Queue(k)') = Numbers(q, Queue(k))
    <3>1. /\ HasOnce(q, Queue(l)') /\ ~ Has(q, Queue(l)')
          /\ Numbers(q, Queue(l)') = Numbers(q, Queue(l))
      BY <1>1, <1>8, <2>1, <2>2
    <3>2. \A k \in Links : q \in heard'[k] => k = l
      BY <1>2, <1>3, <2>1, <2>2
    <3>3. QED BY <1>2, <2>2, <3>1, <3>2
  <2>4. got'[q] = got[q] /\ ServerNumbers(q)' = ServerNumbers(q) /\ ~ Over(q)
    BY <1>2, <2>1 DEF ServerNumbers, Over
  <2>5. HeldOnce(q)'
    BY <1>2, <1>5, <2>2, <2>3 DEF HeldOnce, Serves
  <2>6. ComesFromAsker(q)'
    BY <1>2, <2>1, <2>3, <2>4 DEF AnswersOK, ComesFromAsker
  <2>7. IsRegistered(q)'
    BY <1>2, <2>1 DEF AnswersOK, IsRegistered, Registered, Registering
  <2>8. ForgottenLast(q)'
    BY <1>2, <2>1, <2>4 DEF AnswersOK, ForgottenLast
  <2>9. AskedOf(q)'
    <3>1. CASE asker[q] = None
      BY <1>2, <2>1, <2>4, <3>1 DEF AnswersOK, AskedOf
    <3>2. CASE asker[q] # None
      <4>1. asker[q] \in Links /\ Numbered(q)
        BY <1>3, <2>1, <3>2 DEF AnswersOK, AskedOf
      <4>2. Ascending(q, Queue(asker[q])')
        BY <1>1, <1>2, <4>1 DEF Numbered
      <4>3. QED BY <1>2, <1>5, <2>3, <2>4, <3>2, <4>1, <4>2 DEF AskedOf, Numbered
    <3>3. QED BY <3>1, <3>2
  <2>10. QED BY <2>5, <2>6, <2>7, <2>8, <2>9 DEF AnswersOK
<1>9. ASSUME NEW q \in Requests, Answers(m, q), Live(q)' PROVE AnswersOK(q)'
  <2>1. /\ AnswersOK(q) /\ NumberOf(m, q) = {m.n} /\ ~ IsRequest(m, q)
        /\ m.kind = "response" /\ m.n > 0 /\ m.id = q /\ m.n \in Nat
    BY <1>3, <1>7, <1>9 DEF NumberOf, Answers, IsRequest
  <2>2. l = asker[q] /\ Numbered(q) /\ asker[q] # None
    <3>1. Numbers(q, Queue(l)) # {}
      BY <1>1, <2>1
    <3>2. l = asker[q] /\ l # None
      BY <2>1, <3>1, RouterAssumption DEF AnswersOK, ComesFromAsker, Links
    <3>3. QED BY <2>1, <3>2 DEF AnswersOK, AskedOf
  <2>3. \A k \in Links : /\ Has(q, Queue(k)') <=> Has(q, Queue(k))
                         /\ HasOnce(q, Queue(k)) => HasOnce(q, Queue(k)')
                         /\ Numbers(q, Queue(k)') \subseteq Numbers(q, Queue(k))
    <3>1. /\ Has(q, Queue(l)') <=> Has(q, Queue(l))
          /\ HasOnce(q, Queue(l)) => HasOnce(q, Queue(l)')
          /\ Numbers(q, Queue(l)') \subseteq Numbers(q, Queue(l))
      BY <1>1, <2>1
    <3>2. QED BY <1>2, <3>1
  <2>4. heard' = heard /\ got'[q] = Append(got[q], m.n) /\ ServerNumbers(q)' = ServerNumbers(q)
    BY <1>2, <1>3, <2>1 DEF ServerNumbers
  <2>5. HeldOnce(q)'
    BY <1>2, <1>5, <2>1, <2>3, <2>4 DEF AnswersOK, HeldOnce, Serves
  <2>6. Over(q) => Over(q)'
    BY <1>2, <1>5, <2>3, <2>4 DEF Over, Serves
  <2>7. ComesFromAsker(q)'
    BY <1>2, <2>1, <2>3, <2>4 DEF AnswersOK, ComesFromAsker
  <2>8. IsRegistered(q)'
    BY <1>2, <1>5, <2>1, <2>3, <2>4 DEF AnswersOK, IsRegistered, Registered, Registering
  <2>9. ForgottenLast(q)'
    BY <1>2, <1>5, <2>1, <2>6 DEF AnswersOK, ForgottenLast
  <2>10. Numbered(q)'
    <3> DEFINE Q == Numbers(q, Queue(l)')
               V == ServerNumbers(q)
               I == Numbers(q, Inbox)
               G == Len(got[q])
               N == said[q]
               n == m.n
    <3>1. /\ G \in Nat /\ N \in Nat /\ n \in Nat /\ G <= N
          /\ (Q \cup {n}) \cup V \cup I = G + 1 .. N
          /\ \A x \in Q \cup {n}, y \in V \cup I : x < y
          /\ \A x \in V, y \in I : x < y
          /\ \A y \in Q : n < y
      <4>1. got[q] \in Seq(Nat) /\ N \in Nat
        BY DEF AnswersInv, AnswersTyped, RouterInv, CallsTyped
      <4>2. Numbers(q, Queue(l)) = Q \cup {n} /\ Ascending(q, Queue(l)) /\ \A y \in Q : n < y
        BY <1>1, <2>1, <2>2 DEF Numbered
      <4>3. QED BY <2>1, <2>2, <4>1, <4>2 DEF Numbered
    <3>2. got'[q] = Append(got[q], n) /\ got[q] = [i \in 1 .. G |-> i]
      BY <2>2, <2>4 DEF Numbered
    <3>3. Numbers(q, Queue(asker[q]))' = Q /\ Ascending(q, Queue(asker[q]))'
      BY <1>1, <1>2, <2>2 DEF Numbered
    <3>4. /\ Inbox' = Inbox /\ Ascending(q, Inbox) /\ said'[q] = N /\ ServerNumbers(q)' = V
      BY <1>2, <1>5, <2>2, <2>4 DEF Numbered
    <3> HIDE DEF Q, V, I, G, N, n
    <3>5. n = G + 1
      BY <3>1
    <3>6. /\ Q \cup V \cup I = (G + 1) + 1 .. N /\ G + 1 <= N
      BY <3>1, <3>5
    <3>7. got'[q] = [i \in 1 .. G + 1 |-> i] /\ Len(got'[q]) = G + 1
      BY <3>1, <3>2, <3>5
    <3>8. QED BY <3>1, <3>3, <3>4, <3>6, <3>7 DEF Numbered, I
  <2>11. AskedOf(q)'
    BY <1>2, <2>2, <2>10 DEF AskedOf
  <2>12. QED BY <2>5, <2>7, <2>8, <2>9, <2>11 DEF AnswersOK
<1>10. AnswersTyped'
  <2>1. got' \in [Requests -> Seq(Nat)]
    BY <1>2, <1>3
  <2>2. QED BY <1>2, <2>1 DEF AnswersInv, AnswersTyped
<1>11. ASSUME NEW q \in Requests PROVE NumberOf(m, q) = {} \/ Answers(m, q)
  BY DEF NumberOf
<1>12. QED BY <1>6, <1>8, <1>9, <1>10, <1>11 DEF AnswersInv
-----------------------------------------------------------------------------
(* runServer and what it does with a message.                                *)

\* A message is taken from the inbox, and runServer has it in hand or has dropped it.
LEMMA Received ==
  ASSUME RouterInv, runServer, NEW q
  PROVE  /\ Head(input).msg \in Message /\ Head(input).from \in Links
         /\ 1 \in DOMAIN input /\ input[1] = Head(input)
         /\ \A i \in DOMAIN input' : i + 1 \in DOMAIN input /\ input'[i] = input[i + 1]
         /\ Numbers(q, Inbox) = Numbers(q, Inbox') \cup NumberOf(Head(input).msg, q)
         /\ Ascending(q, Inbox) =>
              /\ Ascending(q, Inbox')
              /\ \A x \in NumberOf(Head(input).msg, q), y \in Numbers(q, Inbox') : x < y
         /\ Has(q, Inbox) <=> Has(q, Inbox') \/ IsRequest(Head(input).msg, q)
         /\ HasOnce(q, Inbox) => /\ HasOnce(q, Inbox')
                                 /\ IsRequest(Head(input).msg, q) => ~ Has(q, Inbox')
<1> DEFINE S == [msg : Message, from : Links]
<1>1. input \in Seq(S) /\ input # << >> /\ input' = Tail(input)
  BY DEF runServer, RouterInv, SwitchTyped
<1>2. Head(input).msg \in Message /\ Head(input).from \in Links
  <2>1. Head(input) \in S
    <3> HIDE DEF S
    <3>1. QED BY <1>1, HeadTailProperties
  <2>2. QED BY <2>1
<1>3. /\ 1 \in DOMAIN input /\ input[1] = Head(input)
      /\ \A i \in DOMAIN input' : i + 1 \in DOMAIN input /\ input'[i] = input[i + 1]
  <2> HIDE DEF S
  <2>1. PICK n \in Nat : n >= 1 /\ DOMAIN input = 1 .. n /\ DOMAIN Tail(input) = 1 .. n - 1
    BY <1>1, HeadTailProperties
  <2>2. Head(input) = input[1] /\ \A i \in 1 .. n - 1 : Tail(input)[i] = input[i + 1]
    BY <1>1, <2>1, HeadTailProperties
  <2>3. QED BY <1>1, <2>1, <2>2
<1>4. PICK s \in Seq(Message) : s = Inbox
  BY InboxOK
<1>5. s # << >> /\ Head(s) = Head(input).msg /\ Inbox' = Tail(s)
  BY <1>1, <1>4, InboxOK
<1>6. /\ Numbers(q, s) = Numbers(q, Tail(s)) \cup NumberOf(Head(s), q)
      /\ Ascending(q, s) => /\ Ascending(q, Tail(s))
                            /\ \A x \in NumberOf(Head(s), q), y \in Numbers(q, Tail(s)) : x < y
      /\ Has(q, s) <=> Has(q, Tail(s)) \/ IsRequest(Head(s), q)
      /\ HasOnce(q, s) => /\ HasOnce(q, Tail(s))
                          /\ IsRequest(Head(s), q) => ~ Has(q, Tail(s))
  BY <1>5, TailAnswers, Zenon
<1>7. QED BY <1>2, <1>3, <1>4, <1>5, <1>6

LEMMA RunServerKeepsAnswers ==
  ASSUME RouterInv, AnswersInv, runServer
  PROVE  AnswersInv'
<1> DEFINE m == Head(input).msg
           from == Head(input).from
<1>1. /\ server = None
      /\ UNCHANGED <<link, hung, rpcMap, toRemote, backlog, heard, asker, said, got, bounced,
                     ignored>>
      /\ m \in Message /\ from \in Links
      /\ 1 \in DOMAIN input /\ input[1].msg = m /\ input[1].from = from
      /\ \A i \in DOMAIN input' : i + 1 \in DOMAIN input /\ input'[i] = input[i + 1]
  BY Received DEF runServer, linkVars, sendVars, callVars
<1>2. \A q : /\ Numbers(q, Inbox) = Numbers(q, Inbox') \cup NumberOf(m, q)
             /\ Ascending(q, Inbox) =>
                  /\ Ascending(q, Inbox')
                  /\ \A x \in NumberOf(m, q), y \in Numbers(q, Inbox') : x < y
             /\ Has(q, Inbox) <=> Has(q, Inbox') \/ IsRequest(m, q)
             /\ HasOnce(q, Inbox) => /\ HasOnce(q, Inbox')
                                     /\ IsRequest(m, q) => ~ Has(q, Inbox')
  BY Received
<1>3. \/ m.kind = "request" /\ RouteRequest(m, from)
      \/ m.kind = "cancel" /\ RouteCancel(m, from)
      \/ m.kind = "response" /\ RouteResponse(m, from)
  BY DEF runServer
<1> HIDE DEF m, from
<1>4. /\ m.kind = "response" => m.n > 0 /\ m.n \in Nat
      /\ asker \in [Requests -> Links \cup {None}]
  BY <1>1, RouterAssumption DEF AnswersInv, AnswersTyped, Message
<1>5. \A k \in Links : /\ Queue(k)' = Queue(k)
                       /\ Listening(k)' <=> Listening(k)
  BY <1>1 DEF Queue, Listening, Known
<1>6. ASSUME NEW q \in Requests, Live(q)' PROVE Live(q) /\ AnswersOK(q)
  BY <1>1, <1>4, <1>5, <1>6 DEF Live, AnswersInv
<1>7. AnswersTyped'
  <2>1. \A i \in DOMAIN input' : input'[i].msg.kind = "response" => input'[i].msg.n > 0
    BY <1>1 DEF AnswersInv, AnswersTyped
  <2>2. /\ server' # None /\ server'.then = "register" => server'.msg.kind = "request"
        /\ server' # None /\ server'.then = "forget" => server'.msg.kind = "response"
    BY <1>3, <1>1 DEF RouteRequest, RouteCancel, RouteResponse, Serve, Afterwards, NoRoute
  <2>3. QED BY <1>1, <2>1, <2>2 DEF AnswersInv, AnswersTyped
\* The message does not matter to q.
<1>8. ASSUME NEW q \in Requests, NumberOf(m, q) = {}, ~ IsRequest(m, q), Live(q)'
      PROVE  AnswersOK(q)'
  <2>1. ~ Serves(q)' /\ ~ Registering(q)' /\ ServerNumbers(q)' = {}
        /\ ~ (server' # None /\ IsRequest(server'.msg, q))
        /\ ~ (server' # None /\ server'.then = "forget" /\ server'.msg.id = q)
    <3>1. ASSUME server' # None
          PROVE  /\ ~ IsRequest(server'.msg, q) /\ ~ Answers(server'.msg, q)
                 /\ ~ (server'.then = "forget" /\ server'.msg.id = q)
      <4>1. ~ Answers(m, q)
        BY <1>8 DEF NumberOf
      <4>2. CASE m.kind = "request" /\ RouteRequest(m, from)
        BY <1>8, <3>1, <4>2 DEF RouteRequest, Serve, NoRoute, IsRequest, Answers
      <4>3. CASE m.kind = "cancel" /\ RouteCancel(m, from)
        BY <3>1, <4>3 DEF RouteCancel, Serve, IsRequest, Answers
      <4>4. CASE m.kind = "response" /\ RouteResponse(m, from)
        BY <1>4, <3>1, <4>1, <4>4 DEF RouteResponse, Serve, IsRequest, Answers
      <4>5. QED BY <1>3, <4>2, <4>3, <4>4
    <3>2. QED BY <3>1 DEF Serves, Registering, ServerNumbers
  <2>2. AnswersOK(q) /\ ServerNumbers(q) = {} /\ ~ Serves(q) /\ ~ Registering(q)
    BY <1>1, <1>6, <1>8 DEF ServerNumbers, Serves, Registering
  <2>3. /\ Numbers(q, Inbox') = Numbers(q, Inbox) /\ (Has(q, Inbox') <=> Has(q, Inbox))
        /\ HasOnce(q, Inbox) => HasOnce(q, Inbox')
        /\ Ascending(q, Inbox) => Ascending(q, Inbox')
    BY <1>2, <1>8
  <2>4. HeldOnce(q)'
    BY <1>1, <1>5, <2>1, <2>2, <2>3 DEF AnswersOK, HeldOnce
  <2>5. Over(q) => Over(q)'
    BY <1>1, <1>5, <2>1, <2>3 DEF Over
  <2>6. ComesFromAsker(q)'
    BY <1>1, <1>5, <2>1, <2>2 DEF AnswersOK, ComesFromAsker
  <2>7. IsRegistered(q)'
    BY <1>1, <1>5, <2>2, <2>3 DEF AnswersOK, IsRegistered, Registered
  <2>8. ForgottenLast(q)'
    BY <1>1, <2>1, <2>2, <2>5 DEF AnswersOK, ForgottenLast
  <2>9. AskedOf(q)'
    <3>1. CASE asker[q] = None
      BY <1>1, <2>2, <3>1 DEF AnswersOK, AskedOf
    <3>2. CASE asker[q] # None
      BY <1>1, <1>4, <1>5, <2>1, <2>2, <2>3, <3>2 DEF AnswersOK, AskedOf, Numbered
    <3>3. QED BY <3>1, <3>2
  <2>10. QED BY <2>4, <2>6, <2>7, <2>8, <2>9 DEF AnswersOK
\* The message is the request.
<1>9. ASSUME NEW q \in Requests, IsRequest(m, q), Live(q)' PROVE AnswersOK(q)'
  <2>1. /\ m.kind = "request" /\ m.id = q /\ NumberOf(m, q) = {} /\ RouteRequest(m, from)
        /\ Has(q, Inbox)
    BY <1>2, <1>3, <1>9 DEF IsRequest, NumberOf, Answers
  <2>2. AnswersOK(q) /\ ServerNumbers(q) = {} /\ ~ Serves(q) /\ ~ Registering(q)
    BY <1>1, <1>6, <1>9 DEF ServerNumbers, Serves, Registering
  <2>3. /\ Numbers(q, Inbox') = Numbers(q, Inbox) /\ ~ Has(q, Inbox') /\ HasOnce(q, Inbox')
        /\ Ascending(q, Inbox) => Ascending(q, Inbox')
    BY <1>2, <1>9, <2>1, <2>2 DEF AnswersOK, HeldOnce
  <2>4. /\ ServerNumbers(q)' = {}
        /\ ~ (server' # None /\ server'.then = "forget")
        /\ server' # None /\ IsRequest(server'.msg, q)
             => server'.from = from /\ server'.then = "register"
    BY <2>1 DEF RouteRequest, Serve, NoRoute, ServerNumbers, Answers, IsRequest
  <2>5. /\ ~ Over(q) /\ from = asker[q]
        /\ \A l \in Links : ~ Has(q, Queue(l)) /\ q \notin heard[l]
    BY <1>1, <1>9, <2>1, <2>2 DEF AnswersOK, Over, HeldOnce, ComesFromAsker
  <2>6. HeldOnce(q)'
    BY <1>1, <1>5, <2>2, <2>3, <2>5 DEF AnswersOK, HeldOnce
  <2>7. ComesFromAsker(q)'
    BY <1>1, <1>5, <2>2, <2>4, <2>5 DEF AnswersOK, ComesFromAsker
  <2>8. IsRegistered(q)'
    BY <1>1, <1>5, <2>2, <2>3, <2>5 DEF AnswersOK, IsRegistered, Registered
  <2>9. ForgottenLast(q)'
    BY <1>1, <2>2, <2>4, <2>5 DEF AnswersOK, ForgottenLast
  <2>10. AskedOf(q)'
    <3>1. CASE asker[q] = None
      BY <1>1, <2>2, <3>1 DEF AnswersOK, AskedOf
    <3>2. CASE asker[q] # None
      BY <1>1, <1>4, <1>5, <2>2, <2>3, <2>4, <3>2 DEF AnswersOK, AskedOf, Numbered
    <3>3. QED BY <3>1, <3>2
  <2>11. QED BY <2>6, <2>7, <2>8, <2>9, <2>10 DEF AnswersOK
\* The message answers q: it goes to the asker.
<1>10. ASSUME NEW q \in Requests, Answers(m, q), Live(q)' PROVE AnswersOK(q)'
  <2>1. /\ m.kind = "response" /\ m.id = q /\ NumberOf(m, q) = {m.n} /\ RouteResponse(m, from)
        /\ ~ IsRequest(m, q)
    BY <1>3, <1>10 DEF IsRequest, NumberOf, Answers
  <2>2. AnswersOK(q) /\ Live(q) /\ ServerNumbers(q) = {} /\ ~ Serves(q) /\ ~ Registering(q)
    BY <1>1, <1>6, <1>10 DEF ServerNumbers, Serves, Registering
  <2>3. /\ Numbers(q, Inbox) = Numbers(q, Inbox') \cup {m.n}
        /\ Ascending(q, Inbox) => /\ Ascending(q, Inbox')
                                  /\ \A y \in Numbers(q, Inbox') : m.n < y
        /\ (Has(q, Inbox') <=> Has(q, Inbox)) /\ (HasOnce(q, Inbox) => HasOnce(q, Inbox'))
    BY <1>2, <2>1
  <2>4. /\ rpcMap[q] # None /\ asker[q] # None /\ Asked(q) = asker[q]
    <3>1. rpcMap[q] # None
      BY <2>2, <2>3 DEF AnswersOK, IsRegistered, Registered
    <3>2. rpcMap[q].from = asker[q] /\ rpcMap[q].from \in Links
      BY <2>2, <3>1 DEF AnswersOK, ComesFromAsker, RouterInv, CallsTyped, RpcRoutingInfo
    <3>3. asker[q] # None
      BY <3>2, RouterAssumption DEF Links
    <3>4. QED BY <2>2, <3>1, <3>2, <3>3 DEF Live, Listening, Asked
  <2>5. /\ server' # None /\ server'.msg = m /\ server'.to = asker[q]
        /\ server'.then = Afterwards(m)
    <3>1. server' = [msg |-> m, from |-> from, to |-> asker[q], then |-> Afterwards(m)]
      BY <2>1, <2>4 DEF RouteResponse, Serve
    <3>2. server' \in InHand
      <4>1. m \in Message /\ from \in Links /\ asker[q] \in Links
        BY <1>1, <1>4, <2>4
      <4>2. QED BY <3>1, <4>1 DEF InHand, Afterwards
    <3>3. QED BY <3>1, <3>2, NoneAssumption
  <2>6. /\ ServerNumbers(q)' = {m.n} /\ ~ Serves(q)' /\ ~ Registering(q)'
        /\ ~ IsRequest(server'.msg, q)
    BY <1>10, <2>1, <2>4, <2>5 DEF ServerNumbers, Serves, Registering
  <2>7. HeldOnce(q)'
    BY <1>1, <1>5, <2>2, <2>3, <2>6 DEF AnswersOK, HeldOnce
  <2>8. Over(q) => Over(q)'
    BY <1>1, <1>5, <2>3, <2>6 DEF Over
  <2>9. ComesFromAsker(q)'
    BY <1>1, <1>5, <2>2, <2>5, <2>6 DEF AnswersOK, ComesFromAsker
  <2>10. IsRegistered(q)'
    BY <1>1, <2>4 DEF IsRegistered, Registered
  <2>11. Numbered(q)
    BY <2>2, <2>4 DEF AnswersOK, AskedOf
  <2>12. /\ Ascending(q, Inbox') /\ \A y \in Numbers(q, Inbox') : m.n < y
         /\ Numbers(q, Queue(asker[q])) \cup (Numbers(q, Inbox') \cup {m.n})
              = Len(got[q]) + 1 .. said[q]
    BY <2>2, <2>3, <2>11 DEF Numbered
  <2>13. ForgottenLast(q)'
    <3>1. \A i \in DOMAIN input' : Answers(input'[i].msg, q) /\ ~ input'[i].msg.cont =>
            Over(q)' /\ input'[i].msg.n = said'[q]
      BY <1>1, <2>2, <2>8 DEF AnswersOK, ForgottenLast
    <3>2. ASSUME server'.then = "forget"
          PROVE  Over(q) /\ Numbers(q, Inbox') = {}
      <4>1. ~ m.cont
        BY <2>5, <3>2 DEF Afterwards
      <4>2. Over(q) /\ m.n = said[q]
        BY <1>1, <1>10, <2>2, <4>1 DEF AnswersOK, ForgottenLast
      <4>3. ASSUME NEW y \in Numbers(q, Inbox') PROVE FALSE
        <5>1. m.n < y /\ y \in Len(got[q]) + 1 .. said[q]
          BY <2>12
        <5>2. m.n \in Nat /\ said[q] \in Nat /\ Len(got[q]) \in Nat
          BY <1>4, <2>1 DEF RouterInv, CallsTyped, AnswersInv, AnswersTyped
        <5>3. QED BY <4>2, <5>1, <5>2
      <4>4. QED BY <4>2, <4>3
    <3>3. QED BY <1>1, <2>4, <2>8, <3>1, <3>2 DEF ForgottenLast
  <2>14. Numbered(q)'
    <3>1. /\ Numbers(q, Queue(asker[q]))' = Numbers(q, Queue(asker[q]))
          /\ Ascending(q, Queue(asker[q]))' <=> Ascending(q, Queue(asker[q]))
      BY <1>1, <1>4, <1>5, <2>4
    <3>2. QED BY <1>1, <2>2, <2>3, <2>6, <2>11, <2>12, <3>1 DEF Numbered
  <2>15. QED BY <1>1, <2>4, <2>7, <2>9, <2>10, <2>13, <2>14 DEF AnswersOK, AskedOf
<1>11. ASSUME NEW q \in Requests PROVE NumberOf(m, q) = {} \/ Answers(m, q)
  BY DEF NumberOf
<1>12. QED BY <1>7, <1>8, <1>9, <1>10, <1>11 DEF AnswersInv

\* What runServer sends.
LEMMA SendKeepsAnswers ==
  ASSUME RouterInv, AnswersInv, sendRpcMessageToLink
  PROVE  AnswersInv'
<1>l. PICK l \in Links : l = server.to
  BY DEF sendRpcMessageToLink, RouterInv, SwitchTyped, InHand
<1>m. PICK m \in Message : m = server.msg
  BY DEF sendRpcMessageToLink, RouterInv, SwitchTyped, InHand
<1>1. /\ server # None /\ m = server.msg /\ l = server.to /\ l # None /\ link[l] # "new"
      /\ SendTo(l, m)
      /\ UNCHANGED <<input, link, hung, rpcMap, heard, asker, said, got, bounced, ignored>>
  BY <1>l, <1>m
  DEF sendRpcMessageToLink, RouterInv, SendsToLinks, linkVars, callVars
<1>2. \/ server' = None /\ server.then = "nothing"
      \/ /\ server' # None /\ server'.msg = m /\ server'.to = None /\ server'.from = server.from
         /\ server'.then = server.then /\ server.then # "nothing"
  <2>1. server \in InHand
    BY <1>1 DEF RouterInv, SwitchTyped
  <2>2. CASE server.then # "nothing"
    <3>1. server' = [server EXCEPT !.to = None]
      BY <2>2 DEF sendRpcMessageToLink
    <3>2. server' \in InHand
      BY <2>1, <3>1 DEF InHand
    <3>3. server' # None
      BY <3>2, NoneAssumption
    <3>4. QED BY <1>1, <2>1, <2>2, <3>1, <3>3 DEF InHand
  <2>3. CASE server.then = "nothing"
    BY <2>3 DEF sendRpcMessageToLink
  <2>4. QED BY <2>2, <2>3
<1>3. /\ \A k \in Links : Queue(k) \in Seq(Message)
      /\ Queue(l)' = Append(Queue(l), m)
      /\ \A k \in Links : k # l => Queue(k)' = Queue(k)
  BY <1>1, SentTo
<1>4. \A q : /\ Numbers(q, Queue(l)') = Numbers(q, Queue(l)) \cup NumberOf(m, q)
             /\ Ascending(q, Queue(l))
                  /\ (\A x \in Numbers(q, Queue(l)), y \in NumberOf(m, q) : x < y)
                  => Ascending(q, Queue(l)')
             /\ Has(q, Queue(l)') <=> Has(q, Queue(l)) \/ IsRequest(m, q)
             /\ HasOnce(q, Queue(l)) /\ ~ (Has(q, Queue(l)) /\ IsRequest(m, q))
                  => HasOnce(q, Queue(l)')
  <2>1. PICK s \in Seq(Message) : s = Queue(l)
    BY <1>1, <1>3
  <2>2. PICK e \in Message : e = m
    BY <1>1
  <2>3. Queue(l)' = Append(s, e)
    BY <1>3, <2>1, <2>2
  <2>4. \A q : /\ Numbers(q, Append(s, e)) = Numbers(q, s) \cup NumberOf(e, q)
               /\ Ascending(q, s) /\ (\A x \in Numbers(q, s), y \in NumberOf(e, q) : x < y)
                    => Ascending(q, Append(s, e))
               /\ Has(q, Append(s, e)) <=> Has(q, s) \/ IsRequest(e, q)
               /\ HasOnce(q, s) /\ ~ (Has(q, s) /\ IsRequest(e, q)) => HasOnce(q, Append(s, e))
    BY AppendAnswers, Zenon
  <2>5. QED BY <2>1, <2>2, <2>3, <2>4, Zenon
<1>5. \A k \in Links : Listening(k)' <=> Listening(k)
  BY <1>1 DEF Listening, Known
<1>6. Inbox' = Inbox
  BY <1>1 DEF Inbox
<1>7. asker \in [Requests -> Links \cup {None}] /\ None \notin Links
  BY RouterAssumption DEF AnswersInv, AnswersTyped, Links
<1>8. AnswersTyped'
  BY <1>1, <1>2 DEF AnswersInv, AnswersTyped
<1>9. ASSUME NEW q \in Requests, Live(q)' PROVE AnswersOK(q)
  BY <1>1, <1>5, <1>7, <1>9 DEF Live, AnswersInv
<1>10. ASSUME NEW q PROVE ~ Serves(q)' /\ ServerNumbers(q)' = {}
  BY <1>2 DEF Serves, ServerNumbers
\* The message does not matter to q.
<1>11. ASSUME NEW q \in Requests, NumberOf(m, q) = {}, ~ IsRequest(m, q), Live(q)'
       PROVE  AnswersOK(q)'
  <2>1. /\ AnswersOK(q) /\ ServerNumbers(q) = {} /\ ~ Serves(q) /\ ~ Registering(q)
        /\ ~ Registering(q)' /\ ~ (server' # None /\ IsRequest(server'.msg, q))
    BY <1>1, <1>2, <1>9, <1>11 DEF ServerNumbers, Serves, Registering, NumberOf
  <2>2. \A k \in Links : /\ Has(q, Queue(k)') <=> Has(q, Queue(k))
                         /\ HasOnce(q, Queue(k)) => HasOnce(q, Queue(k)')
                         /\ Numbers(q, Queue(k)') = Numbers(q, Queue(k))
                         /\ Ascending(q, Queue(k)) => Ascending(q, Queue(k)')
    <3>1. /\ Has(q, Queue(l)') <=> Has(q, Queue(l))
          /\ HasOnce(q, Queue(l)) => HasOnce(q, Queue(l)')
          /\ Numbers(q, Queue(l)') = Numbers(q, Queue(l))
          /\ Ascending(q, Queue(l)) => Ascending(q, Queue(l)')
      BY <1>4, <1>11
    <3>2. QED BY <1>3, <3>1
  <2>3. HeldOnce(q)'
    BY <1>1, <1>6, <1>10, <2>1, <2>2 DEF AnswersOK, HeldOnce
  <2>4. Over(q) => Over(q)'
    BY <1>1, <1>6, <1>10, <2>2 DEF Over
  <2>5. ComesFromAsker(q)'
    BY <1>1, <1>10, <2>1, <2>2 DEF AnswersOK, ComesFromAsker
  <2>6. IsRegistered(q)'
    BY <1>1, <1>6, <2>1, <2>2 DEF AnswersOK, IsRegistered, Registered
  <2>7. ForgottenLast(q)'
    BY <1>1, <1>2, <1>6, <2>1, <2>4 DEF AnswersOK, ForgottenLast
  <2>8. AskedOf(q)'
    <3>1. CASE asker[q] = None
      BY <1>1, <2>1, <3>1 DEF AnswersOK, AskedOf
    <3>2. CASE asker[q] # None
      BY <1>1, <1>6, <1>7, <1>10, <2>1, <2>2, <3>2 DEF AnswersOK, AskedOf, Numbered
    <3>3. QED BY <3>1, <3>2
  <2>9. QED BY <2>3, <2>5, <2>6, <2>7, <2>8 DEF AnswersOK
\* The message is the request, which is to be noted next.
<1>12. ASSUME NEW q \in Requests, IsRequest(m, q), Live(q)' PROVE AnswersOK(q)'
  <2>1. /\ AnswersOK(q) /\ Serves(q) /\ NumberOf(m, q) = {} /\ ServerNumbers(q) = {}
    BY <1>1, <1>9, <1>12 DEF Serves, ServerNumbers, NumberOf, Answers, IsRequest
  <2>2. /\ ~ Has(q, Inbox) /\ HasOnce(q, Inbox) /\ ~ Over(q)
        /\ \A k \in Links : ~ Has(q, Queue(k)) /\ q \notin heard[k] /\ HasOnce(q, Queue(k))
    BY <2>1 DEF AnswersOK, HeldOnce, Over
  <2>3. server.from = asker[q] /\ server.then = "register"
    BY <1>1, <1>12, <2>1 DEF AnswersOK, ComesFromAsker
  <2>4. /\ server' # None /\ server'.msg = m /\ server'.from = asker[q]
        /\ server'.then = "register" /\ Registering(q)'
    BY <1>2, <1>12, <2>3 DEF Registering
  <2>5. \A k \in Links : /\ Has(q, Queue(k)') => k = l
                         /\ HasOnce(q, Queue(k)')
                         /\ Numbers(q, Queue(k)') = Numbers(q, Queue(k))
                         /\ Ascending(q, Queue(k)) => Ascending(q, Queue(k)')
    <3>1. /\ HasOnce(q, Queue(l)')
          /\ Numbers(q, Queue(l)') = Numbers(q, Queue(l))
          /\ Ascending(q, Queue(l)) => Ascending(q, Queue(l)')
      BY <1>1, <1>4, <2>1, <2>2
    <3>2. QED BY <1>3, <2>2, <3>1
  <2>6. HeldOnce(q)'
    BY <1>1, <1>6, <1>10, <2>2, <2>5 DEF HeldOnce
  <2>7. ComesFromAsker(q)'
    BY <1>1, <1>10, <2>1, <2>4, <2>5 DEF AnswersOK, ComesFromAsker
  <2>8. IsRegistered(q)'
    BY <2>4 DEF IsRegistered, Registered
  <2>9. ForgottenLast(q)'
    BY <1>1, <2>1, <2>2, <2>4 DEF AnswersOK, ForgottenLast
  <2>10. AskedOf(q)'
    <3>1. CASE asker[q] = None
      BY <1>1, <2>1, <3>1 DEF AnswersOK, AskedOf
    <3>2. CASE asker[q] # None
      BY <1>1, <1>6, <1>7, <1>10, <2>1, <2>5, <3>2 DEF AnswersOK, AskedOf, Numbered
    <3>3. QED BY <3>1, <3>2
  <2>11. QED BY <2>6, <2>7, <2>8, <2>9, <2>10 DEF AnswersOK
\* The message answers q: it comes after what its asker has to take.
<1>13. ASSUME NEW q \in Requests, Answers(m, q), Live(q)' PROVE AnswersOK(q)'
  <2>1. /\ AnswersOK(q) /\ NumberOf(m, q) = {m.n} /\ ~ IsRequest(m, q)
        /\ ServerNumbers(q) = {m.n} /\ ~ Serves(q) /\ ~ Registering(q)
        /\ ~ Registering(q)' /\ ~ (server' # None /\ IsRequest(server'.msg, q))
    BY <1>1, <1>2, <1>9, <1>13
    DEF Serves, ServerNumbers, Registering, NumberOf, Answers, IsRequest
  <2>2. l = asker[q] /\ asker[q] # None /\ Numbered(q)
    BY <1>1, <2>1 DEF AnswersOK, ComesFromAsker, AskedOf
  <2>3. /\ Numbers(q, Queue(l)') = Numbers(q, Queue(l)) \cup {m.n}
        /\ Ascending(q, Queue(l)')
        /\ \A x \in {m.n}, y \in Numbers(q, Inbox) : x < y
        /\ \A x \in Numbers(q, Queue(l)), y \in Numbers(q, Inbox) : x < y
    BY <1>4, <2>1, <2>2 DEF Numbered
  <2>4. \A k \in Links : /\ Has(q, Queue(k)') <=> Has(q, Queue(k))
                         /\ HasOnce(q, Queue(k)) => HasOnce(q, Queue(k)')
    <3>1. /\ Has(q, Queue(l)') <=> Has(q, Queue(l))
          /\ HasOnce(q, Queue(l)) => HasOnce(q, Queue(l)')
      BY <1>4, <2>1
    <3>2. QED BY <1>3, <3>1
  <2>5. HeldOnce(q)'
    BY <1>1, <1>6, <1>10, <2>1, <2>4 DEF AnswersOK, HeldOnce
  <2>6. Over(q) => Over(q)'
    BY <1>1, <1>6, <1>10, <2>4 DEF Over
  <2>7. ComesFromAsker(q)'
    BY <1>1, <1>3, <1>10, <2>1, <2>2 DEF AnswersOK, ComesFromAsker
  <2>8. IsRegistered(q)'
    BY <1>1, <1>6, <2>1, <2>4 DEF AnswersOK, IsRegistered, Registered
  <2>9. ForgottenLast(q)'
    BY <1>1, <1>2, <1>6, <2>1, <2>6 DEF AnswersOK, ForgottenLast
  <2>10. Numbered(q)'
    <3>1. /\ Numbers(q, Queue(asker[q]))' = Numbers(q, Queue(l)) \cup {m.n}
          /\ Ascending(q, Queue(asker[q]))'
      BY <1>1, <2>2, <2>3
    <3>2. QED BY <1>1, <1>6, <1>10, <2>1, <2>2, <2>3, <3>1 DEF Numbered
  <2>11. QED BY <1>1, <2>2, <2>5, <2>7, <2>8, <2>9, <2>10 DEF AnswersOK, AskedOf
<1>14. ASSUME NEW q \in Requests PROVE NumberOf(m, q) = {} \/ Answers(m, q)
  BY DEF NumberOf
<1>15. QED BY <1>8, <1>11, <1>12, <1>13, <1>14 DEF AnswersInv

\* What runServer notes and forgets.
LEMMA NotesKeepAnswers ==
  ASSUME RouterInv, AnswersInv, registerRouteInfo \/ unregisterRouteInfo
  PROVE  AnswersInv'
<1>1. /\ server # None /\ server.to = None /\ server' = None
      /\ UNCHANGED <<input, toRemote, backlog, link, hung, heard, asker, said, got, bounced,
                     ignored>>
  BY DEF registerRouteInfo, unregisterRouteInfo, linkVars, sendVars, callVars
<1>2. AnswersTyped'
  BY <1>1 DEF AnswersInv, AnswersTyped
<1>3. ASSUME NEW q \in Requests, Live(q)' PROVE AnswersOK(q)'
  <2>1. /\ Inbox' = Inbox
        /\ \A k \in Links : Queue(k)' = Queue(k) /\ (Listening(k)' <=> Listening(k))
    BY <1>1 DEF Inbox, Queue, Listening, Known
  <2>2. asker \in [Requests -> Links \cup {None}] /\ AnswersOK(q)
    BY <1>1, <1>3, <2>1 DEF AnswersInv, AnswersTyped, Live
  <2>3. /\ ~ Serves(q) /\ ~ Serves(q)' /\ ServerNumbers(q) = {} /\ ServerNumbers(q)' = {}
    BY <1>1 DEF Serves, ServerNumbers
  <2>4. HeldOnce(q)'
    BY <1>1, <2>1, <2>2, <2>3 DEF AnswersOK, HeldOnce
  <2>5. Over(q) => Over(q)'
    BY <1>1, <2>1, <2>3 DEF Over
  <2>6. ForgottenLast(q)'
    BY <1>1, <2>1, <2>2, <2>5 DEF AnswersOK, ForgottenLast
  <2>7. AskedOf(q)'
    <3>1. CASE asker[q] = None
      BY <1>1, <2>2, <3>1 DEF AnswersOK, AskedOf
    <3>2. CASE asker[q] # None
      BY <1>1, <2>1, <2>2, <2>3, <3>2 DEF AnswersOK, AskedOf, Numbered
    <3>3. QED BY <3>1, <3>2
  <2>8. ComesFromAsker(q)' /\ IsRegistered(q)'
    <3>1. rpcMap \in [Requests -> RpcRoutingInfo \cup {None}]
      BY DEF RouterInv, CallsTyped
    <3>2. \A i \in DOMAIN input' : input'[i] = input[i]
      BY <1>1
    <3>3. CASE registerRouteInfo
      <4>1. /\ server.then = "register" /\ server.msg.kind = "request"
            /\ rpcMap' = [rpcMap EXCEPT ![server.msg.id] =
                            [from |-> server.from, dest |-> server.msg.route]]
            /\ server.msg.id \in Requests /\ server.msg.route \in Dests /\ server.from \in Links
        BY <1>1, <3>3
        DEF registerRouteInfo, RouterInv, SwitchTyped, SendsToLinks, InHand, Message
      <4>2. CASE server.msg.id = q
        <5>1. rpcMap'[q] = [from |-> server.from, dest |-> server.msg.route]
              /\ rpcMap'[q].from = asker[q]
          BY <1>1, <2>2, <3>1, <4>1, <4>2 DEF AnswersOK, ComesFromAsker, IsRequest
        <5>2. rpcMap'[q] # None
          BY <4>1, <5>1, NoneAssumption DEF RpcRoutingInfo
        <5>3. QED BY <1>1, <2>1, <2>2, <2>3, <5>1, <5>2
                  DEF AnswersOK, ComesFromAsker, IsRegistered, Registered
      <4>3. CASE server.msg.id # q
        <5>1. rpcMap'[q] = rpcMap[q] /\ ~ Registering(q)
          BY <3>1, <4>1, <4>3 DEF Registering, IsRequest
        <5>2. QED BY <1>1, <2>1, <2>2, <2>3, <5>1
                  DEF AnswersOK, ComesFromAsker, IsRegistered, Registered
      <4>4. QED BY <4>2, <4>3
    <3>4. CASE unregisterRouteInfo
      <4>1. /\ server.then = "forget" /\ server.msg.kind = "response"
            /\ rpcMap' = [rpcMap EXCEPT ![server.msg.id] = None] /\ server.msg.id \in Requests
        BY <1>1, <3>4
        DEF unregisterRouteInfo, RouterInv, SwitchTyped, InHand, Message, AnswersInv, AnswersTyped
      <4>2. CASE server.msg.id = q
        <5>1. rpcMap'[q] = None /\ Over(q) /\ Numbers(q, Inbox) = {}
          BY <1>1, <2>2, <3>1, <4>1, <4>2 DEF AnswersOK, ForgottenLast
        <5>2. QED BY <1>1, <2>1, <2>2, <2>3, <5>1
                  DEF AnswersOK, ComesFromAsker, IsRegistered, Over
      <4>3. CASE server.msg.id # q
        <5>1. rpcMap'[q] = rpcMap[q] /\ ~ Registering(q)
          BY <3>1, <4>1, <4>3 DEF Registering, IsRequest
        <5>2. QED BY <1>1, <2>1, <2>2, <2>3, <5>1
                  DEF AnswersOK, ComesFromAsker, IsRegistered, Registered
      <4>4. QED BY <4>2, <4>3
    <3>5. QED BY <3>3, <3>4
  <2>9. QED BY <2>4, <2>6, <2>7, <2>8 DEF AnswersOK
<1>4. QED BY <1>2, <1>3 DEF AnswersInv
-----------------------------------------------------------------------------
(* The theorem.                                                              *)

\* What two sequences of messages say of q in a row.
LEMMA ConcatAnswers ==
  ASSUME NEW s \in Seq(Message), NEW t \in Seq(Message), NEW q
  PROVE  /\ Numbers(q, s \o t) = Numbers(q, s) \cup Numbers(q, t)
         /\ Ascending(q, s) /\ Ascending(q, t)
              /\ (\A x \in Numbers(q, s), y \in Numbers(q, t) : x < y) => Ascending(q, s \o t)
<1>1. PICK m \in Nat : m = Len(s) /\ DOMAIN s = 1 .. m
  OBVIOUS
<1>2. PICK n \in Nat : n = Len(t) /\ DOMAIN t = 1 .. n
  OBVIOUS
<1>3. PICK u \in Seq(Message) : u = s \o t
  BY ConcatProperties
<1>4. /\ DOMAIN u = 1 .. m + n
      /\ \A i \in 1 .. m : u[i] = s[i]
      /\ \A j \in 1 .. n : u[m + j] = t[j]
  BY <1>1, <1>2, <1>3
<1>5. /\ \A i \in DOMAIN s : i \in DOMAIN u /\ u[i] = s[i]
      /\ \A j \in DOMAIN t : m + j \in DOMAIN u /\ u[m + j] = t[j]
      /\ \A k \in DOMAIN u : \/ k \in DOMAIN s /\ u[k] = s[k]
                             \/ k - m \in DOMAIN t /\ u[k] = t[k - m]
      /\ \A k, l \in DOMAIN u : k < l => /\ k \in DOMAIN s \/ l \notin DOMAIN s
                                         /\ k - m < l - m
  <2>1. \A i \in DOMAIN s : i \in DOMAIN u /\ u[i] = s[i]
    <3>1. \A i \in 1 .. m : i \in 1 .. m + n
      BY <1>1, <1>2
    <3>2. QED BY <1>1, <1>4, <3>1
  <2>2. \A j \in DOMAIN t : m + j \in DOMAIN u /\ u[m + j] = t[j]
    <3>1. \A j \in 1 .. n : m + j \in 1 .. m + n
      BY <1>1, <1>2
    <3>2. QED BY <1>2, <1>4, <3>1
  <2>3. ASSUME NEW k \in DOMAIN u, k \notin DOMAIN s
        PROVE  k - m \in DOMAIN t /\ u[k] = t[k - m]
    <3>1. k - m \in 1 .. n /\ m + (k - m) = k
      BY <1>1, <1>4, <2>3
    <3>2. QED BY <1>2, <1>4, <3>1
  <2>4. \A k, l \in DOMAIN u : k < l => /\ k \in DOMAIN s \/ l \notin DOMAIN s
                                        /\ k - m < l - m
    BY <1>1, <1>2, <1>4
  <2>5. QED BY <2>1, <2>2, <2>3, <2>4
<1>6. Numbers(q, u) = Numbers(q, s) \cup Numbers(q, t)
  <2>1. ASSUME NEW x \in Numbers(q, u) PROVE x \in Numbers(q, s) \cup Numbers(q, t)
    <3>1. PICK k \in DOMAIN u : Answers(u[k], q) /\ x = u[k].n
      BY DEF Numbers
    <3>2. QED BY <1>5, <3>1 DEF Numbers
  <2>2. Numbers(q, s) \subseteq Numbers(q, u)
    BY <1>5 DEF Numbers
  <2>3. Numbers(q, t) \subseteq Numbers(q, u)
    BY <1>5 DEF Numbers
  <2>4. QED BY <2>1, <2>2, <2>3
<1>7. ASSUME Ascending(q, s), Ascending(q, t),
             \A x \in Numbers(q, s), y \in Numbers(q, t) : x < y
      PROVE  Ascending(q, u)
  <2> SUFFICES ASSUME NEW k \in DOMAIN u, NEW l \in DOMAIN u,
                      k < l, Answers(u[k], q), Answers(u[l], q)
               PROVE  u[k].n < u[l].n
    BY DEF Ascending
  <2>1. CASE l \in DOMAIN s /\ k \in DOMAIN s
    BY <1>5, <1>7, <2>1 DEF Ascending
  <2>2. CASE k \in DOMAIN s /\ l \notin DOMAIN s
    <3>1. u[k] = s[k] /\ u[k].n \in Numbers(q, s)
      BY <1>5, <2>2 DEF Numbers
    <3>2. u[l] = t[l - m] /\ u[l].n \in Numbers(q, t)
      BY <1>5, <2>2 DEF Numbers
    <3>3. QED BY <1>7, <3>1, <3>2
  <2>3. CASE k \notin DOMAIN s /\ l \notin DOMAIN s
    BY <1>5, <1>7, <2>3 DEF Ascending
  <2>4. QED BY <1>5, <2>1, <2>2, <2>3
<1>8. QED BY <1>3, <1>6, <1>7

\* What is on the way of the asker, in its three parts, is what AnswersArrive says.
LEMMA OnTheWay ==
  ASSUME RouterInv, AnswersInv PROVE AnswersArrive
<1> SUFFICES ASSUME NEW q \in Requests, q \notin bounced \cup ignored,
                    NEW a, a = asker[q], NEW w,
                    w = IF server # None /\ server.to = a THEN <<server.msg>> ELSE << >>,
                    a # None /\ Listening(a)
             PROVE  /\ got[q] = [i \in 1 .. Len(got[q]) |-> i]
                    /\ Numbers(q, Queue(a) \o w \o Inbox) = Len(got[q]) + 1 .. said[q]
                    /\ Ascending(q, Queue(a) \o w \o Inbox)
  BY DEF AnswersArrive, AnswersReachAsker
<1>1. AnswersOK(q) /\ Numbered(q) /\ a \in Links
  BY DEF AnswersInv, AnswersTyped, Live, AnswersOK, AskedOf
<1>2. PICK s \in Seq(Message) : s = Queue(a)
  <2>1. toRemote[a] \in Seq(Message) /\ backlog[a] \in Seq(Message)
    BY <1>1 DEF RouterInv, SwitchTyped
  <2>2. QED BY <2>1, ConcatProperties DEF Queue
<1>3. PICK t \in Seq(Message) : t = Inbox
  BY InboxOK
<1>4. w \in Seq(Message) /\ Numbers(q, w) = ServerNumbers(q) /\ Ascending(q, w)
  <2>1. CASE server # None /\ server.to = a
    <3>1. server.msg \in Message /\ w = <<server.msg>>
      BY <2>1 DEF RouterInv, SwitchTyped, InHand
    <3>2. /\ w \in Seq(Message) /\ DOMAIN w = {1} /\ w[1] = server.msg
          /\ \A i, j \in DOMAIN w : ~ (i < j)
      <4>1. PICK m \in Message : m = server.msg
        BY <3>1
      <4>2. <<m>> \in Seq(Message) /\ DOMAIN <<m>> = {1} /\ <<m>>[1] = m
        OBVIOUS
      <4>3. \A i, j \in {1} : ~ (i < j)
        OBVIOUS
      <4>4. PICK v \in Seq(Message) : v = <<m>>
        BY <4>2
      <4>5. v = w /\ DOMAIN v = {1} /\ v[1] = server.msg
        BY <3>1, <4>1, <4>2, <4>4
      <4>6. QED BY <4>3, <4>5
    <3>3. Numbers(q, w) = IF Answers(server.msg, q) THEN {server.msg.n} ELSE {}
      BY <3>2 DEF Numbers
    <3>4. QED BY <2>1, <3>2, <3>3 DEF ServerNumbers, Ascending
  <2>2. CASE ~ (server # None /\ server.to = a)
    <3>1. w = << >> /\ ServerNumbers(q) = {}
      BY <1>1, <2>2 DEF AnswersOK, ComesFromAsker, ServerNumbers
    <3>2. w \in Seq(Message) /\ DOMAIN w = {}
      BY <3>1
    <3>3. QED BY <3>1, <3>2 DEF Numbers, Ascending
  <2>3. QED BY <2>1, <2>2
<1>5. /\ s \o w \in Seq(Message)
      /\ Numbers(q, s \o w) = Numbers(q, s) \cup ServerNumbers(q) /\ Ascending(q, s \o w)
  <2>1. Ascending(q, s) /\ \A x \in Numbers(q, s), y \in Numbers(q, w) : x < y
    BY <1>1, <1>2, <1>4 DEF Numbered
  <2>2. PICK v \in Seq(Message) : v = w
    BY <1>4
  <2>3. /\ s \o v \in Seq(Message) /\ Numbers(q, s \o v) = Numbers(q, s) \cup Numbers(q, v)
        /\ Ascending(q, s \o v)
    BY <1>4, <2>1, <2>2, ConcatAnswers, ConcatProperties
  <2>4. QED BY <1>4, <2>2, <2>3
<1>6. /\ Numbers(q, (s \o w) \o t) = Numbers(q, s) \cup ServerNumbers(q) \cup Numbers(q, t)
      /\ Ascending(q, (s \o w) \o t)
  <2>1. /\ Ascending(q, t) /\ \A x \in Numbers(q, s \o w), y \in Numbers(q, t) : x < y
    BY <1>1, <1>2, <1>3, <1>5 DEF Numbered
  <2>2. PICK v \in Seq(Message) : v = s \o w
    BY <1>5
  <2>3. Numbers(q, v \o t) = Numbers(q, v) \cup Numbers(q, t) /\ Ascending(q, v \o t)
    BY <1>5, <2>1, <2>2, ConcatAnswers
  <2>4. QED BY <1>5, <2>2, <2>3
<1>7. QED BY <1>1, <1>2, <1>3, <1>6 DEF Numbered

LEMMA AnswersFromStart == Init => AnswersInv
<1> SUFFICES ASSUME NEW scene \in Scenes, SceneIs(scene, scene.here) PROVE AnswersInv
  BY DEF Init
<1>1. /\ server = None /\ input = << >> /\ rpcMap = [q \in Requests |-> None]
      /\ asker = [q \in Requests |-> None] /\ said = [q \in Requests |-> 0]
      /\ got = [q \in Requests |-> << >>] /\ heard = [l \in Links |-> {}]
      /\ toRemote = [l \in Links |-> << >>] /\ backlog = [l \in Links |-> << >>]
  BY DEF SceneIs
<1>2. \A l \in Links : DOMAIN Queue(l) = {} /\ heard[l] = {}
  BY <1>1 DEF Queue
<1>3. DOMAIN input = {} /\ DOMAIN Inbox = {}
  BY <1>1 DEF Inbox
<1>4. AnswersTyped
  BY <1>1, <1>3 DEF AnswersTyped
<1>5. ASSUME NEW q \in Requests PROVE AnswersOK(q)
  BY <1>1, <1>2, <1>3
  DEF AnswersOK, HeldOnce, ComesFromAsker, IsRegistered, ForgottenLast, AskedOf, Has, HasOnce,
      Numbers, Serves, ServerNumbers
<1>6. QED BY <1>4, <1>5 DEF AnswersInv

LEMMA NextKeepsAnswers ==
  ASSUME RouterInv, AnswersInv, Next PROVE AnswersInv'
<1>1. CASE Round \/ runUpstreamBufferLoop
  BY <1>1, BacklogKeepsAnswers
<1>2. CASE runServer
  BY <1>2, RunServerKeepsAnswers
<1>3. CASE sendRpcMessageToLink
  BY <1>3, SendKeepsAnswers
<1>4. CASE registerRouteInfo \/ unregisterRouteInfo
  BY <1>4, NotesKeepAnswers
<1>5. CASE \/ Rest \/ \E m \in Announcements : HandleAnnouncement(m)
           \/ \E l \in Leaves :
                \/ RegisterUntrustedLink(l) \/ trustLink(l) \/ bindRouteLocally(l)
                \/ announceUpstream(l) \/ UnregisterLink(l) \/ DeleteLink(l)
                \/ \E r \in Routes : unbindRouteLocally(l, r) \/ unannounceUpstream(l, r)
  BY <1>5, LinksKeepAnswers, Zenon
<1>6. ASSUME NEW l \in Links, Deliver(l) PROVE AnswersInv'
  BY <1>6, DeliverKeepsAnswers
<1>7. ASSUME NEW q \in Requests, Bounce(q) PROVE AnswersInv'
  BY <1>7, BounceKeepsAnswers
<1>8. ASSUME NEW q \in Requests, NEW l \in Links, Refuse(l, q) PROVE AnswersInv'
  BY <1>8, RefuseKeepsAnswers
<1>9. ASSUME NEW q \in Requests, NEW l \in Links, Cancel(l, q) PROVE AnswersInv'
  BY <1>9, CancelKeepsAnswers
<1>10. ASSUME NEW q \in Requests, NEW l \in Links, NEW d \in Dests, Ask(l, q, d) PROVE AnswersInv'
  BY <1>10, AskKeepsAnswers
<1>11. ASSUME NEW q \in Requests, NEW l \in Links, NEW cont \in BOOLEAN, Answer(l, q, cont)
       PROVE  AnswersInv'
  BY <1>11, AnswerKeepsAnswers
<1>12. QED
  BY <1>1, <1>2, <1>3, <1>4, <1>5, <1>6, <1>7, <1>8, <1>9, <1>10, <1>11, Zenon DEF Next

(* The responses to a request reach the link it came in by, every one of them *)
(* and in order, AnswersArrive: as long as that link listens, whatever binds, *)
(* leaves, is slow or is canceled meanwhile; except for a request that the    *)
(* router upstream sent back or whose answer was not let in.                  *)
THEOREM AnswersReachTheirAsker == Spec => []AnswersArrive
<1>1. RouterInv /\ AnswersInv /\ [Next]_vars => AnswersInv'
  <2>1. ASSUME RouterInv, AnswersInv, UNCHANGED vars PROVE AnswersInv'
    <3>1. UNCHANGED <<input, server, link, hung, rpcMap, toRemote, backlog, heard, asker, said,
                      got, bounced, ignored>>
      BY <2>1 DEF vars, linkVars, sendVars, callVars
    <3>2. AnswersTyped'
      BY <2>1, <3>1 DEF AnswersInv, AnswersTyped
    <3>3. \A l \in Links : Queue(l)' = Queue(l) /\ (Listening(l)' <=> Listening(l))
      BY <3>1 DEF Queue, Listening, Known
    <3>4. \A q \in Requests : Live(q)' => AnswersOK(q)'
      BY <2>1, <3>1, <3>3, QuietKeeps DEF SameFor
    <3>5. QED BY <3>2, <3>4 DEF AnswersInv
  <2>2. QED BY <2>1, NextKeepsAnswers
<1>2. QED BY RouterInvariant, AnswersFromStart, <1>1, OnTheWay, PTL DEF Spec
=============================================================================
