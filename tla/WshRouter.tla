------------------------------ MODULE WshRouter ------------------------------
(* The RPC router of pkg/wshutil/wshrouter.go, as the connection server and   *)
(* the main server run it: links that come, are trusted, bind a route and     *)
(* leave; the one goroutine that routes requests and responses between them;  *)
(* the backlog of links that are slow; and the announcements to the router    *)
(* upstream, whose control plane (wshrouter_controlimpl.go) is here too.      *)
EXTENDS Integers, Sequences, FiniteSets, Bags

CONSTANTS
  Leaves,             \* the connections that will be made, each once
  Up,                 \* the link to the router upstream
  Routes, None,
  Requests,           \* request ids
  Scenes,             \* bound: what each leaf wants, which are there, which requests are made
  ChanSize,           \* capacity of a link's channel
  InputSize,          \* capacity of the router's input channel
  MaxAnswers          \* bound: most responses to a request

ASSUME RouterAssumption ==
  /\ Up \notin Leaves /\ None \notin Leaves \cup {Up} \cup Routes
  /\ Scenes \subseteq [wants : [Leaves -> Routes], here : SUBSET Leaves, asks : SUBSET Requests]
  /\ ChanSize \in Nat \ {0} /\ InputSize \in Nat \ {0} /\ MaxAnswers \in Nat \ {0}

Links == Leaves \cup {Up}

\* A destination is a route, or the link itself ("link:N").
Dests == Routes \cup Leaves

Message ==
       [kind : {"request"}, id : Requests, route : Dests, source : Routes \cup {None}]
  \cup [kind : {"response"}, id : Requests, n : 0 .. MaxAnswers, cont : BOOLEAN]
  \cup [kind : {"cancel"}, id : Requests]
  \cup [kind : {"announce", "unannounce"}, route : Routes]

\* What is noted of a request, and what runServer has in hand.
RpcRoutingInfo == [from : Links, dest : Dests]
InHand == [msg : Message, from : Links \cup {None}, to : Links \cup {None},
           then : {"register", "forget", "nothing"}]

ASSUME NoneAssumption == None \notin RpcRoutingInfo /\ None \notin InHand

NoRoute(q) == [kind |-> "response", id |-> q, n |-> 0, cont |-> FALSE]

VARIABLES
  wants, upstream,    \* chosen once: what each leaf authenticates for; Up, or None in the root router
  requests,           \* chosen once: the requests that will be made
  link,               \* linkMap: "new", "untrusted", "trusted" or "gone"
  source,             \* sourceRouteId of each link
  routeMap,
  rpcMap,             \* None, or where the request came from and was for
  toRemote,           \* ToRemoteCh of each link, with what the transport still carries
  backlog,            \* linkMsgBacklog
  worker,             \* processBacklog: "waiting" on its condition, or "awake"
  input,              \* inputCh: messages, each with the link it came in by
  server,             \* runServer: None, or the message it is at and where it goes
  upBuf,              \* upstreamBuf
  auth,               \* the handler of each leaf's authentication: "idle", "bind", "announce", "done"
  unreg,              \* UnregisterLink of each link: the routes to unbind and to unannounce
  hung,               \* the links whose connection is closed
  root,               \* the routes that the router upstream has bound to its link to this one
  rootTasks,          \* the announcements its handler goroutines have in hand
  (* history *)
  asker, dest,        \* of each request, the link that made it and where it went
  heard,              \* at each link, the requests it was given and has not finished
  said,               \* how many responses the request was given
  got,                \* which of them its asker has
  bounced,            \* the requests that upstream sent back
  canceled,           \* the requests that their asker canceled
  ignored             \* requests with a response that was not let in

linkVars == <<link, source, auth, hung, unreg>>
sendVars == <<toRemote, backlog, worker>>
rootVars == <<root, rootTasks>>
callVars == <<asker, dest, heard, said, got, bounced, ignored, canceled>>
fixed    == <<wants, upstream, requests>>
vars == <<fixed, linkVars, routeMap, rpcMap, sendVars, input, server, upBuf, rootVars, callVars>>

Nowhere == [at |-> "no", unbind |-> {}, unannounce |-> {}]

\* Of the leaves in here, the connections are made, trusted and their routes bound and known.
SceneIs(scene, here) ==
  /\ wants = scene.wants /\ requests = scene.asks /\ upstream \in {Up, None}
  /\ link = [l \in Links |-> IF l \in here \cup {upstream} THEN "trusted" ELSE "new"]
  /\ source = [l \in Links |-> IF l \in here THEN wants[l] ELSE None]
  /\ auth = [l \in Leaves |-> IF l \in here THEN "done" ELSE "idle"]
  /\ hung = {} /\ unreg = [l \in Leaves |-> Nowhere]
  /\ routeMap = [r \in Routes |-> IF \E l \in here : wants[l] = r
                                  THEN CHOOSE l \in here : wants[l] = r ELSE None]
  /\ root = IF upstream = None THEN {} ELSE {wants[l] : l \in here}
  /\ rpcMap = [q \in Requests |-> None]
  /\ toRemote = [l \in Links |-> << >>] /\ backlog = [l \in Links |-> << >>]
  /\ worker = "waiting" /\ input = << >> /\ server = None /\ upBuf = << >>
  /\ rootTasks = EmptyBag
  /\ asker = [q \in Requests |-> None] /\ dest = [q \in Requests |-> None]
  /\ heard = [l \in Links |-> {}] /\ said = [q \in Requests |-> 0]
  /\ got = [q \in Requests |-> << >>] /\ bounced = {} /\ ignored = {} /\ canceled = {}

Init == \E scene \in Scenes : SceneIs(scene, scene.here)
-----------------------------------------------------------------------------
(* Lookups, and what is sent to a link. *)

Known(l) == link[l] \in {"untrusted", "trusted"}

\* The link a message for d goes to: None when there is no route.
LinkFor(d) ==
  IF d \in Leaves THEN IF Known(d) THEN d ELSE None
  ELSE IF d \in Routes /\ routeMap[d] # None /\ Known(routeMap[d]) THEN routeMap[d]
  ELSE upstream

\* The channel of a closed connection takes nothing.
Room(l) == IF l \in hung THEN 0 ELSE ChanSize - Len(toRemote[l])

Fits_NoBacklog(l) == Room(l) > 0
Fits(l) == backlog[l] = << >> /\ Room(l) > 0

NobodyWaits == \A l \in Links : backlog[l] = << >>

\* What signalling linkBacklogCond does to the worker.
Signalled_Never(w) == w
Signalled(w) == IF NobodyWaits THEN "awake" ELSE w

SendTo(l, m) ==
  IF Fits(l)
  THEN toRemote' = [toRemote EXCEPT ![l] = Append(@, m)] /\ UNCHANGED <<backlog, worker>>
  ELSE /\ backlog' = [backlog EXCEPT ![l] = Append(@, m)]
       /\ worker' = Signalled(worker)
       /\ UNCHANGED toRemote

Rest == worker = "awake" /\ NobodyWaits /\ worker' = "waiting"
        /\ UNCHANGED <<fixed, linkVars, routeMap, rpcMap, toRemote, backlog, input, server, upBuf,
                       rootVars, callVars>>

\* How much of a link's backlog a round sends.
Drained(l) ==
  IF ~Known(l) THEN 0 ELSE IF Len(backlog[l]) < Room(l) THEN Len(backlog[l]) ELSE Room(l)

\* What a round leaves in the backlog.
Left(l) == IF Known(l) THEN SubSeq(backlog[l], Drained(l) + 1, Len(backlog[l])) ELSE << >>

Round ==
  /\ worker = "awake" /\ ~NobodyWaits
  /\ toRemote' = [l \in Links |-> toRemote[l] \o SubSeq(backlog[l], 1, Drained(l))]
  /\ backlog' = [l \in Links |-> Left(l)]
  /\ UNCHANGED <<fixed, linkVars, routeMap, rpcMap, worker, input, server, upBuf, rootVars,
                 callVars>>
-----------------------------------------------------------------------------
(* Links come, are trusted, bind their route, and leave. *)

RegisterUntrustedLink(l) ==
  /\ link[l] = "new" /\ l \in Leaves
  /\ link' = [link EXCEPT ![l] = "untrusted"]
  /\ UNCHANGED <<fixed, source, auth, hung, unreg, routeMap, rpcMap, sendVars, input, server, upBuf,
                 rootVars, callVars>>

\* An Authenticate command was accepted; its handler may be late, the link gone.
trustLink(l) ==
  /\ auth[l] = "idle" /\ link[l] # "new"
  /\ link' = [link EXCEPT ![l] = IF Known(l) THEN "trusted" ELSE @]
  /\ auth' = [auth EXCEPT ![l] = "bind"]
  /\ UNCHANGED <<fixed, source, hung, unreg, routeMap, rpcMap, sendVars, input, server, upBuf,
                 rootVars, callVars>>

bindRouteLocally(l) ==
  /\ auth[l] = "bind"
  /\ IF link[l] = "trusted"
     THEN /\ source' = [source EXCEPT ![l] = wants[l]]
          /\ routeMap' = [routeMap EXCEPT ![wants[l]] = l]
          /\ auth' = [auth EXCEPT ![l] = "announce"]
     ELSE auth' = [auth EXCEPT ![l] = "done"] /\ UNCHANGED <<source, routeMap>>
  /\ UNCHANGED <<fixed, link, hung, unreg, rpcMap, sendVars, input, server, upBuf, rootVars,
                 callVars>>

queueUpstreamMessage_OneAtATime(m) ==
  upBuf' = IF upstream = None \/ upBuf # << >> THEN upBuf ELSE Append(upBuf, m)
queueUpstreamMessage(m) == upBuf' = IF upstream = None THEN upBuf ELSE Append(upBuf, m)

announceUpstream(l) ==
  /\ auth[l] = "announce"
  /\ auth' = [auth EXCEPT ![l] = "done"]
  /\ queueUpstreamMessage([kind |-> "announce", route |-> wants[l]])
  /\ UNCHANGED <<fixed, link, source, hung, unreg, routeMap, rpcMap, sendVars, input, server,
                 rootVars, callVars>>

\* The connection is closed, and UnregisterLink has looked up the link's routes.
UnregisterLink(l) ==
  /\ l \in Leaves /\ Known(l) /\ l \notin hung
  /\ requests = {} \/ hung = {}                                          \* bound
  /\ hung' = hung \cup {l}
  /\ unreg' = [unreg EXCEPT ![l] = [at |-> "busy", unbind |-> {r \in Routes : routeMap[r] = l},
                                    unannounce |-> {}]]
  /\ heard' = [heard EXCEPT ![l] = {}]
  /\ UNCHANGED <<fixed, link, source, auth, routeMap, rpcMap, sendVars, input, server, upBuf,
                 rootVars, asker, dest, said, got, bounced, ignored, canceled>>

\* What unbinding r for l leaves it bound to.
Unbound_Always(r, l) == None
Unbound(r, l) == IF routeMap[r] = l THEN None ELSE routeMap[r]

unbindRouteLocally(l, r) ==
  /\ r \in unreg[l].unbind /\ unreg[l].unannounce = {}
  /\ routeMap' = [routeMap EXCEPT ![r] = Unbound(r, l)]
  /\ unreg' = [unreg EXCEPT ![l].unbind = @ \ {r}, ![l].unannounce = {r}]
  /\ UNCHANGED <<fixed, link, source, auth, hung, rpcMap, sendVars, input, server, upBuf, rootVars,
                 callVars>>

unannounceUpstream(l, r) ==
  /\ r \in unreg[l].unannounce
  /\ unreg' = [unreg EXCEPT ![l].unannounce = {}]
  /\ queueUpstreamMessage([kind |-> "unannounce", route |-> r])
  /\ UNCHANGED <<fixed, link, source, auth, hung, routeMap, rpcMap, sendVars, input, server,
                 rootVars, callVars>>

DeleteLink(l) ==
  /\ unreg[l] = [at |-> "busy", unbind |-> {}, unannounce |-> {}]
  /\ link' = [link EXCEPT ![l] = "gone"]
  /\ unreg' = [unreg EXCEPT ![l] = Nowhere]
  /\ UNCHANGED <<fixed, source, auth, hung, routeMap, rpcMap, sendVars, input, server, upBuf,
                 rootVars, callVars>>

\* Nobody else takes from upstreamBuf: taking a message and sending it are one step.
runUpstreamBufferLoop ==
  /\ upBuf # << >>
  /\ upBuf' = Tail(upBuf) /\ SendTo(Up, Head(upBuf))
  /\ UNCHANGED <<fixed, linkVars, routeMap, rpcMap, input, server, rootVars, callVars>>

\* RouteAnnounceCommand and RouteUnannounceCommand at the router upstream: a
\* goroutine for each, which bind and unbind for the link to this router.
HandleAnnouncement(m) ==
  /\ BagIn(m, rootTasks)
  /\ rootTasks' = rootTasks (-) SetToBag({m})
  /\ root' = IF m.kind = "announce" THEN root \cup {m.route} ELSE root \ {m.route}
  /\ UNCHANGED <<fixed, linkVars, routeMap, rpcMap, sendVars, input, server, upBuf, callVars>>
-----------------------------------------------------------------------------
(* runLinkClientRecvLoop: what a link says. A message waits at its link until *)
(* inputCh has room: to say it and to pass it on are one step.                *)

PassOn(l, m) == Len(input) < InputSize /\ input' = Append(input, [msg |-> m, from |-> l])

Listening(l) == Known(l) /\ l \notin hung

\* Upstream has requests for the routes it knows this router to have.
Ask(l, q, d) ==
  /\ Listening(l) /\ link[l] = "trusted" /\ q \in requests /\ asker[q] = None
  /\ l = Up => d \in root \/ d \in Leaves
  /\ asker' = [asker EXCEPT ![q] = l] /\ dest' = [dest EXCEPT ![q] = d]
  /\ PassOn(l, [kind |-> "request", id |-> q, route |-> d, source |-> source[l]])
  /\ UNCHANGED <<fixed, linkVars, routeMap, rpcMap, sendVars, server, upBuf, rootVars,
                 heard, said, got, bounced, ignored, canceled>>

\* sendControlUnauthenticatedErrorResponse
Refuse(l, q) ==
  /\ Listening(l) /\ link[l] = "untrusted" /\ q \in requests /\ asker[q] = None
  /\ asker' = [asker EXCEPT ![q] = l]
  /\ SendTo(l, NoRoute(q))
  /\ UNCHANGED <<fixed, linkVars, routeMap, rpcMap, input, server, upBuf, rootVars,
                 dest, heard, said, got, bounced, ignored, canceled>>

\* An untrusted link may answer what the router knows to be a request.
LetIn(l, q) == link[l] = "trusted" \/ rpcMap[q] # None

Answer(l, q, cont) ==
  /\ Listening(l) /\ q \in heard[l]
  /\ said[q] < MaxAnswers                                                 \* bound
  /\ cont => said[q] + 1 < MaxAnswers /\ q \notin canceled                 \* bound
  /\ l = Up => dest[q] \notin root
  /\ heard' = [heard EXCEPT ![l] = IF cont THEN @ ELSE @ \ {q}]
  /\ said' = [said EXCEPT ![q] = @ + 1]
  /\ IF LetIn(l, q)
     THEN /\ PassOn(l, [kind |-> "response", id |-> q, n |-> said[q] + 1, cont |-> cont])
          /\ UNCHANGED ignored
     ELSE ignored' = ignored \cup {q} /\ UNCHANGED input
  /\ UNCHANGED <<fixed, linkVars, routeMap, rpcMap, sendVars, server, upBuf, rootVars,
                 asker, dest, got, bounced, canceled>>

Cancel(l, q) ==
  /\ Listening(l) /\ link[l] = "trusted" /\ asker[q] = l
  /\ said[q] = 0 /\ hung = {} /\ q \notin canceled                         \* bound
  /\ canceled' = canceled \cup {q}
  /\ PassOn(l, [kind |-> "cancel", id |-> q])
  /\ UNCHANGED <<fixed, linkVars, routeMap, rpcMap, sendVars, server, upBuf, rootVars,
                 asker, dest, heard, said, got, bounced, ignored>>

\* The router upstream routes a request for a route it has bound to this
\* router back to it, also when it came from here.
Bounce(q) ==
  /\ q \in heard[Up] /\ dest[q] \in root
  /\ q \notin bounced                                                    \* bound
  /\ heard' = [heard EXCEPT ![Up] = @ \ {q}]
  /\ bounced' = bounced \cup {q}
  /\ PassOn(Up, [kind |-> "request", id |-> q, route |-> dest[q], source |-> None])
  /\ UNCHANGED <<fixed, linkVars, routeMap, rpcMap, sendVars, server, upBuf, rootVars,
                 asker, dest, said, got, ignored, canceled>>

\* The other end takes what the channel has for it.
Deliver(l) ==
  /\ toRemote[l] # << >> /\ l \notin hung
  /\ toRemote' = [toRemote EXCEPT ![l] = Tail(@)]
  /\ LET m == Head(toRemote[l])
     IN  /\ heard' = IF m.kind = "request" THEN [heard EXCEPT ![l] = @ \cup {m.id}] ELSE heard
         /\ got' = IF m.kind = "response" /\ m.n > 0
                   THEN [got EXCEPT ![m.id] = Append(@, m.n)] ELSE got
         /\ rootTasks' = IF m.kind \in {"announce", "unannounce"}
                         THEN rootTasks (+) SetToBag({m}) ELSE rootTasks
  /\ UNCHANGED <<fixed, linkVars, routeMap, rpcMap, backlog, worker, input, server, upBuf, root,
                 asker, dest, said, bounced, ignored, canceled>>
-----------------------------------------------------------------------------
(* runServer: look up where the message goes; send it, under the lock; then   *)
(* note, or forget, the request.                                              *)

\* Nothing is sent when to is None; then is what is left to do.
Serve(m, from, to, then) ==
  server' = IF to = None /\ then = "nothing" THEN None
            ELSE [msg |-> m, from |-> from, to |-> to, then |-> then]

RouteRequest(m, from) ==
  IF LinkFor(m.route) # None THEN Serve(m, from, LinkFor(m.route), "register")
  ELSE Serve(NoRoute(m.id), None, IF Known(from) THEN LinkFor(m.source) ELSE None, "nothing")

RouteCancel(m, from) ==
  Serve(m, from, IF rpcMap[m.id] = None THEN None ELSE LinkFor(rpcMap[m.id].dest), "nothing")

\* Where the responses to a request go.
Asked(q) == IF Known(rpcMap[q].from) THEN rpcMap[q].from ELSE None

Afterwards_Forget(m) == "forget"
Afterwards(m) == IF m.cont THEN "nothing" ELSE "forget"

RouteResponse(m, from) ==
  IF rpcMap[m.id] = None THEN server' = None ELSE Serve(m, from, Asked(m.id), Afterwards(m))

runServer ==
  /\ server = None /\ input # << >> /\ input' = Tail(input)
  /\ LET m == Head(input).msg
         from == Head(input).from
     IN  \/ m.kind = "request" /\ RouteRequest(m, from)
         \/ m.kind = "cancel" /\ RouteCancel(m, from)
         \/ m.kind = "response" /\ RouteResponse(m, from)
  /\ UNCHANGED <<fixed, linkVars, routeMap, rpcMap, sendVars, upBuf, rootVars, callVars>>

sendRpcMessageToLink ==
  /\ server # None /\ server.to # None
  /\ SendTo(server.to, server.msg)
  /\ server' = IF server.then = "nothing" THEN None ELSE [server EXCEPT !.to = None]
  /\ UNCHANGED <<fixed, linkVars, routeMap, rpcMap, input, upBuf, rootVars, callVars>>

registerRouteInfo ==
  /\ server # None /\ server.to = None /\ server.then = "register"
  /\ rpcMap' = [rpcMap EXCEPT ![server.msg.id] = [from |-> server.from, dest |-> server.msg.route]]
  /\ server' = None
  /\ UNCHANGED <<fixed, linkVars, routeMap, sendVars, input, upBuf, rootVars, callVars>>

unregisterRouteInfo ==
  /\ server # None /\ server.to = None /\ server.then = "forget"
  /\ rpcMap' = [rpcMap EXCEPT ![server.msg.id] = None]
  /\ server' = None
  /\ UNCHANGED <<fixed, linkVars, routeMap, sendVars, input, upBuf, rootVars, callVars>>
-----------------------------------------------------------------------------
Announcements == [kind : {"announce", "unannounce"}, route : Routes]

Next ==
  \/ Rest \/ Round \/ runUpstreamBufferLoop
  \/ runServer \/ sendRpcMessageToLink \/ registerRouteInfo \/ unregisterRouteInfo
  \/ \E m \in Announcements : HandleAnnouncement(m)
  \/ \E l \in Leaves :
       \/ RegisterUntrustedLink(l) \/ trustLink(l) \/ bindRouteLocally(l) \/ announceUpstream(l)
       \/ UnregisterLink(l) \/ DeleteLink(l)
       \/ \E r \in Routes : unbindRouteLocally(l, r) \/ unannounceUpstream(l, r)
  \/ \E l \in Links : Deliver(l)
  \/ \E q \in Requests : Bounce(q) \/ \E l \in Links :
       \/ Refuse(l, q) \/ Cancel(l, q)
       \/ \E d \in Dests : Ask(l, q, d)
       \/ \E cont \in BOOLEAN : Answer(l, q, cont)

Spec == Init /\ [][Next]_vars

(* The goroutines of the router, the handlers that have begun and the         *)
(* transports of open connections go on; nobody has to connect, ask, answer   *)
(* or hang up.                                                                *)
Fairness ==
  /\ WF_vars(Rest \/ Round) /\ WF_vars(runUpstreamBufferLoop) /\ WF_vars(runServer)
  /\ WF_vars(sendRpcMessageToLink) /\ WF_vars(registerRouteInfo \/ unregisterRouteInfo)
  /\ \A m \in Announcements : WF_vars(HandleAnnouncement(m))
  /\ \A l \in Leaves :
       /\ WF_vars(bindRouteLocally(l) \/ announceUpstream(l))
       /\ WF_vars(DeleteLink(l) \/ \E r \in Routes : unbindRouteLocally(l, r)
                                                   \/ unannounceUpstream(l, r))
  /\ \A l \in Links : WF_vars(Deliver(l))

FairSpec == Spec /\ Fairness
-----------------------------------------------------------------------------
(* Types. *)
TypeOK ==
  /\ wants \in [Leaves -> Routes] /\ upstream \in {Up, None}
  /\ link \in [Links -> {"new", "untrusted", "trusted", "gone"}]
  /\ source \in [Links -> Routes \cup {None}] /\ routeMap \in [Routes -> Leaves \cup {None}]
  /\ rpcMap \in [Requests -> RpcRoutingInfo \cup {None}]
  /\ toRemote \in [Links -> Seq(Message)] /\ backlog \in [Links -> Seq(Message)]
  /\ worker \in {"waiting", "awake"}
  /\ input \in Seq([msg : Message, from : Links])
  /\ server \in InHand \cup {None}
  /\ upBuf \in Seq(Announcements)
  /\ auth \in [Leaves -> {"idle", "bind", "announce", "done"}]
  /\ unreg \in [Leaves -> [at : {"no", "busy"}, unbind : SUBSET Routes,
                           unannounce : SUBSET Routes]]
  /\ hung \subseteq Leaves /\ root \subseteq Routes

(* What a link is given, through its channel and the backlog, stands in one   *)
(* queue: a message that would not fit does not get behind a later one that   *)
(* does, and nothing is lost of a link that is not gone                       *)
(* (sendRpcMessageToLink, addToBacklog_withlock, processOneBacklogRound).     *)
Queue(l) == toRemote[l] \o backlog[l]
Switch == INSTANCE LinkQueue WITH queue <- [l \in Links |-> Queue(l)],
                                  gone <- {l \in Links : link[l] = "gone"}
IsLinkQueue == Switch!Spec

(* A backlog goes out once its link reads again, or is forgotten once its     *)
(* link is gone, also when the link went while a message was on its way to it *)
(* (processBacklog sleeps until the first backlog is begun).                  *)
BacklogDrains == \A l \in Links : backlog[l] # << >> ~> backlog[l] = << >>

\* The responses to q among messages.
Answers(m, q) == m.kind = "response" /\ m.id = q /\ m.n > 0
Numbers(q, s) == {s[i].n : i \in {k \in DOMAIN s : Answers(s[k], q)}}
Ascending(q, s) ==
  \A i, j \in DOMAIN s : i < j /\ Answers(s[i], q) /\ Answers(s[j], q) => s[i].n < s[j].n

Inbox == [i \in 1 .. Len(input) |-> input[i].msg]

\* The requests outside exempt: their asker has the responses so far, or they are on their way.
AnswersReachAsker(exempt) ==
  \A q \in Requests \ exempt :
    LET a == asker[q]
        atServer == IF server # None /\ server.to = a THEN <<server.msg>> ELSE << >>
        way == Queue(a) \o atServer \o Inbox
    IN  a # None /\ Listening(a) =>
          /\ got[q] = [i \in 1 .. Len(got[q]) |-> i]
          /\ Numbers(q, way) = Len(got[q]) + 1 .. said[q] /\ Ascending(q, way)

(* The responses to a request go to the link it came in by, all of them and   *)
(* in order, whoever binds or unbinds routes meanwhile: as long as that link  *)
(* listens, the response was let in, and the router upstream did not send the *)
(* request back, which makes it the asker (registerRouteInfo).                *)
AnswersArrive == AnswersReachAsker(bounced \cup ignored)

(* The same of requests that the router upstream sent back. Not so: the link  *)
(* upstream is then noted as the asker, and sends the response back again,    *)
(* when the router has forgotten the request.                                 *)
BouncedIsAnswered == AnswersReachAsker(ignored)

(* A link loses its route to another that binds it, or as it leaves: the late *)
(* clean-up of a link that had the route before does not unbind it            *)
(* (unbindRouteLocally).                                                      *)
HolderKeeps ==
  [][\A r \in Routes : routeMap[r] # None /\ routeMap'[r] = None
                        => r \in unreg[routeMap[r]].unbind]_vars

(* A route that one link only ever wants is known upstream for good, once the *)
(* link has bound it and as long as it stays, though the announcement waits   *)
(* in upstreamBuf and in the backlog of the link upstream (announceUpstream). *)
BoundIsKnownUpstream ==
  \A l \in Leaves :
    <>[](/\ upstream = Up /\ l \notin hung /\ routeMap[wants[l]] = l
         /\ \A k \in Leaves \ {l} : wants[k] # wants[l]) => <>[](wants[l] \in root)

(* The same of a route that several links want. Not so: the one that had it   *)
(* before unannounces it as it leaves, although it is bound to another, and   *)
(* the handlers of announcements upstream may run in another order.           *)
HolderIsKnownUpstream ==
  \A l \in Leaves : <>[](upstream = Up /\ l \notin hung /\ routeMap[wants[l]] = l)
                     => <>[](wants[l] \in root)

(* "allow responses to RPCs we initiated" (wshrouter.go:583): a response from *)
(* a link that is not trusted yet, to a request it was given, is let in.      *)
AnswersAreAllowed == ignored = {}
=============================================================================
