-------------------------------- MODULE WshRpc --------------------------------
(* The calling half of an RPC endpoint (pkg/wshutil/wshrpc.go): goroutines    *)
(* register requests and send them on OutputCh, the server goroutine takes   *)
(* responses from InputCh to the channel of their request, and a goroutine   *)
(* for each request tells it, on CtxDoneCh, that the request's context is    *)
(* over.  A stream's caller is the goroutine of wshclient's                  *)
(* sendRpcRequestResponseStreamHelper.                                       *)
(*                                                                           *)
(* The handlers of requests that come in are not modelled, nor are responses  *)
(* that carry an error.                                                      *)
EXTENDS Naturals, Sequences, FiniteSets

CONSTANTS Calls,              \* SendRpcRequest: one response
          Streams,            \* SendComplexRequest: responses until the last
          Commands,           \* SendCommand: none
          NoId,               \* the request id ""
          OutputChSize, InputChSize, CtxDoneChSize, RespChSize,
          MaxResponses,       \* bound: responses to a stream
          MayCancel,          \* the callers of streams may cancel them
          MayClose            \* InputCh may be closed

Requests == Calls \cup Streams \cup Commands

ASSUME RpcAssumption ==
  /\ Calls \cap Streams = {} /\ Commands \cap (Calls \cup Streams) = {}
  /\ NoId \notin Requests
  /\ {OutputChSize, InputChSize, CtxDoneChSize, RespChSize, MaxResponses} \subseteq Nat \ {0}
  /\ MayCancel \in BOOLEAN /\ MayClose \in BOOLEAN

VARIABLES
  outputCh, outputClosed,     \* ids of the requests in OutputCh
  inputCh, inputClosed,       \* [id, cont]: responses in InputCh
  ctxDoneCh, serverDone,
  rpcMap,                     \* the requests in RpcMap, one at most for an id
  respCh, respClosed,         \* each request's ResCh, and those closed
  expired, cancelled,         \* contexts that timed out, that were cancelled
  watching,                   \* requests whose registerRpc goroutine runs
  server,                     \* where runServer is
  held,                       \* the response it delivers, and to whose ResCh
  caller, result,             \* where each caller is, and what it returned
  finalizer,                  \* where handler.finalize is
  (* history, and the peer *)
  sent,                       \* requests the peer has
  answers, answered,          \* responses it gave; requests it gave the last to
  got,                        \* responses each caller has taken
  failed                      \* requests the server gave up on

channels == <<outputCh, outputClosed, inputCh, inputClosed, ctxDoneCh>>
table == <<rpcMap, respCh, respClosed, cancelled>>
loop == <<serverDone, server, held, failed>>
callers == <<caller, result, finalizer, got>>
peer == <<sent, answers, answered>>
vars == <<channels, table, loop, callers, peer, expired, watching>>

Id_Same(r) == NoId
Id(r) == IF r \in Commands THEN NoId ELSE r
CtxDone(r) == r \in expired \cup cancelled
Entry(id) == {r \in rpcMap : Id(r) = id}
Room(r) == Len(respCh[r]) < RespChSize
Empty == [id |-> NoId, cont |-> FALSE, to |-> {}]

Init ==
  /\ outputCh = << >> /\ outputClosed = FALSE /\ inputCh = << >> /\ inputClosed = FALSE
  /\ ctxDoneCh = << >> /\ serverDone = FALSE
  /\ rpcMap = {} /\ respCh = [r \in Requests |-> << >>] /\ respClosed = {}
  /\ expired = {} /\ cancelled = {} /\ watching = {}
  /\ server = "selecting" /\ held = Empty
  /\ caller = [r \in Requests |-> "idle"] /\ result = [r \in Requests |-> "none"]
  /\ finalizer = [r \in Requests |-> "none"]
  /\ sent = {} /\ answers = [r \in Requests |-> 0] /\ answered = {}
  /\ got = [r \in Requests |-> 0] /\ failed = {}
-----------------------------------------------------------------------------
\* unregisterRpc, under the lock.  Its error is sent if the channel has room.
Unregister(id, err) ==
  /\ rpcMap' = rpcMap \ Entry(id)
  /\ respCh' = [r \in Requests |->
                  IF r \in Entry(id) /\ err /\ Room(r)
                  THEN Append(respCh[r], "timeout") ELSE respCh[r]]
  /\ respClosed' = respClosed \cup Entry(id)
  /\ cancelled' = cancelled \cup Entry(id)

Return(r, what) ==
  /\ caller' = [caller EXCEPT ![r] = "returned"]
  /\ result' = [result EXCEPT ![r] = what]

StartFinalizer(r) == finalizer' = [finalizer EXCEPT ![r] = "cancelling"]
-----------------------------------------------------------------------------
(* SendComplexRequest *)

Check(r) ==
  /\ caller[r] = "idle"
  /\ IF serverDone THEN Return(r, "refused")
     ELSE caller' = [caller EXCEPT ![r] = "checked"] /\ UNCHANGED result
  /\ UNCHANGED <<channels, table, loop, finalizer, got, peer, expired, watching>>

\* registerRpc takes the place of what has the same id.
Register(r) ==
  /\ caller[r] = "checked" /\ caller' = [caller EXCEPT ![r] = "sending"]
  /\ rpcMap' = (rpcMap \ Entry(Id(r))) \cup {r}
  /\ watching' = watching \cup {r}
  /\ UNCHANGED <<channels, respCh, respClosed, cancelled, loop, result, finalizer, got, peer,
                 expired>>

SendRequest(r) ==
  /\ caller[r] = "sending" /\ ~outputClosed /\ Len(outputCh) < OutputChSize
  /\ outputCh' = Append(outputCh, Id(r))
  /\ IF r \in Commands
     THEN Return(r, "sent") /\ StartFinalizer(r)
     ELSE /\ caller' = [caller EXCEPT ![r] = IF r \in Calls THEN "receiving" ELSE "polling"]
          /\ UNCHANGED <<result, finalizer>>
  /\ UNCHANGED <<outputClosed, inputCh, inputClosed, ctxDoneCh, table, loop, got, peer, expired,
                 watching>>

SendTimesOut(r) ==
  /\ caller[r] = "sending" /\ CtxDone(r)
  /\ Return(r, "send timeout") /\ StartFinalizer(r)
  /\ UNCHANGED <<channels, table, loop, got, peer, expired, watching>>

\* A send on the closed channel panics.  PanicHandler recovers, and
\* SendComplexRequest returns no handler and no error.
SendPanics(r) ==
  /\ caller[r] = "sending" /\ outputClosed
  /\ Return(r, "nothing")
  /\ UNCHANGED <<channels, table, loop, finalizer, got, peer, expired, watching>>

(* RpcRequestHandler *)

\* NextResponse, at once for a response that ResponseDone has cached.
TakeResponse(r) ==
  /\ caller[r] \in {"receiving", "polling"} /\ respCh[r] # << >>
  /\ respCh' = [respCh EXCEPT ![r] = Tail(@)]
  /\ IF Head(respCh[r]) = "timeout"
     THEN Return(r, "timeout") /\ UNCHANGED got
     ELSE /\ got' = [got EXCEPT ![r] = @ + 1]
          /\ IF r \in Calls THEN Return(r, "response")
             ELSE caller' = [caller EXCEPT ![r] = "polling"] /\ UNCHANGED result
  /\ IF r \in Calls THEN StartFinalizer(r) ELSE UNCHANGED finalizer
  /\ UNCHANGED <<channels, rpcMap, respClosed, cancelled, loop, peer, expired, watching>>

\* ResponseDone sees neither a response nor the end.
PollNothing(r) ==
  /\ caller[r] = "polling" /\ respCh[r] = << >> /\ r \notin respClosed
  /\ caller' = [caller EXCEPT ![r] = "receiving"]
  /\ UNCHANGED <<channels, table, loop, result, finalizer, got, peer, expired, watching>>

\* The channel is closed: the end of a stream for ResponseDone, an error for
\* NextResponse.
TakeClosed(r) ==
  /\ caller[r] \in {"receiving", "polling"} /\ respCh[r] = << >> /\ r \in respClosed
  /\ Return(r, IF caller[r] = "polling" THEN "ended" ELSE "closed")
  /\ IF r \in Calls THEN StartFinalizer(r) ELSE UNCHANGED finalizer
  /\ UNCHANGED <<channels, table, loop, got, peer, expired, watching>>

\* SendCancel, by another goroutine than the stream's.  The send on a channel
\* that is closed panics, and is recovered before finalize: a step that changes
\* nothing.  What else there is, then and while there is no room, is the end of
\* the cancel's own context, after which it finalizes too.
Cancel(r) ==
  /\ MayCancel /\ r \in Streams /\ finalizer[r] = "none"
  /\ caller[r] \in {"receiving", "polling", "returned"}
  /\ result[r] \notin {"refused", "nothing"}
  /\ \/ ~outputClosed /\ Len(outputCh) < OutputChSize /\ outputCh' = Append(outputCh, NoId)
     \/ UNCHANGED outputCh
  /\ StartFinalizer(r)
  /\ UNCHANGED <<outputClosed, inputCh, inputClosed, ctxDoneCh, table, loop, caller, result, got,
                 peer, expired, watching>>

FinalizeContext(r) ==
  /\ finalizer[r] = "cancelling" /\ finalizer' = [finalizer EXCEPT ![r] = "unregistering"]
  /\ cancelled' = cancelled \cup {r}
  /\ UNCHANGED <<channels, rpcMap, respCh, respClosed, loop, caller, result, got, peer, expired,
                 watching>>

FinalizeEntry_Later(r) ==
  /\ finalizer[r] = "unregistering" /\ finalizer' = [finalizer EXCEPT ![r] = "over"]
  /\ UNCHANGED <<channels, table, loop, caller, result, got, peer, expired, watching>>
FinalizeEntry(r) ==
  /\ finalizer[r] = "unregistering" /\ finalizer' = [finalizer EXCEPT ![r] = "over"]
  /\ IF Id(r) # NoId THEN Unregister(Id(r), FALSE) ELSE UNCHANGED table
  /\ UNCHANGED <<channels, loop, caller, result, got, peer, expired, watching>>

(* the contexts *)

Expire(r) ==
  /\ caller[r] \notin {"idle", "checked"} /\ result[r] # "refused" /\ ~CtxDone(r)
  /\ expired' = expired \cup {r}
  /\ UNCHANGED <<channels, table, loop, callers, peer, watching>>

\* The goroutine of registerRpc, with retrySendTimeout.
Watch_Unregisters(r) ==
  /\ r \in watching /\ CtxDone(r) /\ watching' = watching \ {r}
  /\ Unregister(Id(r), TRUE)
  /\ UNCHANGED <<channels, loop, callers, peer, expired>>
Watch(r) ==
  /\ r \in watching /\ CtxDone(r) /\ watching' = watching \ {r}
  /\ \/ serverDone /\ UNCHANGED ctxDoneCh
     \/ /\ ~serverDone /\ Len(ctxDoneCh) < CtxDoneChSize
        /\ ctxDoneCh' = Append(ctxDoneCh, Id(r))
  /\ UNCHANGED <<outputCh, outputClosed, inputCh, inputClosed, table, loop, callers, peer, expired>>
-----------------------------------------------------------------------------
(* runServer *)

ServerTimeout ==
  /\ server = "selecting" /\ ctxDoneCh # << >>
  /\ ctxDoneCh' = Tail(ctxDoneCh) /\ Unregister(Head(ctxDoneCh), TRUE)
  /\ UNCHANGED <<outputCh, outputClosed, inputCh, inputClosed, loop, callers, peer, expired, watching>>

\* getResponseCh: the channel is used after the lock is released.
ServerResponse ==
  /\ server = "selecting" /\ inputCh # << >>
  /\ inputCh' = Tail(inputCh)
  /\ LET m == Head(inputCh) IN
     IF Entry(m.id) = {} THEN UNCHANGED <<server, held>>
     ELSE /\ server' = "delivering"
          /\ held' = [id |-> m.id, cont |-> m.cont, to |-> Entry(m.id)]
  /\ UNCHANGED <<outputCh, outputClosed, inputClosed, ctxDoneCh, table, serverDone, failed, callers,
                 peer, expired, watching>>

Deliver ==
  /\ server \in {"delivering", "blocking"} /\ held.to \cap respClosed = {}
  /\ \E r \in held.to :
       /\ Room(r)
       /\ respCh' = [respCh EXCEPT ![r] = Append(@, "data")]
  /\ server' = "delivered"
  /\ UNCHANGED <<channels, rpcMap, respClosed, cancelled, serverDone, held, failed, callers, peer,
                 expired, watching>>

DeliverBlocks ==
  /\ server = "delivering" /\ held.to \cap respClosed = {}
  /\ \A r \in held.to : ~Room(r)
  /\ server' = "blocking"
  /\ UNCHANGED <<channels, table, serverDone, held, failed, callers, peer, expired, watching>>

\* After one second.
GiveUp ==
  /\ server = "blocking" /\ held.to \cap respClosed = {}
  /\ \A r \in held.to : ~Room(r)
  /\ server' = "delivered" /\ Unregister(held.id, FALSE)
  /\ failed' = failed \cup held.to
  /\ UNCHANGED <<channels, serverDone, held, callers, peer, expired, watching>>

\* A send on a closed channel panics, and the panic ends the server.
DeliverPanics ==
  /\ server \in {"delivering", "blocking"} /\ held.to \cap respClosed # {}
  /\ server' = "ending"
  /\ UNCHANGED <<channels, table, serverDone, held, failed, callers, peer, expired, watching>>

IsLast_Any(m) == TRUE
IsLast(m) == ~m.cont

ServerNext ==
  /\ server = "delivered" /\ server' = "selecting" /\ held' = Empty
  /\ IF IsLast(held) THEN Unregister(held.id, FALSE) ELSE UNCHANGED table
  /\ UNCHANGED <<channels, serverDone, failed, callers, peer, expired, watching>>

ServerEnds ==
  /\ server = "selecting" /\ inputClosed /\ inputCh = << >> /\ server' = "ending"
  /\ UNCHANGED <<channels, table, serverDone, held, failed, callers, peer, expired, watching>>

CloseOutput ==
  /\ server = "ending" /\ ~outputClosed /\ outputClosed' = TRUE
  /\ UNCHANGED <<outputCh, inputCh, inputClosed, ctxDoneCh, table, loop, callers, peer, expired,
                 watching>>

\* setServerDone.  What InputCh holds is drained.
SetServerDone ==
  /\ server = "ending" /\ outputClosed
  /\ server' = "done" /\ serverDone' = TRUE /\ inputCh' = << >>
  /\ UNCHANGED <<outputCh, outputClosed, inputClosed, ctxDoneCh, table, held, failed, callers, peer,
                 expired, watching>>

Server == \/ ServerTimeout \/ ServerResponse \/ ServerNext \/ ServerEnds
          \/ Deliver \/ DeliverBlocks \/ GiveUp \/ DeliverPanics
          \/ CloseOutput \/ SetServerDone
-----------------------------------------------------------------------------
(* the transport and the peer *)

Transmit ==
  /\ outputCh # << >> /\ outputCh' = Tail(outputCh)
  /\ sent' = sent \cup ({Head(outputCh)} \ {NoId})
  /\ UNCHANGED <<outputClosed, inputCh, inputClosed, ctxDoneCh, table, loop, callers, answers,
                 answered, expired, watching>>

Respond(r, cont) ==
  /\ r \in sent \ answered /\ ~inputClosed /\ ~serverDone /\ Len(inputCh) < InputChSize
  /\ cont => r \in Streams /\ answers[r] + 1 < MaxResponses
  /\ inputCh' = Append(inputCh, [id |-> r, cont |-> cont])
  /\ answers' = [answers EXCEPT ![r] = @ + 1]
  /\ answered' = IF cont THEN answered ELSE answered \cup {r}
  /\ UNCHANGED <<outputCh, outputClosed, inputClosed, ctxDoneCh, table, loop, callers, sent, expired,
                 watching>>

CloseInput ==
  /\ MayClose /\ ~inputClosed /\ inputClosed' = TRUE
  /\ UNCHANGED <<outputCh, outputClosed, inputCh, ctxDoneCh, table, loop, callers, peer, expired,
                 watching>>
-----------------------------------------------------------------------------
Caller(r) == \/ Check(r) \/ Register(r) \/ SendRequest(r) \/ SendTimesOut(r) \/ SendPanics(r)
             \/ TakeResponse(r) \/ PollNothing(r) \/ TakeClosed(r)
Finalizer(r) == FinalizeContext(r) \/ FinalizeEntry(r)

Next == \/ \E r \in Requests : Caller(r) \/ Finalizer(r) \/ Cancel(r) \/ Expire(r) \/ Watch(r)
        \/ Server
        \/ Transmit
        \/ \E r \in Calls \cup Streams, cont \in BOOLEAN : Respond(r, cont)
        \/ CloseInput

Spec == Init /\ [][Next]_vars

\* Goroutines run, and contexts end.  The peer need not answer, nor the
\* transport take what is sent.
FairSpec ==
  /\ Spec /\ WF_vars(Server)
  /\ \A r \in Requests : /\ WF_vars(Caller(r)) /\ WF_vars(Finalizer(r))
                         /\ WF_vars(Expire(r)) /\ WF_vars(Watch(r))
-----------------------------------------------------------------------------
Ids == (Calls \cup Streams) \cup {NoId}
Responses == [id : Ids, cont : BOOLEAN]
Results == {"none", "refused", "sent", "send timeout", "nothing", "response", "timeout", "ended",
            "closed"}

\* The types, and the capacities of the channels.
TypeOK ==
  /\ outputCh \in Seq(Ids) /\ Len(outputCh) <= OutputChSize
  /\ inputCh \in Seq(Responses) /\ Len(inputCh) <= InputChSize
  /\ ctxDoneCh \in Seq(Ids) /\ Len(ctxDoneCh) <= CtxDoneChSize
  /\ {outputClosed, inputClosed, serverDone} \subseteq BOOLEAN
  /\ rpcMap \subseteq Requests /\ \A id \in Ids : Cardinality(Entry(id)) <= 1
  /\ respCh \in [Requests -> Seq({"data", "timeout"})]
  /\ \A r \in Requests : Len(respCh[r]) <= RespChSize
  /\ respClosed \cup expired \cup cancelled \cup watching \cup failed \subseteq Requests
  /\ server \in {"selecting", "delivering", "blocking", "delivered", "ending", "done"}
  /\ held \in [id : Ids, cont : BOOLEAN, to : SUBSET Requests]
  /\ caller \in [Requests -> {"idle", "checked", "sending", "receiving", "polling", "returned"}]
  /\ result \in [Requests -> Results]
  /\ finalizer \in [Requests -> {"none", "cancelling", "unregistering", "over"}]
  /\ sent \cup answered \subseteq Requests
  /\ answers \in [Requests -> Nat] /\ got \in [Requests -> Nat]

\* OutputCh is closed when InputCh is closed, and not before: nothing else ends
\* the server goroutine.
OutputClosesWithInput == outputClosed => inputClosed

\* A call or a stream fails for want of time only when its own time is over, or
\* when its caller has cancelled it.
TimeoutIsOwn == \A r \in Calls \cup Streams :
  result[r] \in {"timeout", "send timeout"} =>
    \/ r \in expired
    \/ r \in Streams /\ result[r] = "timeout" /\ finalizer[r] # "none"

\* So does a command.
CommandsTimeIsOwn == \A r \in Commands : result[r] = "send timeout" => r \in expired

\* A stream that came to its end, with nothing gone wrong, is whole.
Whole(r) == r \in answered /\ got[r] = answers[r]
EndIsWhole == \A r \in Streams :
  result[r] = "ended" /\ r \notin failed \cup expired /\ finalizer[r] = "none" => Whole(r)

\* A stream that the server gave up on does not look complete to its caller.
FailedIsNoticed == \A r \in Streams : r \in failed /\ result[r] = "ended" => Whole(r)

\* A caller that has seen the end, or has cleaned up, has left nothing in RpcMap.
ReturnedIsForgotten == \A r \in Calls \cup Streams :
  \/ result[r] \in {"ended", "closed"}
  \/ finalizer[r] = "over"
  => r \notin rpcMap

\* A request gets a handler, or an error.
RequestIsAnswered == \A r \in Requests : result[r] # "nothing"


\* It does so on an endpoint that has ended too.
CallsReturnAtTheEnd == \A r \in Requests : caller[r] # "idle" ~> caller[r] = "returned"
=============================================================================
