--------------------------- MODULE ReqRespStreams ---------------------------
(***************************************************************************)
(* Requests and streamed responses between two nodes.  The requesting side *)
(* is EthLibp2p.sendRPCRequest with its callbacks in Zig, the request maps *)
(* of the Rust bridge and the outbound substreams of the connection        *)
(* handler; the serving side is the inbound substreams, the response       *)
(* channels and the Zig request handler.  A request stands for its id and  *)
(* for the substream opened for it.                                        *)
(*                                                                         *)
(* Each node has a bridge thread, which polls the connection handlers and  *)
(* the swarm and runs the Zig callbacks to their end.  Requests are sent   *)
(* from it, or from the event loop thread, in which case the bridge thread *)
(* may run between any two steps of sendRPCRequest.                        *)
(***************************************************************************)
EXTENDS FrameCodec

CONSTANTS
  Requests,    \* the request ids
  NoRequest,   \* no request id
  MaxBlocks,   \* bound on the responses to one request
  MaxLosses    \* bound on the number of times the connection is lost

ASSUME BlocksAssumption == MaxBlocks \in Nat \ {0} /\ MaxLosses \in Nat
ASSUME RequestAssumption == NoRequest \notin Requests

(* What a response stream carries: the responses 1..MaxBlocks, the frame of
   an error response, and the close of the stream. *)
Close == 0
ErrorFrame == MaxBlocks + 1
Blocks == 1..MaxBlocks

(* The two ends a callback can be told, apart from the responses. *)
Completed == MaxBlocks + 2
Failed == MaxBlocks + 3

VARIABLES
  sender,     \* sendRPCRequest on the event loop thread: where it is, and its id
  callbacks,  \* rpcCallbacks
  log,        \* what each callback has been told
  timers,     \* REQUEST_ID_MAP
  protocols,  \* REQUEST_PROTOCOL_MAP
  events,     \* ReqResp.events of the requesting node
  connected,  \* whether the two nodes have a connection
  losses,     \* how often it has been lost
  pending,    \* pending_outbound_streams
  outbound,   \* outbound_streams: none, opening, open or gone
  wire,       \* the frames written to a substream and not yet read
  inbound,    \* inbound_streams: state, queued actions, timeout armed
  served,     \* ReqResp.events of the serving node
  serving,    \* the Zig handler of a request: its id and the responses sent
  channels,   \* RESPONSE_CHANNEL_MAP
  sent        \* the number of responses the handler has sent to each request

zigVars == <<callbacks, log>>
bridgeVars == <<timers, protocols>>
clientVars == <<sender, zigVars, bridgeVars, events, pending, outbound>>
serverVars == <<inbound, served, serving, channels, sent>>
linkVars == <<connected, losses, wire>>
vars == <<clientVars, linkVars, serverVars>>

Event(kind, r, n) == [kind |-> kind, id |-> r, n |-> n]

NoStream == [state |-> "none", queue |-> <<>>, armed |-> FALSE]
OpenStream == [state |-> "open", queue |-> <<>>, armed |-> TRUE]
Idle == [id |-> NoRequest, step |-> "idle"]

Init ==
  /\ sender = Idle /\ serving = NoRequest
  /\ callbacks = {} /\ timers = {} /\ protocols = {} /\ channels = {}
  /\ log = [r \in Requests |-> <<>>]
  /\ events = <<>> /\ served = <<>> /\ pending = <<>>
  /\ connected = TRUE /\ losses = 0
  /\ outbound = [r \in Requests |-> "none"]
  /\ wire = [r \in Requests |-> <<>>]
  /\ inbound = [r \in Requests |-> NoStream]
  /\ sent = [r \in Requests |-> 0]

------------------------------------------------------------------------------
(* The requesting node: sending. *)

Fresh(r) == /\ r \notin callbacks /\ log[r] = <<>>
            /\ sender.id # r

(* sendRPCRequest called by a callback of the bridge thread: nothing else of
   that thread runs before the callback is registered. *)
SendOnBridge(r) ==
  /\ Fresh(r)
  /\ events' = Append(events, Event("Request", r, 0))
  /\ timers' = timers \union {r}
  /\ protocols' = protocols \union {r}
  /\ callbacks' = callbacks \union {r}
  /\ UNCHANGED <<sender, log, pending, outbound, linkVars, serverVars>>

(* The same called on the event loop thread, up to the registration. *)
SendOnLoop(r) ==
  /\ sender.step = "idle"
  /\ Fresh(r)
  /\ events' = Append(events, Event("Request", r, 0))
  /\ sender' = [id |-> r, step |-> "timer"]
  /\ UNCHANGED <<zigVars, bridgeVars, pending, outbound, linkVars, serverVars>>

InsertTimer ==
  /\ sender.step = "timer"
  /\ timers' = timers \union {sender.id}
  /\ sender' = [sender EXCEPT !.step = "protocol"]
  /\ UNCHANGED <<zigVars, protocols, events, pending, outbound, linkVars, serverVars>>

InsertProtocol ==
  /\ sender.step = "protocol"
  /\ protocols' = protocols \union {sender.id}
  /\ sender' = [sender EXCEPT !.step = "callback"]
  /\ UNCHANGED <<zigVars, timers, events, pending, outbound, linkVars, serverVars>>

RegisterCallback ==
  /\ sender.step = "callback"
  /\ callbacks' = callbacks \union {sender.id}
  /\ sender' = Idle
  /\ UNCHANGED <<log, bridgeVars, events, pending, outbound, linkVars, serverVars>>

------------------------------------------------------------------------------
(* The requesting node: the event loop of the bridge. *)

NextIs(queue, kind) == queue # <<>> /\ Head(queue).kind = kind

(* A request for a peer without a connection is dropped by the swarm. *)
DispatchRequest ==
  /\ NextIs(events, "Request")
  /\ events' = Tail(events)
  /\ pending' = IF connected THEN Append(pending, Head(events).id) ELSE pending
  /\ UNCHANGED <<sender, zigVars, bridgeVars, outbound, linkVars, serverVars>>

Tell(r, what) == log' = [log EXCEPT ![r] = Append(@, what)]

(* Variant: the callback is looked up, not removed. *)
EndCallbackKept(r, how) ==
  /\ UNCHANGED callbacks
  /\ IF r \in callbacks THEN Tell(r, how) ELSE UNCHANGED log

(* handleRPCErrorFromRustBridge, handleRPCEndOfStreamFromRustBridge: the
   callback is removed and told how the request ended; an unknown request is
   dropped. *)
EndCallback(r, how) ==
  /\ callbacks' = callbacks \ {r}
  /\ IF r \in callbacks THEN Tell(r, how) ELSE UNCHANGED log

(* The bridge forgets the request and, if it still had its protocol, ends the
   callback. *)
EndRequest(r, how) ==
  /\ timers' = timers \ {r}
  /\ protocols' = protocols \ {r}
  /\ IF r \in protocols THEN EndCallback(r, how) ELSE UNCHANGED zigVars

(* A response that cannot be decoded, or with a non-zero code, ends the
   callback; the bridge keeps tracking the request. *)
HandleResponse(r, n) ==
  \/ r \notin callbacks /\ UNCHANGED zigVars
  \/ r \in callbacks /\ n # ErrorFrame /\ Tell(r, n) /\ UNCHANGED callbacks
  \/ r \in callbacks /\ EndCallback(r, Failed)

(* Variant: the timer is removed by an answer instead of restarted. *)
OnResponseDisarms ==
  /\ NextIs(events, "Response")
  /\ events' = Tail(events)
  /\ timers' = timers \ {Head(events).id}
  /\ HandleResponse(Head(events).id, Head(events).n)
  /\ UNCHANGED <<sender, protocols, pending, outbound, linkVars, serverVars>>

OnResponse ==
  /\ NextIs(events, "Response")
  /\ events' = Tail(events)
  /\ timers' = timers \union {Head(events).id}
  /\ HandleResponse(Head(events).id, Head(events).n)
  /\ UNCHANGED <<sender, protocols, pending, outbound, linkVars, serverVars>>

OnEndOfStream ==
  /\ NextIs(events, "EndOfStream")
  /\ events' = Tail(events)
  /\ EndRequest(Head(events).id, Completed)
  /\ UNCHANGED <<sender, pending, outbound, linkVars, serverVars>>

OnOutboundError ==
  /\ NextIs(events, "Error")
  /\ events' = Tail(events)
  /\ EndRequest(Head(events).id, Failed)
  /\ UNCHANGED <<sender, pending, outbound, linkVars, serverVars>>

OnRequestTimeout(r) ==
  /\ r \in timers
  /\ EndRequest(r, Failed)
  /\ UNCHANGED <<sender, events, pending, outbound, linkVars, serverVars>>


------------------------------------------------------------------------------
(* The requesting node: outbound substreams of the connection handler. *)

Emit(e) == events' = Append(events, e)

(* poll() takes the newest pending request first. *)
OpenOutbound ==
  /\ pending # <<>>
  /\ pending' = Front(pending)
  /\ outbound' = [outbound EXCEPT ![Last(pending)] = "opening"]
  /\ UNCHANGED <<sender, zigVars, bridgeVars, events, linkVars, serverVars>>

on_fully_negotiated_outbound(r) ==
  /\ outbound[r] = "opening"
  /\ outbound' = [outbound EXCEPT ![r] = "open"]
  /\ UNCHANGED <<sender, zigVars, bridgeVars, events, pending, linkVars, serverVars>>

on_dial_upgrade_error(r) ==
  /\ outbound[r] = "opening"
  /\ outbound' = [outbound EXCEPT ![r] = "gone"]
  /\ wire' = [wire EXCEPT ![r] = <<>>]
  /\ Emit(Event("Error", r, 0))
  /\ UNCHANGED <<sender, zigVars, bridgeVars, pending, connected, losses, serverVars>>

ReadResponse(r) ==
  /\ outbound[r] = "open"
  /\ wire[r] # <<>> /\ Head(wire[r]) # Close
  /\ wire' = [wire EXCEPT ![r] = Tail(@)]
  /\ Emit(Event("Response", r, Head(wire[r])))
  /\ UNCHANGED <<sender, zigVars, bridgeVars, pending, outbound, connected, losses, serverVars>>

ReadEndOfStream(r) ==
  /\ outbound[r] = "open"
  /\ wire[r] # <<>> /\ Head(wire[r]) = Close
  /\ wire' = [wire EXCEPT ![r] = Tail(@)]
  /\ outbound' = [outbound EXCEPT ![r] = "gone"]
  /\ Emit(Event("EndOfStream", r, 0))
  /\ UNCHANGED <<sender, zigVars, bridgeVars, pending, connected, losses, serverVars>>

(* The stream times out, is reset, or a frame does not parse. *)
OutboundFails(r) ==
  /\ outbound[r] = "open"
  /\ outbound' = [outbound EXCEPT ![r] = "gone"]
  /\ wire' = [wire EXCEPT ![r] = <<>>]
  /\ Emit(Event("Error", r, 0))
  /\ UNCHANGED <<sender, zigVars, bridgeVars, pending, connected, losses, serverVars>>

------------------------------------------------------------------------------
(* The serving node: inbound substreams of the connection handler. *)

Serve(e) == served' = Append(served, e)

on_fully_negotiated_inbound(r) ==
  /\ outbound[r] \in {"opening", "open"}
  /\ inbound[r].state = "none"
  /\ inbound' = [inbound EXCEPT ![r] = OpenStream]
  /\ Serve(Event("Request", r, 0))
  /\ UNCHANGED <<clientVars, linkVars, serving, channels, sent>>

(* What is written after the reader has dropped its end goes nowhere. *)
WithFrame(r, m) ==
  IF outbound[r] \in {"opening", "open"} THEN [wire EXCEPT ![r] = Append(@, m)]
  ELSE wire

(* A dropped substream looks closed or reset to the reader. *)
Drop(r) == wire' \in {wire, WithFrame(r, Close)}

(* The layout of what the handler sends: a response has a snappy frame after the
   code and the length, the error response its message as it is. *)
Layout(m) ==
  IF m = ErrorFrame THEN Stream(1, encode_varint(CrcLen), FALSE, <<>>)
  ELSE Stream(1, encode_varint(1), TRUE, <<Chunk("data", CrcLen + 1, 1)>>)

PayloadLen(m) ==
  FrameStart(Layout(m))
    + IF m = ErrorFrame THEN CrcLen ELSE IdentifierLen + HeaderLen + CrcLen + 1

(* What can be written: the close, and the payloads InboundCodec.encode accepts. *)
Encodable == {Close} \union {m \in 1..ErrorFrame : InboundEncode(Layout(m), PayloadLen(m))}

(* One action of the queue is written: a response, or the close that removes
   the stream. *)
Write(r) ==
  /\ inbound[r].state = "open" /\ inbound[r].queue # <<>>
  /\ Head(inbound[r].queue) \in Encodable
  /\ wire' = WithFrame(r, Head(inbound[r].queue))
  /\ inbound' = [inbound EXCEPT ![r] =
       IF Head(@.queue) = Close THEN [NoStream EXCEPT !.state = "closed"]
       ELSE [@ EXCEPT !.queue = Tail(@), !.armed = TRUE]]
  /\ UNCHANGED <<clientVars, connected, losses, served, serving, channels, sent>>

(* The write is refused by the codec, or fails: the stream is dropped. *)
WriteFails(r) ==
  /\ inbound[r].state = "open" /\ inbound[r].queue # <<>>
  /\ Drop(r)
  /\ inbound' = [inbound EXCEPT ![r] = [NoStream EXCEPT !.state = "dropped"]]
  /\ Serve(Event("Error", r, 0))
  /\ UNCHANGED <<clientVars, connected, losses, serving, channels, sent>>

(* The timeout of an inbound stream is reported; the stream stays. *)
InboundTimeout(r) ==
  /\ inbound[r].state = "open" /\ inbound[r].armed
  /\ inbound' = [inbound EXCEPT ![r].armed = FALSE]
  /\ Serve(Event("Error", r, 0))
  /\ UNCHANGED <<clientVars, linkVars, serving, channels, sent>>

------------------------------------------------------------------------------
(* The serving node: the event loop of the bridge and the Zig handler, which
   runs on the same thread to its end. *)

BridgeFree == serving = NoRequest

OnRequest ==
  /\ BridgeFree /\ NextIs(served, "Request")
  /\ served' = Tail(served)
  /\ serving' = Head(served).id
  /\ channels' = channels \union {Head(served).id}
  /\ UNCHANGED <<clientVars, linkVars, inbound, sent>>

send_rpc_response_chunk(r, n) ==
  IF r \in channels THEN Serve(Event("Response", r, n)) ELSE UNCHANGED served

send_rpc_end_of_stream(r) ==
  /\ channels' = channels \ {r}
  /\ IF r \in channels THEN Serve(Event("CloseStream", r, Close)) ELSE UNCHANGED served

(* Variant: the channel stays in the map after an error response. *)
ErrorKeepsChannel(r) ==
  /\ UNCHANGED channels
  /\ IF r \in channels
     THEN served' = served \o << Event("Response", r, ErrorFrame),
                                 Event("CloseStream", r, Close) >>
     ELSE UNCHANGED served

send_rpc_error_response(r) ==
  /\ channels' = channels \ {r}
  /\ IF r \in channels
     THEN served' = served \o << Event("Response", r, ErrorFrame),
                                 Event("CloseStream", r, Close) >>
     ELSE UNCHANGED served

serverStreamSendResponse(r) ==
  /\ sent' = [sent EXCEPT ![r] = @ + 1]
  /\ send_rpc_response_chunk(r, sent[r] + 1)

(* onReqRespRequest answers with the blocks it finds, one by one. *)
SendResponse ==
  /\ ~ BridgeFree /\ sent[serving] < MaxBlocks
  /\ serverStreamSendResponse(serving)
  /\ UNCHANGED <<clientVars, linkVars, inbound, serving, channels>>

(* Variant: the stream is marked finished without an end of stream. *)
FinishSilently ==
  /\ ~ BridgeFree
  /\ channels' = channels \ {serving}
  /\ serving' = NoRequest
  /\ UNCHANGED <<clientVars, linkVars, inbound, served, sent>>

(* The handler returns: serverStreamFinish, or the finish after it. *)
FinishHandler ==
  /\ ~ BridgeFree
  /\ send_rpc_end_of_stream(serving)
  /\ serving' = NoRequest
  /\ UNCHANGED <<clientVars, linkVars, inbound, sent>>

(* The request does not parse, or the handler fails: an error response. *)
FailHandler ==
  /\ ~ BridgeFree
  /\ send_rpc_error_response(serving)
  /\ serving' = NoRequest
  /\ UNCHANGED <<clientVars, linkVars, inbound, sent>>

(* Variant: actions are pushed to the front of the queue. *)
DispatchToFront ==
  /\ BridgeFree
  /\ NextIs(served, "Response") \/ NextIs(served, "CloseStream")
  /\ served' = Tail(served)
  /\ LET r == Head(served).id IN
     inbound' = IF inbound[r].state = "open"
                THEN [inbound EXCEPT ![r].queue = <<Head(served).n>> \o @]
                ELSE inbound
  /\ UNCHANGED <<clientVars, linkVars, serving, channels, sent>>

(* ConnectionRequest::Response and CloseStream reach the handler of the
   connection, or are dropped with it. *)
DispatchResponse ==
  /\ BridgeFree
  /\ NextIs(served, "Response") \/ NextIs(served, "CloseStream")
  /\ served' = Tail(served)
  /\ LET r == Head(served).id IN
     inbound' = IF inbound[r].state = "open"
                THEN [inbound EXCEPT ![r].queue = Append(@, Head(served).n)]
                ELSE inbound
  /\ UNCHANGED <<clientVars, linkVars, serving, channels, sent>>

OnInboundError ==
  /\ BridgeFree /\ NextIs(served, "Error")
  /\ served' = Tail(served)
  /\ channels' = channels \ {Head(served).id}
  /\ UNCHANGED <<clientVars, linkVars, inbound, serving, sent>>

------------------------------------------------------------------------------
(* The connection closes: the handlers of both sides are dropped with their
   streams, without an event for any of them. *)
ConnectionClosed ==
  /\ connected /\ BridgeFree /\ losses < MaxLosses
  /\ connected' = FALSE /\ losses' = losses + 1
  /\ pending' = <<>>
  /\ outbound' = [r \in Requests |->
       IF outbound[r] \in {"opening", "open"} THEN "gone" ELSE outbound[r]]
  /\ inbound' = [r \in Requests |->
       IF inbound[r].state = "open" THEN [NoStream EXCEPT !.state = "dropped"]
       ELSE inbound[r]]
  /\ wire' = [r \in Requests |-> <<>>]
  /\ channels' = {}
  /\ UNCHANGED <<sender, zigVars, bridgeVars, events, served, serving, sent>>

ConnectionEstablished ==
  /\ ~ connected
  /\ connected' = TRUE
  /\ UNCHANGED <<clientVars, losses, wire, serverVars>>

Client == \/ InsertTimer \/ InsertProtocol \/ RegisterCallback
          \/ DispatchRequest \/ OnResponse \/ OnEndOfStream \/ OnOutboundError
          \/ OpenOutbound
Server == \/ OnRequest \/ SendResponse \/ FinishHandler \/ FailHandler
          \/ DispatchResponse \/ OnInboundError
Streams(r) == \/ SendOnBridge(r) \/ SendOnLoop(r) \/ OnRequestTimeout(r)
              \/ on_fully_negotiated_outbound(r) \/ on_dial_upgrade_error(r)
              \/ ReadResponse(r) \/ ReadEndOfStream(r) \/ OutboundFails(r)
              \/ on_fully_negotiated_inbound(r)
              \/ Write(r) \/ WriteFails(r) \/ InboundTimeout(r)

Next == \/ Client \/ Server \/ ConnectionClosed \/ ConnectionEstablished
        \/ \E r \in Requests : Streams(r)

Spec == Init /\ [][Next]_vars

(* The bridge threads keep polling: armed timers fire, events are handled and a
   handler that runs ends. Nothing is assumed of a write, which stays pending as
   long as the peer does not read. *)
FairSpec ==
  /\ Spec
  /\ WF_vars(Client)
  /\ WF_vars(OnRequest \/ FinishHandler \/ FailHandler
             \/ DispatchResponse \/ OnInboundError)
  /\ \A r \in Requests : WF_vars(OnRequestTimeout(r))

------------------------------------------------------------------------------
(* A callback is told of responses in order and without gaps, then of one
   end, and of nothing after it: the request maps of the bridge, its timers
   and the callbacks of EthLibp2p implement RequestLifecycle. *)
Lifecycle == INSTANCE RequestLifecycle WITH open <- callbacks
Implements == Lifecycle!Spec

(* A completed request whose stream the server closed itself has delivered
   every response the handler sent (handleRPCEndOfStreamFromRustBridge), from
   the first one after the registration of the callback. *)
CompletedMeansAll ==
  \A r \in Requests :
    log[r] # <<>> /\ Last(log[r]) = Completed /\ inbound[r].state = "closed"
      => \E late \in 0..sent[r] :
           log[r] = [n \in 1..(sent[r] - late) |-> late + n] \o <<Completed>>

(* A response channel lives only while its Zig handler runs, so its idle
   timeout never has anything to close (handleRPCRequestFromRustBridge). *)
NoChannelOutlivesHandler == BridgeFree => channels = {}

(* A callback registered while the bridge still tracks its request is told an
   end, by an answer or by the timer. (A request sent from the event loop can end
   before its callback is registered; that callback is never told.) *)
RequestsEnd ==
  \A r \in Requests :
    (r \in callbacks /\ r \in timers /\ r \in protocols) ~> r \notin callbacks

(* Every substream the serving node accepts is removed or gets its close queued,
   also when its timeout is reported before its request is handled: the bridge and
   the Zig handler never leave a stream with nothing more to come. (How long the
   queue then takes is up to the peer: there is no write timeout.) *)
StreamsGetClose ==
  \A r \in Requests :
    inbound[r].state = "open" ~> inbound[r].state # "open" \/ Contains(inbound[r].queue, Close)
==============================================================================
