------------------------------ MODULE MCServer ------------------------------
(***************************************************************************)
(* The parts of a server's connections, instances of the components side   *)
(* by side.  They share no state in the program; a behaviour is one of one *)
(* part, which the initial state chooses, and each property is about one   *)
(* part.  A variable that two parts name is the running part's.            *)
(***************************************************************************)
EXTENDS Integers, Sequences

VARIABLES part,
    (* ServerStream; pc and received also of HttpAdapter *)
    stream, produced, taken, ended, cancelled, pc, writer, item, received, gone,
    buffered, status, watcher, stop,
    (* HttpAdapter; sent and wire also of SseChannel *)
    mode, sent, wire, client, raw, head, refused, handled, answers, payload,
    (* SseChannel *)
    pos, line_buffer_, current_event_, current_data_, events, state,
    (* TransportMux *)
    routes, captured, miss, call, answer, served

CONSTANT Off  \* of a variable no running part has

-----------------------------------------------------------------------------
(* Streams of every binding, operation, kind of session and build of the   *)
(* watcher.                                                                *)
Streams ==
    [binding : {"jsonrpc", "rest", "grpc"}, op : {"send", "subscribe"}, live : BOOLEAN,
     timed : BOOLEAN, jthread : BOOLEAN]

Stream == INSTANCE ServerStream WITH MaxEvents <- 3, MaxBuffered <- 2

streamVars == <<stream, produced, taken, ended, cancelled, writer, item, gone, buffered, status, watcher, stop>>
StreamOff ==
    /\ stream = Off /\ produced = Off /\ taken = Off /\ ended = Off /\ cancelled = Off /\ writer = Off
    /\ item = Off /\ gone = Off /\ buffered = Off /\ status = Off /\ watcher = Off /\ stop = Off

-----------------------------------------------------------------------------
(* One connection with two requests: a request without a body, one whose   *)
(* body looks like the end of a head, one that asks to close in the first  *)
(* of two Connection headers, one of the largest size, one a token larger, *)
(* one with two lengths and one with an unsupported version.               *)
Header(name, value) == [name |-> name, value |-> value]
Request(headers, body) == [line |-> "ok", headers |-> headers, body |-> body]
HttpRequests == {
    Request(<<Header("other", 0)>>, <<>>),
    Request(<<Header("length", 2)>>, <<"crlf", "crlf">>),
    Request(<<Header("connection", {"close"}), Header("connection", {"keep-alive"})>>, <<>>),
    Request(<<Header("length", 4)>>, <<"byte", "byte", "byte", "byte">>),
    Request(<<Header("length", 5)>>, <<"byte", "byte", "byte", "byte", "byte">>),
    Request(<<Header("length", 1), Header("length", 2)>>, <<"byte", "byte">>),
    [line |-> "version", headers |-> <<Header("other", 0)>>, body |-> <<>>]}

NoLength == -1
Response(connection, length, body, streaming) ==
    [connection |-> connection, length |-> length, encoding |-> FALSE, body |-> body, streaming |-> streaming]
HttpResponses == {
    Response({}, 2, 2, FALSE),
    Response({"close"}, NoLength, 0, FALSE),
    Response({"keep-alive"}, 2, 1, FALSE),
    Response({"keep-alive"}, NoLength, 0, TRUE)}

Adapter == INSTANCE HttpAdapter WITH
    Requests <- HttpRequests, Responses <- HttpResponses, MaxRequests <- 2, MaxEvents <- 1,
    max_request_size <- 9, read_buffer_size <- 5

adapterVars == <<mode, client, raw, head, refused, handled, answers, payload>>
AdapterOff ==
    /\ mode = Off /\ client = Off /\ raw = Off /\ head = Off /\ refused = Off /\ handled = Off
    /\ answers = Off /\ payload = Off

-----------------------------------------------------------------------------
(* Up to three frames of every kind, read in chunks of every size.         *)
Channel == INSTANCE SseChannel WITH
    Frames <- {"event", "error", "heartbeat", "crlf", "retry", "lines", "bare", "unknown"}, MaxFrames <- 3

channelVars == <<pos, line_buffer_, current_event_, current_data_, events, state>>
ChannelOff ==
    /\ pos = Off /\ line_buffer_ = Off /\ current_event_ = Off /\ current_data_ = Off /\ events = Off /\ state = Off

-----------------------------------------------------------------------------
(* The two transports with their default priorities, a third of REST's     *)
(* priority and a fourth above it, and targets with each of the forms the  *)
(* normalisation tells apart.                                              *)
Routes == {
    [name |-> "jsonrpc", priority |-> 100, path |-> <<>>],
    [name |-> "rest", priority |-> 10, path |-> <<>>],
    [name |-> "shadow", priority |-> 10, path |-> <<"/", "a2a", "/", "x">>],
    [name |-> "override", priority |-> 50, path |-> <<"/", "a2a", "/", "x">>]}
MuxRequests ==
    {[method |-> m, target |-> t] : m \in {"GET", "POST"},
     t \in {<<>>, <<"rpc", "/", "/">>, <<"/", "rpc", "?", "q">>, <<"/", "a2a", "/", "x", "/", "/">>, <<"/", "a2a", "x">>,
            <<"/", "t", "/", "extendedAgentCard", "?", "q", "?", "q">>, <<"/", "t", "/", "u", "/", "extendedAgentCard">>,
            <<"/", "health">>, <<"?", "q">>}}

Mux == INSTANCE TransportMux WITH
    Threads <- {"t1"}, Objects <- {"m1", "m2"}, First <- "m1", Policy <- "root to default path",
    DefaultPath <- <<"/", "rpc">>, Registrable <- Routes, Requests <- MuxRequests, MaxRequests <- 1

muxVars == <<routes, captured, miss, call, answer, served>>
MuxOff == routes = Off /\ captured = Off /\ miss = Off /\ call = Off /\ answer = Off /\ served = Off

-----------------------------------------------------------------------------
(* What the components assume of their constants. *)
ASSUME
    /\ Stream!BoundsAssumption /\ Adapter!HttpAdapterAssumption /\ Channel!FramesAssumption
    /\ Mux!MuxAssumption

vars == <<part, streamVars, pc, received, adapterVars, sent, wire, channelVars, muxVars>>

Init ==
    \/ part = "stream" /\ Stream!Init /\ AdapterOff /\ sent = Off /\ wire = Off /\ ChannelOff /\ MuxOff
    \/ part = "adapter" /\ Adapter!Init /\ StreamOff /\ ChannelOff /\ MuxOff
    \/ part = "channel" /\ Channel!Init /\ StreamOff /\ pc = Off /\ received = Off /\ AdapterOff /\ MuxOff
    \/ part = "mux" /\ Mux!Init /\ StreamOff /\ pc = Off /\ received = Off /\ AdapterOff /\ sent = Off
       /\ wire = Off /\ ChannelOff

Next ==
    \/ part = "stream" /\ Stream!Next /\ UNCHANGED <<part, adapterVars, sent, wire, channelVars, muxVars>>
    \/ part = "adapter" /\ Adapter!Next /\ UNCHANGED <<part, streamVars, channelVars, muxVars>>
    \/ part = "channel" /\ Channel!Next /\ UNCHANGED <<part, streamVars, pc, received, adapterVars, muxVars>>
    \/ part = "mux" /\ Mux!Next /\ UNCHANGED <<part, streamVars, pc, received, adapterVars, sent, wire, channelVars>>

(* What ServerStream and HttpAdapter assume of their scheduling.           *)
Fairness ==
    /\ WF_(Stream!vars)(part = "stream" /\ Stream!Handler)
    /\ WF_(Stream!vars)(part = "stream" /\ Stream!Watch)
    /\ WF_(Adapter!vars)(part = "adapter" /\ Adapter!Server)
    /\ WF_(Adapter!vars)(part = "adapter" /\ Adapter!StreamEnds)

Spec == Init /\ [][Next]_vars /\ Fairness

-----------------------------------------------------------------------------
(* Properties of the parts *)

(* What a client is told is whole is whole: a client that stays and is     *)
(* told by the live or finite writer that the stream is over has every     *)
(* event of the session, or its error, and a response that its framing     *)
(* declares complete is the whole answer to the request of its turn, where *)
(* Connection: close says what follows.                                    *)
WholeMeansWhole ==
    /\ part = "stream" => Stream!WholeWhenOk
    /\ part = "adapter" => Adapter!WholeMeansWhole /\ Adapter!CloseAnnounced


(* ReadRequest hands on the requests that were sent, however the bytes are *)
(* cut, and refuses one for what it is.                                    *)
RequestsExact == part = "adapter" => Adapter!RequestsExact /\ Adapter!RefusedForCause

(* The SSE parser's events do not depend on how the text is cut into       *)
(* chunks, only malformed text and a cut are errors, and a stream that     *)
(* Finish accepts ended between two events.                                *)
ChunkingIrrelevant ==
    part = "channel" => Channel!ChunkingIrrelevant /\ Channel!FailsForCause /\ Channel!EndsBetweenEvents

(* RouteRequest serves a request by the matching route of the highest      *)
(* priority, with the path that was matched and the client's query.        *)
BestRouteServes == part = "mux" => Mux!BestRouteServes /\ Mux!TargetKept

(* A streaming handler returns once its client is gone or its session has  *)
(* ended, and every request sent on a connection is handled unless the     *)
(* connection is closed.                                                   *)
HandlersReturn ==
    /\ (part = "stream" /\ gone /\ Stream!Polls) ~> (pc = "returned")
    /\ (part = "stream" /\ ended # "no") ~> (part = "stream" /\ (pc = "returned" \/ gone))
    /\ \A n \in 1..2 : (part = "adapter" /\ Len(sent) >= n) ~>
                       (part = "adapter" /\ (Len(handled) >= n \/ pc = "closed"))
=============================================================================
