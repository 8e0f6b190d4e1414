----------------------------- MODULE ServerStream -----------------------------
(***************************************************************************)
(* How a server transport pumps a ServerStreamSession to its client: the   *)
(* SSE loops of JSON-RPC and HTTP+JSON (finite and live), the two loops of *)
(* gRPC, and the StreamCancellationWatcher that gRPC runs beside a session *)
(* without timed reads.  The session belongs to the application: it is     *)
(* modelled by its interface.  A live session may wait for events that are *)
(* still to come; a timed one returns from NextFor without an event; one   *)
(* that is not timed blocks until it has an event, ends or is cancelled.   *)
(* The client may leave at any time: gRPC's IsCancelled then holds, and an *)
(* HTTP write fails at once or after the socket buffered some frames.      *)
(***************************************************************************)
EXTENDS Integers, Sequences

CONSTANTS
    Streams,        \* the calls: records [binding, op, live, timed, jthread], the
                    \* last A2A_STREAM_CANCELLATION_WATCHER_HAS_JTHREAD of the build
    MaxEvents,      \* events a session produces
    MaxBuffered     \* frames a socket takes after its peer left

BoundsAssumption ==
    /\ MaxEvents \in Nat /\ MaxBuffered \in Nat
    /\ \A s \in Streams : /\ s.binding \in {"jsonrpc", "rest", "grpc"} /\ s.op \in {"send", "subscribe"}
                          /\ {s.live, s.timed, s.jthread} \subseteq BOOLEAN

VARIABLES
    stream,     \* the call
    produced,   \* number of events the session got
    taken,      \* number of events read from it
    ended,      \* "no", "end" or "error": how the session's source ended
    cancelled,  \* Cancel() was called
    pc,         \* where the handler is
    writer,     \* "finite", "live" or "grpc": the loop that runs
    item,       \* what Next returned, then what is being written
    received,   \* the frames the client has
    gone,       \* the client left
    buffered,   \* frames written since
    status,     \* what the handler returned
    watcher,    \* "none", "check", "cancel", "wait" or "exited"
    stop        \* the watcher's stop was requested

session == <<produced, taken, ended, cancelled>>
handler == <<pc, writer, item, status>>
client == <<received, gone, buffered>>
watch == <<watcher, stop>>
vars == <<stream, session, handler, client, watch>>

Event(n) == <<"event", n>>
Nothing == <<"nothing", 0>>
Failure == <<"error", 0>>
Heartbeat == <<"heartbeat", 0>>

-----------------------------------------------------------------------------
(* The session.  It is live until it has given all it has, the error that    *)
(* ends it included: SubscriptionSession counts what is pending, and the     *)
(* errors of AuthorizedStream arise in the read.                             *)

IsLive ==
    /\ stream.live /\ ~cancelled
    /\ \/ taken < produced \/ ended = "no"
       \/ ended = "error" /\ item # Failure

Produce ==
    /\ ended = "no" /\ produced < MaxEvents
    /\ produced' = produced + 1
    /\ UNCHANGED <<stream, taken, ended, cancelled, handler, client, watch>>

SourceEnds(how) ==
    /\ ended = "no"
    /\ ended' = how
    /\ UNCHANGED <<stream, produced, taken, cancelled, handler, client, watch>>

ClientLeaves ==
    /\ ~gone
    /\ gone' = TRUE
    /\ UNCHANGED <<stream, session, handler, received, buffered, watch>>

(* What a read may return now; a read that may return nothing of this blocks. *)
Readable(timed) ==
    IF cancelled THEN {Nothing}
    ELSE IF taken < produced THEN {Event(taken + 1)}
    ELSE CASE ended = "end" -> {Nothing}
           [] ended = "error" -> {Failure}
           [] OTHER -> IF timed /\ stream.live THEN {Nothing} ELSE {}

-----------------------------------------------------------------------------
Init ==
    /\ stream \in Streams
    /\ produced = 0 /\ taken = 0 /\ ended = "no" /\ cancelled = FALSE
    /\ pc = "build" /\ writer = "none" /\ item = Nothing /\ status = "none"
    /\ received = <<>> /\ gone = FALSE /\ buffered = 0
    /\ watcher = "none" /\ stop = FALSE

(* BuildSseResponse, BuildStreamingResponse, BuildSubscribeResponse; or the  *)
(* gRPC handler, which starts its watcher for a live session.               *)
BuildResponse ==
    /\ pc = "build"
    /\ writer' = CASE stream.binding = "grpc" -> "grpc"
                   [] stream.binding = "rest" /\ stream.op = "send" -> "finite"
                   [] stream.binding = "rest" /\ stream.op = "subscribe" -> "live"
                   [] stream.binding = "jsonrpc" -> IF IsLive THEN "live" ELSE "finite"
    /\ watcher' = IF stream.binding = "grpc" /\ ~stream.timed /\ IsLive THEN "check" ELSE "none"
    /\ pc' = "loop"
    /\ UNCHANGED <<stream, session, item, status, client, stop>>

Leave(result) == pc' = "join" /\ status' = result

(* while (!context->IsCancelled()) of gRPC. *)
LoopGoesOn ==
    /\ pc = "loop" /\ (writer = "grpc" => ~gone)
    /\ pc' = "next"
    /\ UNCHANGED <<stream, session, writer, item, status, client, watch>>

(* The loop saw the client gone; what follows it. *)
LoopEnds ==
    /\ pc = "loop" /\ writer = "grpc" /\ gone
    /\ cancelled' = (cancelled \/ stream.timed)
    /\ Leave("ok")
    /\ UNCHANGED <<stream, produced, taken, ended, writer, item, client, watch>>

(* Next, or NextFor where the loop has a timeout and the session honours it. *)
ReadNext ==
    /\ pc = "next"
    /\ \E read \in Readable(stream.timed /\ writer # "finite") :
         /\ item' = read
         /\ taken' = IF read[1] = "event" THEN taken + 1 ELSE taken
    /\ pc' = "got"
    /\ UNCHANGED <<stream, produced, ended, cancelled, writer, status, client, watch>>

GotEvent ==
    /\ pc = "got" /\ item[1] = "event"
    /\ pc' = "write"
    /\ UNCHANGED <<stream, session, writer, item, status, client, watch>>

(* An event that has no JSON form ends an SSE loop. *)
Unserialisable ==
    /\ pc = "got" /\ item[1] = "event" /\ writer # "grpc"
    /\ Leave("error")
    /\ UNCHANGED <<stream, session, writer, item, client, watch>>

(* No event: the end, a heartbeat, or another round. *)
GotNothing ==
    /\ pc = "got" /\ item = Nothing
    /\ IF writer = "finite" \/ ~IsLive THEN Leave("ok") /\ UNCHANGED item
       ELSE IF writer = "live"
            THEN pc' = "write" /\ item' = Heartbeat /\ UNCHANGED status
            ELSE pc' = "loop" /\ UNCHANGED <<item, status>>
    /\ UNCHANGED <<stream, session, writer, client, watch>>

(* Mutant: the finite loop drops the error of the session. *)
GotErrorSilently ==
    /\ pc = "got" /\ item = Failure
    /\ Leave(IF writer = "finite" THEN "ok" ELSE "error")
    /\ UNCHANGED <<stream, session, writer, item, client, watch>>

(* An error: the finite loops tell the client, the others their caller. *)
GotError ==
    /\ pc = "got" /\ item = Failure
    /\ IF writer = "finite" THEN pc' = "write" /\ UNCHANGED status ELSE Leave("error")
    /\ UNCHANGED <<stream, session, writer, item, client, watch>>

(* WriteSseChunk, or ServerWriter::Write, of the whole frame. *)
WriteSucceeds ==
    /\ pc = "write"
    /\ gone => writer # "grpc" /\ buffered < MaxBuffered
    /\ received' = IF gone \/ item = Heartbeat THEN received ELSE Append(received, item)
    /\ buffered' = IF gone THEN buffered + 1 ELSE 0
    /\ IF item = Failure THEN Leave("ok") ELSE pc' = "loop" /\ UNCHANGED status
    /\ UNCHANGED <<stream, session, writer, item, gone, watch>>


WriteFails ==
    /\ pc = "write" /\ gone
    /\ cancelled' = TRUE
    /\ Leave(IF writer = "grpc" /\ stream.op = "send" THEN "ok" ELSE "error")
    /\ UNCHANGED <<stream, produced, taken, ended, writer, item, client, watch>>

-----------------------------------------------------------------------------
(* ~StreamCancellationWatcher, which the handler runs before the session is  *)
(* destroyed: request the stop, then join.                                   *)
RequestStop ==
    /\ pc = "join" /\ ~stop
    /\ stop' = TRUE
    /\ UNCHANGED <<stream, session, handler, client, watcher>>

(* Mutant: the worker is not joined. *)
ReturnUnjoined ==
    /\ pc = "join" /\ stop
    /\ pc' = "returned"
    /\ UNCHANGED <<stream, session, writer, item, status, client, watch>>

Return ==
    /\ pc = "join" /\ stop /\ watcher \in {"none", "exited"}
    /\ pc' = "returned"
    /\ UNCHANGED <<stream, session, writer, item, status, client, watch>>

(* Watch, the worker's loop. *)
WatchPolls ==
    /\ watcher = "check"
    /\ watcher' = IF stream.jthread /\ stop THEN "exited" ELSE IF gone THEN "cancel" ELSE "wait"
    /\ UNCHANGED <<stream, session, handler, client, stop>>

(* Mutant: the worker sees the cancellation and tells nobody. *)
WatchCancelsNothing ==
    /\ watcher = "cancel"
    /\ watcher' = "exited"
    /\ UNCHANGED <<stream, session, handler, client, stop>>

WatchCancels ==
    /\ watcher = "cancel"
    /\ cancelled' = TRUE
    /\ watcher' = "exited"
    /\ UNCHANGED <<stream, produced, taken, ended, handler, client, stop>>

(* wait_for: the stop or the poll interval. *)
WatchWaits ==
    /\ watcher = "wait"
    /\ watcher' = IF ~stream.jthread /\ stop THEN "exited" ELSE "check"
    /\ UNCHANGED <<stream, session, handler, client, stop>>

-----------------------------------------------------------------------------
(* The loops: BuildStreamingResponse and StreamFiniteJsonRpcSseEvents;       *)
(* BuildSubscribeResponse and StreamJsonRpcSseEvents; the handlers of gRPC.  *)
FiniteLoop ==
    /\ writer = "finite"
    /\ \/ LoopGoesOn \/ ReadNext \/ GotEvent \/ Unserialisable \/ GotNothing \/ GotError
       \/ WriteSucceeds \/ WriteFails

LiveLoop ==
    /\ writer = "live"
    /\ \/ LoopGoesOn \/ ReadNext \/ GotEvent \/ Unserialisable \/ GotNothing \/ GotError
       \/ WriteSucceeds \/ WriteFails

GrpcLoop ==
    /\ writer = "grpc"
    /\ \/ LoopGoesOn \/ LoopEnds \/ ReadNext \/ GotEvent \/ GotNothing \/ GotError
       \/ WriteSucceeds \/ WriteFails

Handler == BuildResponse \/ FiniteLoop \/ LiveLoop \/ GrpcLoop \/ RequestStop \/ Return

Watch == WatchPolls \/ WatchCancels \/ WatchWaits

Environment == Produce \/ ClientLeaves \/ \E how \in {"end", "error"} : SourceEnds(how)

(* The call is over, or waits for an application that may stay silent. *)
AtRest ==
    /\ pc = "returned" \/ (pc = "next" /\ Readable(stream.timed /\ writer # "finite") = {})
    /\ UNCHANGED vars

Next == Handler \/ Watch \/ Environment \/ AtRest

(* The handler and the watcher are threads: each goes on while it can.  A   *)
(* socket whose peer left does not take frames for ever (MaxBuffered).      *)
Fairness == WF_vars(Handler) /\ WF_vars(Watch)

Spec == Init /\ [][Next]_vars /\ Fairness

-----------------------------------------------------------------------------
TypeOK ==
    /\ stream \in Streams /\ writer \in {"none", "finite", "live", "grpc"}
    /\ taken \in 0..produced /\ produced \in 0..MaxEvents /\ ended \in {"no", "end", "error"}
    /\ pc \in {"build", "loop", "next", "got", "write", "join", "returned"}
    /\ status \in {"none", "ok", "error"}
    /\ watcher \in {"none", "check", "cancel", "wait", "exited"}
    /\ buffered \in 0..MaxBuffered
    /\ {cancelled, gone, stop} \subseteq BOOLEAN

(* A client that stays and is told the stream is over has every event of    *)
(* the session, in order, however the end races the timeout of a read; and  *)
(* an error of the session reaches the client or the handler's caller.      *)
WholeWhenOk ==
    pc = "returned" /\ ~gone /\ status = "ok" =>
      /\ ended # "no"
      /\ received = [n \in 1..produced |-> Event(n)] \o (IF ended = "error" THEN <<Failure>> ELSE <<>>)

(* No handler returns and leaves a live session behind: whatever made it     *)
(* return, the session was cancelled or had ended, and the subscription      *)
(* behind it is released.  Two paths are left out: an event without a JSON   *)
(* form, and gRPC's loop seeing the client gone before the watcher does, for *)
(* a session without timed reads; there the session is destroyed as it is.   *)
LeavesNothingLive ==
    pc = "returned" /\ IsLive =>
      \/ writer = "grpc" /\ ~stream.timed /\ gone
      \/ writer # "grpc" /\ item[1] = "event"

(* The watcher is done before the session it points to is destroyed.        *)
WatcherGoneFirst == pc = "returned" => watcher \in {"none", "exited"}

(* A client that leaves frees its handler thread, though the session stays  *)
(* silent: by gRPC's poll or watcher, or because a heartbeat cannot be       *)
(* written.                                                                  *)
Polls == stream.live /\ (writer = "grpc" \/ (writer = "live" /\ stream.timed))

=============================================================================
