---------------------------- MODULE ClientStream ----------------------------
(***************************************************************************)
(* One client stream from the observer's side: StreamHandle and the        *)
(* session that turns transfer callbacks into OnEvent, OnError and         *)
(* OnCompleted, for the REST and JSON-RPC transports (on the shared        *)
(* executor, or on a worker the handle owns) and for gRPC (owned worker).  *)
(* The transfer below calls back serially and ends once it is revoked      *)
(* (HttpStream); a chunk is the number of events it completes.             *)
(***************************************************************************)
EXTENDS Naturals, Sequences, FiniteSets

CONSTANTS Protocol,    \* "rest", "jsonrpc" or "grpc"
          Owned,       \* the handle owns a worker thread
          Cancellers,  \* application threads that cancel or destroy the handle
          MaxChunks,   \* chunks a server sends
          MaxEvents    \* events completed by one chunk

ClientStreamAssumption ==
  /\ Protocol \in {"rest", "jsonrpc", "grpc"} /\ Owned \in BOOLEAN
  /\ Protocol = "grpc" => Owned
  /\ MaxChunks \in Nat /\ MaxEvents \in Nat \ {0}

Responses == [version : BOOLEAN, success : BOOLEAN, content : {"sse", "json", "other"}]

VARIABLES
  at, kind,         \* where the delivering thread is, in which callback
  calling,          \* what it calls on the observer
  left,             \* events of the chunk still to dispatch
  chunks,           \* chunks delivered
  meta,             \* the session: metadata_validated, and what it expects
  failed,           \* a handler returned an error (HttpStream!dispatchError)
  net, netRevoked,  \* the transfer, and whether it was told to stop
  cancelRequested, active, registered,  \* StreamHandle::State
  scope,            \* callback_thread_id is set
  worker,           \* worker_: with the handle, or moved out by a Cancel
  canceller,        \* the threads inside Cancel
  shutdown,         \* async_shutdown_
  clientDown,       \* the http client suppresses callbacks
  destroy,          \* the thread inside Destroy
  sent,             \* history: events decoded from the stream
  seen              \* history: what the observer was called with

deliveryVars == <<at, kind, calling, left, chunks>>
sessionVars == <<meta, failed, sent, seen>>
netVars == <<net, netRevoked>>
handleVars == <<cancelRequested, registered, worker, canceller>>
downVars == <<shutdown, clientDown, destroy>>
vars == <<deliveryVars, sessionVars, netVars, handleVars, active, scope, downVars>>

Init ==
  /\ at = "idle" /\ kind = "none" /\ calling = "none" /\ left = 0 /\ chunks = 0
  /\ meta = IF Protocol = "grpc" THEN "events" ELSE "none"
  /\ failed = FALSE /\ sent = 0 /\ seen = <<>>
  /\ net = "open" /\ netRevoked = FALSE
  /\ cancelRequested = FALSE /\ active = TRUE
  /\ registered = (~Owned \/ Protocol = "grpc")   \* before the handle is returned
  /\ scope = FALSE
  /\ worker = (IF Owned THEN "handle" ELSE "none")
  /\ canceller = [c \in Cancellers |-> "idle"]
  /\ shutdown = FALSE /\ clientDown = FALSE /\ destroy = "idle"

-----------------------------------------------------------------------------
(* StreamHandle::Cancel, also run by the destructor and by move            *)
(* assignment.  RequestCancel is its critical section: the first caller    *)
(* takes the callback.                                                     *)
RequestCancel ==
  /\ active' = FALSE /\ cancelRequested' = TRUE
  /\ netRevoked' = (netRevoked \/ (~cancelRequested /\ registered))

Cancel(c) ==
  /\ canceller[c] = "idle" /\ RequestCancel
  /\ canceller' = [canceller EXCEPT ![c] = IF worker = "handle" THEN "join"
                                           ELSE IF Owned THEN "returned" ELSE "wait"]
  /\ worker' = IF worker = "handle" THEN "moved" ELSE worker
  /\ UNCHANGED <<deliveryVars, sessionVars, net, registered, scope, downVars>>

JoinReturns(c) ==
  /\ canceller[c] = "join" /\ at = "over"
  /\ canceller' = [canceller EXCEPT ![c] = "returned"]
  /\ UNCHANGED <<deliveryVars, sessionVars, netVars, cancelRequested, registered, worker,
                 active, scope, downVars>>

WaitForCallbackIdle(c) ==
  /\ canceller[c] = "wait" /\ ~scope
  /\ canceller' = [canceller EXCEPT ![c] = "returned"]
  /\ UNCHANGED <<deliveryVars, sessionVars, netVars, cancelRequested, registered, worker,
                 active, scope, downVars>>

(* The observer itself cancels: it neither joins nor waits.                *)
CancelInCallback ==
  /\ at = "observer" /\ ~cancelRequested /\ RequestCancel
  /\ UNCHANGED <<deliveryVars, sessionVars, net, registered, worker, canceller, scope,
                 downVars>>

(* RegisterCancelCallback, by a requester on the owned worker.             *)
RegisterOverwriting ==
  /\ ~registered /\ net = "open" /\ registered' = TRUE
  /\ UNCHANGED <<deliveryVars, sessionVars, netVars, cancelRequested, worker, canceller,
                 active, scope, downVars>>

RegisterCancelCallback ==
  /\ ~registered /\ net = "open" /\ registered' = TRUE
  /\ netRevoked' = (netRevoked \/ cancelRequested)
  /\ UNCHANGED <<deliveryVars, sessionVars, net, cancelRequested, worker, canceller,
                 active, scope, downVars>>

-----------------------------------------------------------------------------
(* The transfer calls back.  A callback on the executor opens a            *)
(* CallbackExecutionScope before it looks at the shutdown flag.            *)
EnterUnmarked(k, n) ==
  /\ at = "idle" /\ at' = (IF Owned THEN "session" ELSE "entered")
  /\ kind' = k /\ left' = n
  /\ UNCHANGED <<calling, meta, seen, netVars, handleVars, active, scope, downVars>>

Enter(k, n) ==
  /\ at = "idle" /\ at' = (IF Owned THEN "session" ELSE "entered")
  /\ kind' = k /\ left' = n /\ scope' = ~Owned
  /\ UNCHANGED <<calling, meta, seen, netVars, handleVars, active, downVars>>

OnMetadata == /\ Protocol # "grpc" /\ meta = "none" /\ chunks = 0 /\ ~failed /\ ~clientDown
              /\ kind = "none" /\ Enter("metadata", 0) /\ UNCHANGED <<chunks, failed, sent>>

OnChunk ==
  /\ Owned \/ kind # "none"      \* only an injected requester may forget the metadata
  /\ chunks < MaxChunks /\ ~failed /\ ~clientDown
  /\ Protocol # "grpc"
  /\ \E n \in 0 .. MaxEvents : Enter("chunk", n) /\ sent' = sent + n
  /\ chunks' = chunks + 1 /\ UNCHANGED failed

(* The transfer is over: the reactor completes it, then the completion     *)
(* callback runs.  A revoked transfer always gets there.                   *)
TransferEnds ==
  /\ net = "open" /\ \E r \in {"ok", "error"} : net' = r
  /\ UNCHANGED <<deliveryVars, sessionVars, netRevoked, handleVars, active, scope, downVars>>

OnCompletion ==
  /\ net # "open" /\ Protocol # "grpc"
  /\ Enter("completion", 0) /\ UNCHANGED <<chunks, failed, sent>>

Leave(bad) == /\ at' = "exit" /\ failed' = (failed \/ bad)

(* The executor's callbacks answer a shut-down transport with an error;    *)
(* the completion only marks the handle inactive.                          *)
CheckShutdown ==
  /\ at = "entered"
  /\ IF shutdown THEN Leave(kind # "completion") ELSE at' = "session" /\ UNCHANGED failed
  /\ active' = (active /\ ~(shutdown /\ kind = "completion"))
  /\ UNCHANGED <<kind, calling, left, chunks, meta, sent, seen, netVars, handleVars, scope,
                 downVars>>

(* ValidateMetadata of the two sessions: what is expected after it, or     *)
(* "error".  A JSON answer may be an error of any status to JSON-RPC.      *)
ValidateMetadata(r) ==
  IF ~r.version THEN "error"
  ELSE IF Protocol = "jsonrpc" /\ r.content = "json" THEN "body"
  ELSE IF ~r.success THEN (IF Protocol = "rest" THEN "body" ELSE "error")
  ELSE IF r.content = "sse" THEN "events" ELSE "error"

HandleMetadata ==
  /\ at = "session" /\ kind = "metadata"
  /\ \E r \in Responses : LET v == ValidateMetadata(r)
                          IN  /\ meta' = IF v = "error" THEN "none" ELSE v
                              /\ Leave(v = "error")
  /\ UNCHANGED <<kind, calling, left, chunks, sent, seen, netVars, handleVars, active, scope,
                 downVars>>

(* HandleChunk looks at the cancellation once, then before every event.    *)
HandleChunk ==
  /\ at = "session" /\ kind = "chunk"
  /\ \/ (cancelRequested \/ meta = "body") /\ Leave(FALSE)
     \/ ~cancelRequested /\ meta = "none" /\ Leave(TRUE)
     \/ ~cancelRequested /\ meta = "events" /\ at' = "events" /\ UNCHANGED failed
  /\ UNCHANGED <<kind, calling, left, chunks, meta, sent, seen, netVars, handleVars, active,
                 scope, downVars>>

Call(what) == at' = "observer" /\ calling' = what /\ seen' = Append(seen, what)

DispatchEventReporting ==
  /\ at = "events"
  /\ \/ left = 0 /\ Leave(FALSE) /\ UNCHANGED <<calling, left, seen>>
     \/ /\ left > 0 /\ left' = left - 1 /\ (Call("event") \/ Call("error"))
        /\ UNCHANGED failed
  /\ UNCHANGED <<kind, chunks, meta, sent, netVars, handleVars, active, scope, downVars>>

(* Each event is skipped, refused (an error event, or one that cannot be   *)
(* decoded) or given to OnEvent.                                           *)
DispatchEvent ==
  /\ at = "events"
  /\ \/ /\ left = 0 /\ Leave(FALSE) /\ UNCHANGED <<calling, left, seen>>
     \/ /\ left > 0 /\ cancelRequested /\ left' = left - 1
        /\ UNCHANGED <<at, calling, seen, failed>>
     \/ /\ left > 0 /\ ~cancelRequested /\ Leave(TRUE) /\ UNCHANGED <<calling, left, seen>>
     \/ /\ left > 0 /\ ~cancelRequested /\ left' = left - 1 /\ Call("event")
        /\ UNCHANGED failed
  /\ UNCHANGED <<kind, chunks, meta, sent, netVars, handleVars, active, scope, downVars>>

(* Complete: a cancelled stream ends in silence, an error is reported, and *)
(* the end of a clean event stream is a completion.  parser.Finish calls   *)
(* no observer (SseParser), and the cancellation is read again after it.   *)
Expected ==
  IF meta # "none" THEN {meta} ELSE {ValidateMetadata(r) : r \in Responses}

CompleteUnchecked ==
  /\ at = "session" /\ kind = "completion"
  /\ \/ net = "error" /\ Call("error") /\ UNCHANGED active
     \/ net = "ok" /\ Call("completed") /\ UNCHANGED active
  /\ UNCHANGED <<kind, left, chunks, failed, meta, sent, netVars, handleVars, scope, downVars>>

Complete ==
  /\ at = "session" /\ kind = "completion"
  /\ \/ /\ cancelRequested /\ active' = FALSE /\ at' = "exit" /\ UNCHANGED <<calling, seen>>
     \/ /\ ~cancelRequested /\ (failed \/ net = "error") /\ Call("error") /\ UNCHANGED active
     \/ /\ ~cancelRequested /\ ~failed /\ net = "ok"
        /\ \/ Expected # {"events"} /\ Call("error")      \* invalid metadata, or a body
           \/ "events" \in Expected /\ at' = "finish" /\ UNCHANGED <<calling, seen>>
        /\ UNCHANGED active
  /\ UNCHANGED <<kind, left, chunks, failed, meta, sent, netVars, handleVars, scope, downVars>>

Finish ==
  /\ at = "finish"
  /\ \/ /\ cancelRequested /\ active' = FALSE /\ at' = "exit" /\ UNCHANGED <<calling, seen>>
     \/ /\ ~cancelRequested /\ UNCHANGED active
        /\ Call("error") \/ Call("completed")
  /\ UNCHANGED <<kind, left, chunks, failed, meta, sent, netVars, handleVars, scope, downVars>>

ObserverReturns ==
  /\ at = "observer" /\ calling' = "none"
  /\ at' = IF calling = "event" THEN (IF Protocol = "grpc" THEN "idle" ELSE "events")
                                ELSE "exit"
  /\ active' = (active /\ calling = "event")
  /\ UNCHANGED <<kind, left, chunks, sessionVars, netVars, handleVars, scope, downVars>>

LeaveMarked ==
  /\ at = "exit" /\ at' = (IF kind = "completion" THEN "over" ELSE "idle")
  /\ UNCHANGED <<kind, calling, left, chunks, sessionVars, netVars, handleVars, active, scope,
                 downVars>>

LeaveScope ==
  /\ at = "exit" /\ at' = (IF kind = "completion" THEN "over" ELSE "idle")
  /\ scope' = FALSE
  /\ UNCHANGED <<kind, calling, left, chunks, sessionVars, netVars, handleVars, active,
                 downVars>>

-----------------------------------------------------------------------------
(* The gRPC worker: the cancellation is read before each Read, and again   *)
(* after Finish.  No reader is an error that is reported at once.          *)
GrpcNoReader ==
  /\ Protocol = "grpc" /\ at = "idle" /\ kind = "none"
  /\ kind' = "completion" /\ Call("error")
  /\ UNCHANGED <<left, chunks, failed, meta, sent, netVars, handleVars, active, scope, downVars>>

GrpcLoop ==
  /\ Protocol = "grpc" /\ at = "idle"
  /\ kind' = "chunk" /\ at' = (IF cancelRequested THEN "status" ELSE "read")
  /\ UNCHANGED <<calling, left, chunks, sessionVars, netVars, handleVars, active, scope,
                 downVars>>

GrpcRead ==
  /\ at = "read"
  /\ \/ /\ net # "open" /\ at' = "status" /\ UNCHANGED <<calling, chunks, sent, seen>>
     \/ /\ chunks < MaxChunks /\ chunks' = chunks + 1 /\ sent' = sent + 1 /\ Call("event")
  /\ UNCHANGED <<kind, left, failed, meta, netVars, handleVars, active, scope, downVars>>

GrpcFinish ==
  /\ at = "status" /\ net # "open" /\ kind' = "completion"
  /\ \/ /\ cancelRequested /\ active' = FALSE /\ at' = "exit" /\ UNCHANGED <<calling, seen>>
     \/ /\ ~cancelRequested /\ UNCHANGED active
        /\ Call(IF net = "ok" THEN "completed" ELSE "error")
  /\ UNCHANGED <<left, chunks, failed, meta, sent, netVars, handleVars, scope, downVars>>

-----------------------------------------------------------------------------
(* A2AClient::Destroy, through Shutdown of the transport (it knows only    *)
(* the default client) and of the http client (HttpStream).                *)
Destroy ==
  /\ ~Owned /\ destroy = "idle" /\ shutdown' = TRUE /\ destroy' = "client"
  /\ UNCHANGED <<deliveryVars, sessionVars, netVars, handleVars, active, scope, clientDown>>

ClientShutdown ==
  /\ destroy = "client" /\ clientDown' = TRUE /\ netRevoked' = TRUE /\ destroy' = "wait"
  /\ UNCHANGED <<deliveryVars, sessionVars, net, handleVars, active, scope, shutdown>>

DestroyReturns ==
  /\ destroy = "wait" /\ net # "open" /\ destroy' = "returned"
  /\ UNCHANGED <<deliveryVars, sessionVars, netVars, handleVars, active, scope, shutdown,
                 clientDown>>

Delivers == \/ CheckShutdown \/ HandleMetadata \/ HandleChunk \/ DispatchEvent \/ Complete
            \/ Finish \/ ObserverReturns \/ LeaveScope \/ OnCompletion
            \/ GrpcLoop \/ GrpcRead \/ GrpcFinish

Next == \/ \E c \in Cancellers : Cancel(c) \/ JoinReturns(c) \/ WaitForCallbackIdle(c)
        \/ CancelInCallback \/ RegisterCancelCallback
        \/ OnMetadata \/ OnChunk \/ TransferEnds \/ Delivers \/ GrpcNoReader
        \/ Destroy \/ ClientShutdown \/ DestroyReturns

(* Threads are scheduled, observers return, a requester registers its      *)
(* cancellation, and a revoked transfer ends.                              *)
Fairness ==
  /\ WF_vars(Delivers) /\ WF_vars(RegisterCancelCallback)
  /\ WF_vars(netRevoked /\ TransferEnds) /\ WF_vars(ClientShutdown) /\ WF_vars(DestroyReturns)
  /\ \A c \in Cancellers : WF_vars(JoinReturns(c)) /\ WF_vars(WaitForCallbackIdle(c))

Spec == Init /\ [][Next]_vars /\ Fairness

-----------------------------------------------------------------------------
(* OnError and OnCompleted are exclusive, called once, and nothing is      *)
(* called after them.                                                      *)
OneTerminal ==
  \A i \in DOMAIN seen : seen[i] \in {"error", "completed"} => i = Len(seen)

(* Once a Cancel from outside has returned, or the destructor of the       *)
(* handle, the observer is not running and is never called again.          *)
QuietAfterCancel ==
  (\E c \in Cancellers : canceller[c] = "returned") => at # "observer"

(* A completion is never reported for a cut stream: OnCompleted means that *)
(* the answer was an event stream, that every event that arrived was given *)
(* to OnEvent, and so that no cancellation or error swallowed one.         *)
CompletedMeansWhole ==
  "completed" \in {seen[i] : i \in DOMAIN seen} =>
    /\ meta \in {"events", "none"} /\ ~failed /\ net = "ok"
    /\ Cardinality({i \in DOMAIN seen : seen[i] = "event"}) = sent

(* A stream that has ended is not active.                                  *)
InactiveWhenOver == at = "over" => ~active

(* Cancel returns, and the cancelled stream ends: a cancellation that      *)
(* comes before the requester has registered its callback is not lost.     *)
CancelReturns ==
  /\ \A c \in Cancellers : (canceller[c] \in {"join", "wait"}) ~> (canceller[c] = "returned")
  /\ cancelRequested ~> (at = "over")

=============================================================================
