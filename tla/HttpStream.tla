----------------------------- MODULE HttpStream -----------------------------
(***************************************************************************)
(* The streaming half of a2a::http::Client, over a reactor that keeps      *)
(* TransferContract: StartStreamRequest and its slots, the serial dispatch *)
(* queue of each stream with its limits, the shared executor, completion,  *)
(* cancellation (registered, or watched by a synchronous StreamRequest)    *)
(* and Client::Shutdown, called from outside or from inside a callback.    *)
(* Metadata is item 0 of a stream, its chunks are 1, 2, ...                *)
(***************************************************************************)
EXTENDS Integers, Sequences, FiniteSets, SequencesExt

CONSTANTS Streams, Workers, NoStream,
          SyncStreams,   \* the streams run by the synchronous StreamRequest
          Sizes,         \* the size of each chunk; its length bounds a stream
          MaxTasks,      \* kMaximumPendingDispatchTasks
          MaxBytes,      \* kMaximumPendingDispatchBytes
          MaxIdle        \* kMaxIdleStreamSlots

StreamAssumption ==
  /\ SyncStreams \subseteq Streams /\ NoStream \notin Streams
  /\ MaxTasks \in Nat \ {0} /\ MaxBytes \in Nat \ {0} /\ MaxIdle \in Nat
  /\ Sizes \in Seq(1 .. MaxBytes)

Metadata == 0
End == -1
Size(item) == IF item \in 1 .. Len(Sizes) THEN Sizes[item] ELSE 0

VARIABLES
  at,            \* the thread inside StartStreamRequest, per stream
  net,           \* the transfer: none, running, finalizing, done
  code,          \* the CURLcode the reactor completed it with
  arrived,       \* the last item libcurl delivered, -1 before the metadata
  tasks,         \* SerialStreamDispatch::tasks_
  pendingBytes,  \* SerialStreamDispatch::pending_bytes_
  scheduled,     \* SerialStreamDispatch::scheduled_
  executor,      \* StreamDispatchExecutor::tasks_
  worker,        \* what each dispatch worker is doing
  dispatchError, \* AsyncStreamState::dispatch_error
  suppressed,    \* AsyncStreamState::suppress_callbacks
  called,        \* history: the handlers called, End for the completion
  outcome,       \* the result given to the completion
  cancelAsked,   \* is_cancelled() of the stream; of a synchronous one, what its
                 \* watcher has seen of it
  revoked,       \* a Cancel or CancelOwner command is at the reactor
  activeStreams, \* active_streams
  shuttingDown,  \* shutting_down and suppress_stream_callbacks
  idleSlots,     \* the number of idle_stream_slots
  shutdown       \* the thread inside Client::Shutdown

startVars == <<at, idleSlots>>
netVars == <<net, code, arrived>>
queueVars == <<tasks, pendingBytes, scheduled, executor>>
callVars == <<worker, called, outcome>>
errorVars == <<dispatchError, suppressed>>
stopVars == <<cancelAsked, shuttingDown, shutdown>>
vars == <<startVars, netVars, queueVars, callVars, errorVars, stopVars, revoked,
          activeStreams>>

Free == [stream |-> NoStream, step |-> "free", item |-> End]
Each(x) == [s \in Streams |-> x]

Init ==
  /\ at = Each("idle") /\ net = Each("none") /\ code = Each("ok") /\ arrived = Each(-1)
  /\ tasks = Each(<<>>) /\ pendingBytes = Each(0) /\ scheduled = Each(FALSE)
  /\ executor = <<>> /\ worker = [w \in Workers |-> Free]
  /\ dispatchError = Each("none") /\ suppressed = Each(FALSE)
  /\ called = Each(<<>>) /\ outcome = Each("none") /\ cancelAsked = Each(FALSE)
  /\ revoked = {} /\ activeStreams = 0 /\ shuttingDown = FALSE /\ idleSlots = 0
  /\ shutdown = "idle"

-----------------------------------------------------------------------------
(* StartStreamRequest.  AcquireStreamSlot reads shutting_down, and again   *)
(* after it has built a new slot.                                          *)
AcquireStreamSlot(s) ==
  /\ at[s] \in {"idle", "fresh"}
  /\ \/ /\ shuttingDown
        /\ at' = [at EXCEPT ![s] = "refused"] /\ UNCHANGED idleSlots
     \/ /\ ~shuttingDown /\ at[s] = "idle" /\ idleSlots > 0
        /\ idleSlots' = idleSlots - 1
        /\ at' = [at EXCEPT ![s] = "configure"]
     \/ /\ ~shuttingDown /\ (at[s] = "idle" => idleSlots = 0)
        /\ at' = [at EXCEPT ![s] = IF at[s] = "idle" THEN "fresh" ELSE "configure"]
        /\ UNCHANGED idleSlots
  /\ UNCHANGED <<netVars, queueVars, callVars, errorVars, stopVars, revoked, activeStreams>>

(* The handle is configured, or not; the transfer is counted and given to  *)
(* the reactor under stream_mutex, so that no shutdown comes in between.   *)
Register(s) ==
  /\ at[s] = "configure"
  /\ \/ /\ at' = [at EXCEPT ![s] = "refused"]    \* shutting down, or configuration failed
        /\ UNCHANGED <<net, activeStreams>>
     \/ /\ ~shuttingDown
        /\ activeStreams' = activeStreams + 1
        /\ net' = [net EXCEPT ![s] = "running"]
        /\ at' = [at EXCEPT ![s] = "registering"]
  /\ UNCHANGED <<idleSlots, code, arrived, queueVars, callVars, errorVars, stopVars, revoked>>

(* register_cancellation: a registrar that was cancelled before calls back *)
(* at once; the one of StreamRequest only stores the callback.             *)
RegisterLateCancellation(s) ==
  /\ at[s] = "registering"
  /\ at' = [at EXCEPT ![s] = "open"]
  /\ UNCHANGED <<idleSlots, netVars, queueVars, callVars, errorVars, stopVars, revoked,
                 activeStreams>>

RegisterCancellation(s) ==
  /\ at[s] = "registering"
  /\ at' = [at EXCEPT ![s] = "open"]
  /\ revoked' = IF cancelAsked[s] /\ s \notin SyncStreams THEN revoked \cup {s} ELSE revoked
  /\ UNCHANGED <<idleSlots, netVars, queueVars, callVars, errorVars, stopVars,
                 activeStreams>>

(* The user cancels: an asynchronous stream through the callback it has    *)
(* registered, a synchronous one by answering is_cancelled with true.      *)
Cancel(s) ==
  /\ ~cancelAsked[s] /\ at[s] \notin {"idle", "refused"}
  /\ cancelAsked' = [cancelAsked EXCEPT ![s] = TRUE]
  /\ revoked' = IF at[s] = "open" /\ s \notin SyncStreams THEN revoked \cup {s} ELSE revoked
  /\ UNCHANGED <<startVars, netVars, queueVars, callVars, errorVars, shuttingDown,
                 shutdown, activeStreams>>

(* The watcher thread of StreamRequest polls is_cancelled and calls the    *)
(* callback once there is one, until StreamRequest has its result.         *)
WatchCancellation(s) ==
  /\ s \in SyncStreams /\ cancelAsked[s] /\ at[s] = "open" /\ outcome[s] = "none"
  /\ s \notin revoked
  /\ revoked' = revoked \cup {s}
  /\ UNCHANGED <<startVars, netVars, queueVars, callVars, errorVars, stopVars,
                 activeStreams>>

-----------------------------------------------------------------------------
(* SerialStreamDispatch::Enqueue.                                          *)
FullByBytes(s, item) == item # End /\ pendingBytes[s] > MaxBytes - Size(item)

Full(s, item) ==
  item # End /\ (Len(tasks[s]) >= MaxTasks \/ pendingBytes[s] > MaxBytes - Size(item))

Enqueue(s, item) ==
  /\ tasks' = [tasks EXCEPT ![s] = Append(@, item)]
  /\ pendingBytes' = [pendingBytes EXCEPT ![s] = @ + Size(item)]
  /\ scheduled' = [scheduled EXCEPT ![s] = TRUE]
  /\ executor' = IF scheduled[s] THEN executor ELSE Append(executor, s)

(* RecordError keeps the first error, silences the stream and cancels it.  *)
RecordError(s, why) ==
  /\ dispatchError' = [dispatchError EXCEPT ![s] = IF @ = "none" THEN why ELSE @]
  /\ suppressed' = [suppressed EXCEPT ![s] = TRUE]
  /\ revoked' = revoked \cup {s}

(* libcurl delivers the metadata, then chunk after chunk; a body chunk of  *)
(* a cancelled stream is refused, which fails the transfer.                *)
Receive(s) ==
  LET item == arrived[s] + 1
  IN  /\ net[s] = "running" /\ item <= Len(Sizes)
      /\ item = Metadata \/ ~cancelAsked[s]
      /\ arrived' = [arrived EXCEPT ![s] = item]
      /\ \/ ~Full(s, item) /\ Enqueue(s, item) /\ UNCHANGED <<errorVars, revoked>>
         \/ Full(s, item) /\ RecordError(s, "backlog") /\ UNCHANGED queueVars
      /\ UNCHANGED <<startVars, net, code, callVars, stopVars, activeStreams>>

(* The reactor completes the transfer: Finish first lets Shutdown go on    *)
(* (Finalize), then queues the terminal task whatever the backlog.         *)
Finalize(s) ==
  /\ net[s] = "running"
  /\ \E c \in {"ok", "error"} \cup (IF s \in revoked THEN {"aborted"} ELSE {}) :
       code' = [code EXCEPT ![s] = c]
  /\ net' = [net EXCEPT ![s] = "finalizing"]
  /\ activeStreams' = activeStreams - 1
  /\ UNCHANGED <<startVars, arrived, queueVars, callVars, errorVars, stopVars, revoked>>

Finish(s) ==
  /\ net[s] = "finalizing"
  /\ net' = [net EXCEPT ![s] = "done"]
  /\ Enqueue(s, End)
  /\ UNCHANGED <<startVars, code, arrived, callVars, errorVars, stopVars, revoked, activeStreams>>

-----------------------------------------------------------------------------
(* A worker of StreamDispatchExecutor runs Drain for one stream.           *)
Run(w) ==
  /\ worker[w] = Free /\ executor # <<>>
  /\ worker' = [worker EXCEPT ![w] = [stream |-> Head(executor), step |-> "fetch", item |-> End]]
  /\ executor' = Tail(executor)
  /\ UNCHANGED <<startVars, netVars, tasks, pendingBytes, scheduled, called, outcome,
                 errorVars, stopVars, revoked, activeStreams>>

(* Drain takes the next task, or gives up the stream under its mutex.      *)
Drain(w) ==
  LET s == worker[w].stream
  IN  /\ worker[w].step = "fetch"
      /\ \/ /\ tasks[s] = <<>>
            /\ scheduled' = [scheduled EXCEPT ![s] = FALSE]
            /\ worker' = [worker EXCEPT ![w] = Free]
            /\ UNCHANGED <<tasks, pendingBytes>>
         \/ /\ tasks[s] # <<>>
            /\ worker' = [worker EXCEPT ![w].step = "check", ![w].item = Head(tasks[s])]
            /\ tasks' = [tasks EXCEPT ![s] = Tail(@)]
            /\ pendingBytes' = [pendingBytes EXCEPT ![s] = @ - Size(Head(tasks[s]))]
            /\ UNCHANGED scheduled
      /\ UNCHANGED <<startVars, netVars, executor, called, outcome, errorVars, stopVars,
                     revoked, activeStreams>>

(* The task of a handler looks at the two suppress flags and calls it.     *)
CallHandler(w) ==
  LET s == worker[w].stream
      quiet == shuttingDown \/ suppressed[s]
  IN  /\ worker[w].step = "check" /\ worker[w].item # End
      /\ worker' = [worker EXCEPT ![w].step = IF quiet THEN "fetch" ELSE "handler"]
      /\ called' = IF quiet THEN called
                   ELSE [called EXCEPT ![s] = Append(@, worker[w].item)]
      /\ UNCHANGED <<startVars, netVars, queueVars, outcome, errorVars, stopVars, revoked,
                     activeStreams>>

HandlerReturns(w) ==
  LET s == worker[w].stream
  IN  /\ worker[w].step = "handler"
      /\ worker' = [worker EXCEPT ![w].step = "fetch"]
      /\ \/ UNCHANGED <<errorVars, revoked>>
         \/ RecordError(s, "handler")
      /\ UNCHANGED <<startVars, netVars, queueVars, called, outcome, stopVars,
                     activeStreams>>

(* The terminal task: BuildResult, ReleaseStreamSlot, completion.  Without *)
(* metadata so far BuildResult queues the metadata task behind itself.     *)
BuildResultFromCode(s) ==
  IF code[s] = "ok" THEN "ok" ELSE IF cancelAsked[s] THEN "cancelled" ELSE "failed"

BuildResult(s) ==
  IF dispatchError[s] # "none" THEN dispatchError[s]
  ELSE IF code[s] = "ok" THEN "ok"
  ELSE IF cancelAsked[s] THEN "cancelled" ELSE "failed"

ReleaseStreamSlot ==
  idleSlots' = IF ~shuttingDown /\ idleSlots < MaxIdle THEN idleSlots + 1 ELSE idleSlots

Complete(w) ==
  LET s == worker[w].stream
  IN  /\ worker[w].step = "check" /\ worker[w].item = End
      /\ outcome' = [outcome EXCEPT ![s] = BuildResult(s)]
      /\ IF BuildResult(s) = "ok" /\ arrived[s] = -1 /\ ~Full(s, Metadata)
         THEN Enqueue(s, Metadata) ELSE UNCHANGED queueVars
      /\ ReleaseStreamSlot
      /\ called' = [called EXCEPT ![s] = Append(@, End)]
      /\ worker' = [worker EXCEPT ![w].step = "completion"]
      /\ UNCHANGED <<at, netVars, errorVars, stopVars, revoked, activeStreams>>

CompletionReturns(w) ==
  /\ worker[w].step = "completion"
  /\ worker' = [worker EXCEPT ![w].step = "fetch"]
  /\ UNCHANGED <<startVars, netVars, queueVars, called, outcome, errorVars, stopVars,
                 revoked, activeStreams>>

-----------------------------------------------------------------------------
(* Client::Shutdown.  CancelOwner revokes every stream the client has      *)
(* added; a caller inside a callback of this client does not wait.         *)
BeginShutdown ==
  /\ shuttingDown' = TRUE /\ idleSlots' = 0
  /\ revoked' = IF activeStreams # 0 THEN revoked \cup {s \in Streams : net[s] = "running"}
                                     ELSE revoked

Shutdown ==
  /\ shutdown = "idle" /\ BeginShutdown
  /\ shutdown' = "waiting"
  /\ UNCHANGED <<at, netVars, queueVars, callVars, errorVars, cancelAsked, activeStreams>>

ShutdownReturns ==
  /\ shutdown = "waiting" /\ activeStreams = 0
  /\ shutdown' = "returned"
  /\ UNCHANGED <<startVars, netVars, queueVars, callVars, errorVars, cancelAsked,
                 shuttingDown, revoked, activeStreams>>

(* A callback that calls Shutdown goes on afterwards.                      *)
ShutdownInCallback(w) ==
  /\ worker[w].step \in {"handler", "completion"} /\ ~shuttingDown
  /\ BeginShutdown
  /\ UNCHANGED <<at, netVars, queueVars, callVars, errorVars, cancelAsked, shutdown,
                 activeStreams>>

Starts(s) == AcquireStreamSlot(s) \/ Register(s) \/ RegisterCancellation(s)
Dispatches(w) == \/ Run(w) \/ Drain(w) \/ CallHandler(w) \/ HandlerReturns(w)
                 \/ Complete(w) \/ CompletionReturns(w)

Next == \/ \E s \in Streams : \/ Starts(s) \/ Cancel(s) \/ WatchCancellation(s)
                              \/ Receive(s) \/ Finalize(s) \/ Finish(s)
        \/ \E w \in Workers : Dispatches(w) \/ ShutdownInCallback(w)
        \/ Shutdown \/ ShutdownReturns

(* Callbacks return, workers, the watcher and a started call are           *)
(* scheduled, and the reactor completes what it was told to abort          *)
(* (CurlReactor!CancelTakesEffect).  Nobody has to start, cancel or end.   *)
Fairness ==
  /\ \A s \in Streams : /\ WF_vars(at[s] # "idle" /\ Starts(s))
                        /\ WF_vars(WatchCancellation(s)) /\ WF_vars(Finish(s))
                        /\ WF_vars(s \in revoked /\ Finalize(s))
  /\ \A w \in Workers : WF_vars(Dispatches(w))
  /\ WF_vars(ShutdownReturns)

Spec == Init /\ [][Next]_vars /\ Fairness

-----------------------------------------------------------------------------
Serving(s) == {w \in Workers : worker[w].stream = s}

TypeOK ==
  /\ at \in [Streams -> {"idle", "fresh", "configure", "registering", "open", "refused"}]
  /\ net \in [Streams -> {"none", "running", "finalizing", "done"}]
  /\ \A s \in Streams : arrived[s] \in -1 .. Len(Sizes) /\ pendingBytes[s] \in Nat
  /\ activeStreams \in 0 .. Cardinality(Streams) /\ idleSlots \in 0 .. MaxIdle
  /\ outcome \in [Streams -> {"none", "ok", "backlog", "handler", "failed", "cancelled"}]

(* The callbacks of a stream are serialized: one worker at a time has the  *)
(* stream, and a stream with tasks has a worker or is in the executor's    *)
(* queue exactly once.                                                     *)
OneDrainPerStream ==
  \A s \in Streams :
    Cardinality(Serving(s)) + Cardinality({i \in DOMAIN executor : executor[i] = s})
      = IF scheduled[s] THEN 1 ELSE 0

(* The handlers see the chunks of the stream in order and without a gap,   *)
(* after its metadata, and none after the completion, which is called at   *)
(* most once; a stream that was refused is never called.                   *)
OrderedCallbacks ==
  \A s \in Streams :
    LET chunks == SelectSeq(called[s], LAMBDA i : i > 0)
        ends == {i \in DOMAIN called[s] : called[s][i] = End}
    IN  /\ chunks = [i \in 1 .. Len(chunks) |-> i]
        /\ chunks # <<>> => called[s][1] = Metadata
        /\ Cardinality(ends) <= 1
        /\ \A i \in ends, j \in DOMAIN called[s] : called[s][j] > 0 => j < i
        /\ at[s] = "refused" => called[s] = <<>>

(* The backlog of a stream stays within both limits, and pending_bytes_ is *)
(* the size of what is queued.                                             *)
BacklogBounded ==
  \A s \in Streams :
    /\ Len(SelectSeq(tasks[s], LAMBDA i : i # End)) <= MaxTasks
    /\ pendingBytes[s] <= MaxBytes
    /\ pendingBytes[s] = FoldLeft(LAMBDA n, i : n + Size(i), 0, tasks[s])

(* active_streams counts exactly the transfers the reactor still has, so   *)
(* Shutdown never returns with one left, and every stream that was added   *)
(* before a shutdown has been told to stop.                                *)
ActiveExact ==
  /\ activeStreams = Cardinality({s \in Streams : net[s] = "running"})
  /\ shuttingDown => \A s \in Streams : net[s] = "running" => s \in revoked
  /\ shutdown = "returned" => \A s \in Streams : net[s] # "running"

(* No chunk is lost silently: unless the client was shut down, a stream    *)
(* that completes as a success has given its handler every chunk that      *)
(* arrived, so a full backlog or a refusing handler is always reported.    *)
LossReported ==
  \A s \in Streams :
    outcome[s] = "ok" /\ ~shuttingDown =>
      \A c \in 1 .. arrived[s] : c \in Range(called[s])

(* Every stream that is cancelled, or whose client shuts down, completes.  *)
StoppedStreamCompletes ==
  \A s \in Streams :
    (net[s] = "running" /\ (cancelAsked[s] \/ shuttingDown)) ~> (outcome[s] # "none")

=============================================================================
