------------------------------ MODULE MCClient ------------------------------
(***************************************************************************)
(* The parts of a client, instances of the components side by side.  They  *)
(* share no state in the program; a behaviour is one of one part, which    *)
(* the initial state chooses, and each property is about one part.  A      *)
(* variable that two parts name is the running part's.                     *)
(***************************************************************************)
EXTENDS Naturals, Sequences

VARIABLES part,
    (* ClientStream and HttpStream *)
    at, net, worker, shutdown,
    (* ClientStream *)
    kind, calling, left, chunks, meta, failed, netRevoked, cancelRequested,
    active, registered, scope, canceller, clientDown, destroy, sent, seen,
    (* HttpStream *)
    code, arrived, tasks, pendingBytes, scheduled, executor, dispatchError,
    suppressed, called, outcome, cancelAsked, revoked, activeStreams,
    shuttingDown, idleSlots,
    (* ReactorPool *)
    refs, mutex, next, created, dead, primary, requested, stream, holders,
    cancelled, pc, shard, releasing, deferrals, joining, deferred, selfJoin

CONSTANT Off  \* of a variable no running part has

SharedOff == at = Off /\ net = Off /\ worker = Off /\ shutdown = Off
sharedVars == <<at, net, worker, shutdown>>

-----------------------------------------------------------------------------
(* Handles of the three transports: a borrowed worker and two threads that *)
(* cancel, and handles that own their worker and one thread that cancels.  *)
Rest == INSTANCE ClientStream WITH
    Protocol <- "rest", Owned <- FALSE, Cancellers <- {"c1", "c2"}, MaxChunks <- 2, MaxEvents <- 1
JsonRpc == INSTANCE ClientStream WITH
    Protocol <- "jsonrpc", Owned <- TRUE, Cancellers <- {"c1"}, MaxChunks <- 2, MaxEvents <- 2
Grpc == INSTANCE ClientStream WITH
    Protocol <- "grpc", Owned <- TRUE, Cancellers <- {"c1"}, MaxChunks <- 2, MaxEvents <- 2

handleVars ==
  <<kind, calling, left, chunks, meta, failed, netRevoked, cancelRequested,
    active, registered, scope, canceller, clientDown, destroy, sent, seen>>
HandleOff ==
    /\ kind = Off /\ calling = Off /\ left = Off /\ chunks = Off /\ meta = Off /\ failed = Off
    /\ netRevoked = Off /\ cancelRequested = Off /\ active = Off /\ registered = Off /\ scope = Off /\ canceller = Off
    /\ clientDown = Off /\ destroy = Off /\ sent = Off /\ seen = Off

-----------------------------------------------------------------------------
(* A stream dispatched by two workers, with a backlog of two chunks, and a *)
(* synchronous one.                                                        *)
Async == INSTANCE HttpStream WITH
    Streams <- {"s1"}, Workers <- {"w1", "w2"}, NoStream <- "none", SyncStreams <- {},
    Sizes <- <<1, 2, 1>>, MaxTasks <- 2, MaxBytes <- 3, MaxIdle <- 1
Sync == INSTANCE HttpStream WITH
    Streams <- {"s1"}, Workers <- {"w1"}, NoStream <- "none", SyncStreams <- {"s1"},
    Sizes <- <<1, 2>>, MaxTasks <- 2, MaxBytes <- 3, MaxIdle <- 1

httpVars ==
  <<code, arrived, tasks, pendingBytes, scheduled, executor, dispatchError,
    suppressed, called, outcome, cancelAsked, revoked, activeStreams,
    shuttingDown, idleSlots>>
HttpOff ==
    /\ code = Off /\ arrived = Off /\ tasks = Off /\ pendingBytes = Off /\ scheduled = Off
    /\ executor = Off /\ dispatchError = Off /\ suppressed = Off /\ called = Off /\ outcome = Off
    /\ cancelAsked = Off /\ revoked = Off /\ activeStreams = Off /\ shuttingDown = Off /\ idleSlots = Off

-----------------------------------------------------------------------------
(* One client and two shards.                                              *)
Pool == INSTANCE ReactorPool WITH Clients <- {"c1"}, PoolSize <- 2, MaxReactors <- 3

poolVars ==
  <<refs, mutex, next, created, dead, primary, requested, stream, holders,
    cancelled, pc, shard, releasing, deferrals, joining, deferred, selfJoin>>
PoolOff ==
    /\ refs = Off /\ mutex = Off /\ next = Off /\ created = Off /\ dead = Off /\ primary = Off
    /\ requested = Off /\ stream = Off /\ holders = Off /\ cancelled = Off /\ pc = Off /\ shard = Off
    /\ releasing = Off /\ deferrals = Off /\ joining = Off /\ deferred = Off /\ selfJoin = Off

-----------------------------------------------------------------------------
(* What the components assume of their constants. *)
ASSUME
    /\ Rest!ClientStreamAssumption /\ JsonRpc!ClientStreamAssumption /\ Grpc!ClientStreamAssumption
    /\ Async!StreamAssumption /\ Sync!StreamAssumption /\ Pool!PoolAssumption

vars == <<part, sharedVars, handleVars, httpVars, poolVars>>

Handles == {"rest", "jsonrpc", "grpc"}
Transfers == {"async", "sync"}

Init ==
    \/ /\ \/ part = "rest" /\ Rest!Init
          \/ part = "jsonrpc" /\ JsonRpc!Init
          \/ part = "grpc" /\ Grpc!Init
       /\ HttpOff /\ PoolOff
    \/ /\ \/ part = "async" /\ Async!Init
          \/ part = "sync" /\ Sync!Init
       /\ HandleOff /\ PoolOff
    \/ part = "pool" /\ Pool!Init /\ SharedOff /\ HandleOff /\ HttpOff

Next ==
    \/ part = "rest" /\ Rest!Next /\ UNCHANGED <<part, httpVars, poolVars>>
    \/ part = "jsonrpc" /\ JsonRpc!Next /\ UNCHANGED <<part, httpVars, poolVars>>
    \/ part = "grpc" /\ Grpc!Next /\ UNCHANGED <<part, httpVars, poolVars>>
    \/ part = "async" /\ Async!Next /\ UNCHANGED <<part, handleVars, poolVars>>
    \/ part = "sync" /\ Sync!Next /\ UNCHANGED <<part, handleVars, poolVars>>
    \/ part = "pool" /\ Pool!Next /\ UNCHANGED <<part, sharedVars, handleVars, httpVars>>

(* What the components assume of their scheduling.                         *)
Handle(rest, jsonrpc, grpc) ==
    (part = "rest" /\ rest) \/ (part = "jsonrpc" /\ jsonrpc) \/ (part = "grpc" /\ grpc)
Transfer(async, sync) == (part = "async" /\ async) \/ (part = "sync" /\ sync)

HandleFairness ==
    /\ WF_(Rest!vars)(Handle(Rest!Delivers, JsonRpc!Delivers, Grpc!Delivers))
    /\ WF_(Rest!vars)(Handle(Rest!RegisterCancelCallback, JsonRpc!RegisterCancelCallback, Grpc!RegisterCancelCallback))
    /\ WF_(Rest!vars)(Handle(netRevoked /\ Rest!TransferEnds, netRevoked /\ JsonRpc!TransferEnds, netRevoked /\ Grpc!TransferEnds))
    /\ WF_(Rest!vars)(Handle(Rest!ClientShutdown, JsonRpc!ClientShutdown, Grpc!ClientShutdown))
    /\ WF_(Rest!vars)(Handle(Rest!DestroyReturns, JsonRpc!DestroyReturns, Grpc!DestroyReturns))
    /\ WF_(Rest!vars)(Handle(Rest!JoinReturns("c1"), JsonRpc!JoinReturns("c1"), Grpc!JoinReturns("c1")))
    /\ WF_(Rest!vars)(Handle(Rest!WaitForCallbackIdle("c1"), JsonRpc!WaitForCallbackIdle("c1"), Grpc!WaitForCallbackIdle("c1")))
    /\ WF_(Rest!vars)(part = "rest" /\ Rest!JoinReturns("c2"))
    /\ WF_(Rest!vars)(part = "rest" /\ Rest!WaitForCallbackIdle("c2"))

TransferFairness ==
    /\ WF_(Async!vars)(Transfer(at["s1"] # "idle" /\ Async!Starts("s1"), at["s1"] # "idle" /\ Sync!Starts("s1")))
    /\ WF_(Async!vars)(Transfer(Async!WatchCancellation("s1"), Sync!WatchCancellation("s1")))
    /\ WF_(Async!vars)(Transfer(Async!Finish("s1"), Sync!Finish("s1")))
    /\ WF_(Async!vars)(Transfer("s1" \in revoked /\ Async!Finalize("s1"), "s1" \in revoked /\ Sync!Finalize("s1")))
    /\ WF_(Async!vars)(Transfer(Async!Dispatches("w1"), Sync!Dispatches("w1")))
    /\ WF_(Async!vars)(part = "async" /\ Async!Dispatches("w2"))
    /\ WF_(Async!vars)(Transfer(Async!ShutdownReturns, Sync!ShutdownReturns))

PoolFairness ==
    /\ WF_(Pool!vars)(part = "pool" /\ Pool!Teardown("c1"))
    /\ WF_(Pool!vars)(part = "pool" /\ cancelled["c1"] /\ Pool!FinishStream("c1"))
    /\ \A th \in Pool!Threads : WF_(Pool!vars)(part = "pool" /\ Pool!Releases(th))
    /\ WF_(Pool!vars)(part = "pool" /\ Pool!DeferUnusedReactorRelease)

Spec == Init /\ [][Next]_vars /\ HandleFairness /\ TransferFairness /\ PoolFairness

-----------------------------------------------------------------------------
(* Properties of the parts *)

(* Once a Cancel has returned, no observer of any transport is called or   *)
(* running; OnError and OnCompleted are exclusive and come last.           *)
QuietAfterCancel ==
    /\ part = "rest" => Rest!QuietAfterCancel /\ Rest!OneTerminal /\ Rest!InactiveWhenOver
    /\ part = "jsonrpc" => JsonRpc!QuietAfterCancel /\ JsonRpc!OneTerminal /\ JsonRpc!InactiveWhenOver
    /\ part = "grpc" => Grpc!QuietAfterCancel /\ Grpc!OneTerminal /\ Grpc!InactiveWhenOver

(* OnCompleted is never called for a stream that was cut, refused or       *)
(* cancelled.                                                              *)
CompletedMeansWhole ==
    /\ part = "rest" => Rest!CompletedMeansWhole
    /\ part = "jsonrpc" => JsonRpc!CompletedMeansWhole

InCancel(c, places) == part \in Handles /\ c \in DOMAIN canceller /\ canceller[c] \in places

(* Cancel returns, and the cancelled stream ends, although the transport   *)
(* may register its own cancellation only afterwards.                      *)
CancelReturns ==
    /\ \A c \in {"c1", "c2"} : InCancel(c, {"join", "wait"}) ~> InCancel(c, {"returned"})
    /\ (part \in Handles /\ cancelRequested) ~> (part \in Handles /\ at = "over")

(* No chunk is lost silently: the handlers see the chunks in order, one    *)
(* worker at a time, from a bounded backlog, and a stream that completes   *)
(* as a success has given its handler every chunk that arrived.            *)
LossReported ==
    /\ part = "async" => /\ Async!LossReported /\ Async!OrderedCallbacks
                         /\ Async!OneDrainPerStream /\ Async!BacklogBounded /\ Async!ActiveExact
    /\ part = "sync" => Sync!LossReported /\ Sync!OrderedCallbacks /\ Sync!ActiveExact

(* Every stream that is cancelled, or whose client shuts down, completes,  *)
(* and Shutdown returns, also when a callback calls it.                    *)
StoppedStreamCompletes ==
    /\ (part \in Transfers /\ net["s1"] = "running" /\ (cancelAsked["s1"] \/ shuttingDown))
         ~> (part \in Transfers /\ outcome["s1"] # "none")
    /\ (part \in Transfers /\ shutdown = "waiting") ~> (part \in Transfers /\ shutdown = "returned")

(* Shutdown of a client returns, and once it is closed the pool keeps no   *)
(* reactor thread that nobody uses.                                        *)
PoolDrains ==
    /\ (part = "pool" /\ pc["c1"] # "open") ~> (part = "pool" /\ pc["c1"] = "closed")
    /\ (part = "pool" /\ pc["c1"] = "closed") ~> (part = "pool" /\ Pool!Live = {})
=============================================================================
