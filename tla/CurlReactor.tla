----------------------------- MODULE CurlReactor -----------------------------
(***************************************************************************)
(* One CurlStreamReactor: a thread that owns a libcurl multi handle, and a *)
(* command queue through which every other thread talks to it.  A call     *)
(* pushes its command under command_mutex_ and signals the eventfd only    *)
(* after it let the mutex go, so the two are separate steps here.  The     *)
(* reactor drains the eventfd, swaps the queue out and works through the   *)
(* batch without the mutex.  libcurl and epoll are external: any driven    *)
(* transfer may finish in any call of curl_multi_socket_action.            *)
(***************************************************************************)
EXTENDS Integers, Sequences, FiniteSets, Functions

CONSTANTS Transfers, Handles, Owners, NoTransfer,
          HandleOf,     \* the easy handle a transfer is configured on
          OwnerOf,      \* the client state that started it
          MaxRequests   \* bound on the Cancel and CancelOwner calls

ASSUME ReactorAssumption ==
  /\ HandleOf \in [Transfers -> Handles] /\ OwnerOf \in [Transfers -> Owners]
  /\ NoTransfer \notin Transfers /\ MaxRequests \in Nat

VARIABLES
  commands,          \* commands_
  shutdownEnqueued,  \* shutdown_enqueued_
  unsignalled,       \* calls that have pushed and not yet called Wake
  eventfd,           \* wakeup_descriptor_ is readable
  at,                \* where the reactor thread is
  nested,            \* ProcessCommands was called from WaitForLinuxEvents
  batch,             \* the commands ProcessCommands swapped out
  ready,             \* events of the current epoll batch still to handle
  shuttingDown,      \* shutting_down_
  transfers,         \* transfers_: the transfer driven on each easy handle
  messages,          \* CURLMSG_DONE waiting in the multi handle
  result,            \* done and result of each transfer
  completions,       \* how often on_complete was called
  revoked,           \* history: transfers somebody asked to abort
  requests,          \* Cancel and CancelOwner calls so far
  pollFailed         \* history: epoll_wait failed

callVars == <<commands, shutdownEnqueued, unsignalled, requests>>
curlVars == <<transfers, messages>>
doneVars == <<result, completions>>
vars == <<callVars, eventfd, at, nested, batch, ready, shuttingDown, curlVars,
          doneVars, revoked, pollFailed>>

Add(t)         == [type |-> "add", transfer |-> t]
Cancel(t)      == [type |-> "cancel", transfer |-> t]
CancelOwner(o) == [type |-> "cancelOwner", owner |-> o]
Shutdown       == [type |-> "shutdown"]
Commands == {Add(t) : t \in Transfers} \cup {Cancel(t) : t \in Transfers}
              \cup {CancelOwner(o) : o \in Owners} \cup {Shutdown}

Undriven == [h \in Handles |-> NoTransfer]
Silent == [h \in Handles |-> "none"]
Driven == {transfers[h] : h \in Handles} \ {NoTransfer}
Events == {"wake", "timer"} \cup Handles

Init == /\ commands = <<>> /\ shutdownEnqueued = FALSE /\ unsignalled = 0
        /\ eventfd = FALSE /\ at = "swap" /\ nested = FALSE /\ batch = <<>>
        /\ ready = {} /\ shuttingDown = FALSE
        /\ transfers = Undriven /\ messages = Silent
        /\ result = [t \in Transfers |-> "idle"]
        /\ completions = [t \in Transfers |-> 0]
        /\ revoked = {} /\ requests = 0 /\ pollFailed = FALSE

-----------------------------------------------------------------------------
(* Complete for every transfer of DOMAIN r: the first caller sets done and *)
(* runs on_complete, a later one returns.                                  *)
CompleteAgain(r) ==
  /\ result' = [t \in Transfers |-> IF t \in DOMAIN r THEN r[t] ELSE result[t]]
  /\ completions' = [t \in Transfers |->
                       completions[t] + IF t \in DOMAIN r THEN 1 ELSE 0]

Complete(r) ==
  LET first == {t \in DOMAIN r : result[t] = "pending"}
  IN  /\ result' = [t \in Transfers |-> IF t \in first THEN r[t] ELSE result[t]]
      /\ completions' = [t \in Transfers |->
                           completions[t] + IF t \in first THEN 1 ELSE 0]

CompleteAll(S, why) == Complete([t \in S |-> why])

(* Enqueue: refused with an abort once a shutdown is in the queue.         *)
EnqueueAlways(c) ==
  /\ commands' = Append(commands, c)
  /\ unsignalled' = unsignalled + 1
  /\ shutdownEnqueued' = (shutdownEnqueued \/ c = Shutdown)

Push(c) == /\ ~shutdownEnqueued \/ c = Shutdown
           /\ EnqueueAlways(c)

(* A stream slot, and so its easy handle, serves one transfer at a time.   *)
HandleFree(t) == \A u \in Transfers : HandleOf[u] = HandleOf[t] => result[u] # "pending"

CallAdd(t) ==
  /\ result[t] = "idle" /\ HandleFree(t)
  /\ \/ /\ Push(Add(t))
        /\ result' = [result EXCEPT ![t] = "pending"]
        /\ UNCHANGED completions
     \/ /\ shutdownEnqueued
        /\ result' = [result EXCEPT ![t] = "aborted"]
        /\ completions' = [completions EXCEPT ![t] = @ + 1]
        /\ UNCHANGED <<commands, unsignalled, shutdownEnqueued>>
  /\ UNCHANGED <<requests, eventfd, at, nested, batch, ready, shuttingDown,
                 curlVars, revoked, pollFailed>>

CallCancel(t) ==
  /\ result[t] # "idle" /\ requests < MaxRequests
  /\ requests' = requests + 1
  /\ revoked' = revoked \cup {t}
  /\ \/ Push(Cancel(t)) /\ UNCHANGED doneVars
     \/ /\ shutdownEnqueued /\ CompleteAll({t}, "aborted")
        /\ UNCHANGED <<commands, unsignalled, shutdownEnqueued>>
  /\ UNCHANGED <<eventfd, at, nested, batch, ready, shuttingDown, curlVars,
                 pollFailed>>

(* After a shutdown the call has no transfer to complete and does nothing. *)
CallCancelOwner(o) ==
  /\ requests < MaxRequests
  /\ requests' = requests + 1
  /\ Push(CancelOwner(o))
  /\ revoked' = revoked \cup {t \in Transfers : OwnerOf[t] = o /\ result[t] = "pending"}
  /\ UNCHANGED <<eventfd, at, nested, batch, ready, shuttingDown, curlVars,
                 doneVars, pollFailed>>

CallShutdown ==
  /\ ~shutdownEnqueued /\ Push(Shutdown)
  /\ revoked' = Transfers
  /\ UNCHANGED <<requests, eventfd, at, nested, batch, ready, shuttingDown,
                 curlVars, doneVars, pollFailed>>

Wake ==
  /\ unsignalled > 0
  /\ unsignalled' = unsignalled - 1
  /\ eventfd' = TRUE
  /\ UNCHANGED <<commands, shutdownEnqueued, requests, at, nested, batch, ready,
                 shuttingDown, curlVars, doneVars, revoked, pollFailed>>

-----------------------------------------------------------------------------
(* The reactor thread.  ProcessCommands swaps the whole queue out.         *)
Swap ==
  /\ at = "swap"
  /\ batch' = commands /\ commands' = <<>>
  /\ at' = "batch"
  /\ UNCHANGED <<shutdownEnqueued, unsignalled, requests, eventfd, nested, ready,
                 shuttingDown, curlVars, doneVars, revoked, pollFailed>>

FailAll(driven) ==
  /\ transfers' = Undriven /\ messages' = Silent
  /\ CompleteAll({driven[h] : h \in Handles} \ {NoTransfer}, "error")

(* ReadCompletions: every finished transfer leaves the multi handle and is *)
(* completed with libcurl's result.                                        *)
ReadCompletions(driven, msgs) ==
  LET finished == {h \in Handles : msgs[h] # "none" /\ driven[h] # NoTransfer}
  IN  /\ transfers' = [h \in Handles |-> IF h \in finished THEN NoTransfer ELSE driven[h]]
      /\ messages' = Silent
      /\ Complete([t \in {driven[h] : h \in finished} |-> msgs[HandleOf[t]]])

(* curl_multi_socket_action: some of the driven transfers finish.          *)
Progress(driven) ==
  {m \in [Handles -> {"none", "ok", "error"}] :
     \A h \in Handles :
       /\ driven[h] = NoTransfer => m[h] = "none"
       /\ messages[h] # "none" => m[h] = messages[h]}

AddOnReactor(t) ==
  LET driven == [transfers EXCEPT ![HandleOf[t]] = t]
  IN  \/ /\ shuttingDown
         /\ CompleteAll({t}, "aborted") /\ UNCHANGED curlVars
      \/ /\ ~shuttingDown     \* curl_multi_add_handle refused
         /\ CompleteAll({t}, "failed_init") /\ UNCHANGED curlVars
      \/ /\ ~shuttingDown /\ transfers[HandleOf[t]] = NoTransfer
         /\ \/ FailAll(driven)
            \/ \E m \in Progress(driven) : ReadCompletions(driven, m)

(* Remove drops the handle only if it still drives this very transfer.     *)
RemoveByHandle(t) ==
  /\ transfers' = [transfers EXCEPT ![HandleOf[t]] = NoTransfer]
  /\ messages' = [messages EXCEPT ![HandleOf[t]] = "none"]
  /\ CompleteAll({t}, "aborted")

Remove(t) ==
  /\ IF transfers[HandleOf[t]] = t
     THEN /\ transfers' = [transfers EXCEPT ![HandleOf[t]] = NoTransfer]
          /\ messages' = [messages EXCEPT ![HandleOf[t]] = "none"]
     ELSE UNCHANGED curlVars
  /\ CompleteAll({t}, "aborted")

RemoveEveryOwner(o) ==
  /\ transfers' = Undriven /\ messages' = Silent
  /\ CompleteAll(Driven, "aborted")

RemoveOwner(o) ==
  LET hit == {t \in Driven : OwnerOf[t] = o}
  IN  /\ transfers' = [h \in Handles |->
                         IF transfers[h] \in hit THEN NoTransfer ELSE transfers[h]]
      /\ messages' = [h \in Handles |->
                        IF transfers[h] \in hit THEN "none" ELSE messages[h]]
      /\ CompleteAll(hit, "aborted")

(* One command of the batch; the rest of the batch is worked through even  *)
(* after a shutdown command.                                               *)
Execute ==
  /\ at = "batch" /\ batch # <<>>
  /\ batch' = Tail(batch)
  /\ LET c == Head(batch)
     IN  /\ \/ c.type = "add" /\ AddOnReactor(c.transfer)
            \/ c.type = "cancel" /\ Remove(c.transfer)
            \/ c.type = "cancelOwner" /\ RemoveOwner(c.owner)
            \/ c.type = "shutdown" /\ UNCHANGED <<curlVars, doneVars>>
         /\ shuttingDown' = (shuttingDown \/ c.type = "shutdown")
  /\ UNCHANGED <<callVars, eventfd, at, nested, ready, revoked, pollFailed>>

(* The end of ProcessCommands, back in Run or in WaitForLinuxEvents.       *)
ReturnDraining ==
  /\ at = "batch" /\ batch = <<>>
  /\ at' = IF nested THEN "events" ELSE IF shuttingDown THEN "exit" ELSE "wait"
  /\ eventfd' = (eventfd /\ nested)
  /\ UNCHANGED <<callVars, nested, batch, ready, shuttingDown, curlVars, doneVars,
                 revoked, pollFailed>>

Return ==
  /\ at = "batch" /\ batch = <<>>
  /\ at' = IF nested THEN "events" ELSE IF shuttingDown THEN "exit" ELSE "wait"
  /\ UNCHANGED <<callVars, eventfd, nested, batch, ready, shuttingDown, curlVars,
                 doneVars, revoked, pollFailed>>

(* epoll_wait: level triggered, so a signalled eventfd is always reported. *)
EpollWait ==
  /\ at = "wait"
  /\ \E E \in SUBSET Events :
       /\ E # {} /\ ("wake" \in E <=> eventfd)
       /\ E \subseteq {"wake", "timer"} \cup {h \in Handles : transfers[h] # NoTransfer}
       /\ "timer" \in E => Driven # {}
       /\ ready' = E
  /\ at' = "events"
  /\ UNCHANGED <<callVars, eventfd, nested, batch, shuttingDown, curlVars,
                 doneVars, revoked, pollFailed>>

EpollFails ==
  /\ at = "wait"
  /\ FailAll(transfers)
  /\ shuttingDown' = TRUE /\ pollFailed' = TRUE /\ at' = "read"
  /\ UNCHANGED <<callVars, eventfd, nested, batch, ready, revoked>>

(* The eventfd is drained before the queue is swapped: a command pushed    *)
(* after the swap finds it clear and signals it again.                     *)
Drain ==
  /\ at = "events" /\ "wake" \in ready
  /\ ready' = ready \ {"wake"}
  /\ eventfd' = FALSE
  /\ nested' = TRUE /\ at' = "swap"
  /\ UNCHANGED <<callVars, batch, shuttingDown, curlVars, doneVars, revoked,
                 pollFailed>>

(* A timer or a socket: a socket removed earlier in this batch is          *)
(* CURLM_BAD_SOCKET and tolerated, any other failure fails every transfer. *)
SocketAction ==
  /\ at = "events"
  /\ \E e \in ready \ {"wake"} :
       /\ ready' = ready \ {e}
       /\ \/ FailAll(transfers)
          \/ /\ \E m \in Progress(transfers) : messages' = m
             /\ UNCHANGED <<transfers, doneVars>>
  /\ UNCHANGED <<callVars, eventfd, at, nested, batch, shuttingDown, revoked,
                 pollFailed>>

EventsHandled ==
  /\ at = "events" /\ ready = {}
  /\ at' = "read" /\ nested' = FALSE
  /\ UNCHANGED <<callVars, eventfd, batch, ready, shuttingDown, curlVars,
                 doneVars, revoked, pollFailed>>

EndOfTurn ==
  /\ at = "read"
  /\ ReadCompletions(transfers, messages)
  /\ at' = IF shuttingDown THEN "exit" ELSE "swap"
  /\ UNCHANGED <<callVars, eventfd, nested, batch, ready, shuttingDown, revoked,
                 pollFailed>>

(* After the loop every transfer still driven is aborted.                  *)
Exit ==
  /\ at = "exit" /\ at' = "stopped"
  /\ transfers' = Undriven /\ messages' = Silent
  /\ CompleteAll(Driven, "aborted")
  /\ UNCHANGED <<callVars, eventfd, nested, batch, ready, shuttingDown, revoked,
                 pollFailed>>

Reactor == \/ Swap \/ Execute \/ Return \/ EpollWait \/ Drain \/ SocketAction
           \/ EventsHandled \/ EndOfTurn \/ Exit

Next == \/ \E t \in Transfers : CallAdd(t) \/ CallCancel(t)
        \/ \E o \in Owners : CallCancelOwner(o)
        \/ CallShutdown \/ Wake \/ EpollFails \/ Reactor

(* The reactor thread and a thread inside Wake are scheduled; nobody has   *)
(* to call the reactor and epoll_wait need not fail.                       *)
Spec == Init /\ [][Next]_vars /\ WF_vars(Reactor) /\ WF_vars(Wake)

-----------------------------------------------------------------------------
TypeOK ==
  /\ commands \in Seq(Commands) /\ batch \in Seq(Commands)
  /\ unsignalled \in Nat /\ eventfd \in BOOLEAN /\ nested \in BOOLEAN
  /\ at \in {"swap", "batch", "wait", "events", "read", "exit", "stopped"}
  /\ ready \subseteq Events
  /\ transfers \in [Handles -> Transfers \cup {NoTransfer}]
  /\ messages \in [Handles -> {"none", "ok", "error"}]
  /\ result \in [Transfers -> {"idle", "pending", "ok", "error", "failed_init", "aborted"}]

Queued(t) == \E q \in {commands, batch} : Add(t) \in Range(q)

(* A transfer handed to Add and not yet completed is in the queue, in the  *)
(* batch or driven by libcurl under its own easy handle: a late Cancel of  *)
(* the transfer that had the handle before never loses it.  Only a failed  *)
(* epoll_wait stops the reactor before it has worked through its queue.    *)
NoTransferLost ==
  \A t \in Transfers :
    result[t] = "pending" =>
      /\ Queued(t) \/ transfers[HandleOf[t]] = t
      /\ at = "stopped" => pollFailed

(* libcurl never drives an easy handle whose transfer has been reported    *)
(* complete, when the slot may already configure the handle for the next   *)
(* stream; after Shutdown a Cancel completes its transfer at once, and no  *)
(* stream can be added any more.                                           *)
HandleReleased ==
  ~shutdownEnqueued =>
    \A h \in Handles :
      transfers[h] # NoTransfer =>
        HandleOf[transfers[h]] = h /\ result[transfers[h]] = "pending"

(* The reactor never sleeps on work it was told of: when it is about to    *)
(* wait and a command is queued, the eventfd is signalled or the caller    *)
(* that pushed it has yet to signal.                                       *)
NoLostWakeup ==
  at = "wait" /\ commands # <<>> => eventfd \/ unsignalled > 0

(* on_complete runs exactly once for a completed transfer.                 *)
CompletedOnce ==
  \A t \in Transfers :
    completions[t] = IF result[t] \in {"idle", "pending"} THEN 0 ELSE 1

(* The reactor implements the contract its clients program against.        *)
Contract == INSTANCE TransferContract
ImplementsContract == Contract!Spec

(* A cancelled stream is completed: the command is not lost between the    *)
(* queue, the batch and a reactor that is shutting down; and Shutdown's    *)
(* join returns, as the reactor thread leaves its loop.                    *)
CancelTakesEffect ==
  /\ \A t \in Transfers :
       (result[t] = "pending" /\ t \in revoked) ~> (result[t] # "pending" \/ pollFailed)
  /\ shutdownEnqueued ~> at = "stopped"
=============================================================================
