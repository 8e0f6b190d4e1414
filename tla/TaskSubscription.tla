-------------------------- MODULE TaskSubscription --------------------------
(***************************************************************************)
(* The server's live task subscriptions: TaskSubscriptionService, the      *)
(* coroutine each session runs (StreamResponseCoroutine) and the transport *)
(* loop that pumps a session's events to its client.                       *)
(*                                                                         *)
(* Threads: publishers call PublishTaskUpdated, the consumer thread of a   *)
(* session (named by the session) pumps it, cancellers call Cancel() on a  *)
(* session from outside, and the closer calls Shutdown().  A block under   *)
(* ServiceState::mutex, SubscriberState::mutex or promise_type::mutex_ is  *)
(* one step.  publication_mutex and resume_mutex_ are held across steps,   *)
(* so their owners are state.                                              *)
(*                                                                         *)
(* The n-th update published for a task is the number n and log[t][n] is   *)
(* the task state it carries; Snapshot is the current-task event that      *)
(* opens every stream.                                                     *)
(***************************************************************************)
EXTENDS Integers, Sequences, FiniteSets

CONSTANTS Tasks, States,
          Terminal,     \* the states core::IsTerminalTaskState accepts
          Publishers, Sessions, Cancellers, Closer,
          NoThread, NoTask,
          MaxPublish    \* bound: updates published per task

ASSUME ThreadsAssumption ==
    /\ Publishers \cap Sessions = {}
    /\ (Publishers \cup Sessions) \cap Cancellers = {}
    /\ Closer \notin Publishers \cup Sessions \cup Cancellers
    /\ NoThread \notin Publishers \cup Sessions \cup Cancellers \cup {Closer}
    /\ IsFiniteSet(Publishers) /\ IsFiniteSet(Sessions) /\ IsFiniteSet(Cancellers)

ASSUME DataAssumption ==
    /\ Terminal \subseteq States
    /\ NoTask \notin Tasks
    /\ MaxPublish \in Nat

Threads == Publishers \cup Sessions \cup Cancellers \cup {Closer}

NoEvent == -1
Snapshot == 0

VARIABLES
    shutdown, latest, subs,       \* ServiceState; latest[t] = 0: no entry for t
    publisher,                    \* owner of publication_mutex
    task, base, events, closed,   \* SubscriberState of each session; base: the
    pending, cancelled,           \*   updates its current_task already reflects
    continuation, activeResumes,
    at, event, isTerminal,        \* the coroutine frame: where it is suspended
                                  \*   or about to execute, and its locals
    value, resumeMutex,           \* its promise
    started, resumeAfterYield,    \* StreamResponseCoroutine
    pc, target, todo,             \* per thread: position, session, vector left
    message,                      \* per publisher: the event it publishes
    log, delivered, outcome,      \* history
    cut                           \* history: coroutines a stale signal ended

service == <<shutdown, latest, subs, publisher>>
subscriber == <<task, base, events, closed, pending, cancelled>>
wakeup == <<continuation, activeResumes>>
frame == <<at, event, isTerminal, value, resumeMutex, started, resumeAfterYield>>
locals == <<target, todo, message>>
history == <<log, delivered, outcome, cut>>
vars == <<service, subscriber, wakeup, frame, pc, locals, history>>

Init ==
    /\ shutdown = FALSE
    /\ latest = [t \in Tasks |-> 0]
    /\ subs = [t \in Tasks |-> {}]
    /\ publisher = NoThread
    /\ task = [s \in Sessions |-> NoTask]
    /\ base = [s \in Sessions |-> 0]
    /\ events = [s \in Sessions |-> <<>>]
    /\ closed = [s \in Sessions |-> FALSE]
    /\ pending = [s \in Sessions |-> 0]
    /\ cancelled = [s \in Sessions |-> FALSE]
    /\ continuation = [s \in Sessions |-> FALSE]
    /\ activeResumes = [s \in Sessions |-> 0]
    /\ at = [s \in Sessions |-> "initial"]
    /\ event = [s \in Sessions |-> NoEvent]
    /\ isTerminal = [s \in Sessions |-> FALSE]
    /\ value = [s \in Sessions |-> NoEvent]
    /\ resumeMutex = [s \in Sessions |-> NoThread]
    /\ started = [s \in Sessions |-> FALSE]
    /\ resumeAfterYield = [s \in Sessions |-> FALSE]
    /\ pc = [t \in Threads |-> IF t \in Sessions THEN "absent" ELSE "idle"]
    /\ target = [t \in Threads |-> IF t \in Sessions THEN t ELSE NoThread]
    /\ todo = [t \in Publishers \cup {Closer} |-> {}]
    /\ message = [p \in Publishers |-> NoEvent]
    /\ log = [t \in Tasks |-> <<>>]
    /\ delivered = [s \in Sessions |-> <<>>]
    /\ outcome = [s \in Sessions |-> "open"]
    /\ cut = {}

Goto(t, label) == pc' = [pc EXCEPT ![t] = label]

-----------------------------------------------------------------------------
(* The service.                                                            *)

(* The caller passes its own, possibly stale, copy of the task: `given` is *)
(* its state.  The last published state replaces it.                       *)
Subscribe(s, t, given) ==
    /\ pc[s] = "absent"
    /\ ~shutdown
    /\ (IF latest[t] = 0 THEN given ELSE log[t][latest[t]]) \notin Terminal
    /\ task' = [task EXCEPT ![s] = t]
    /\ base' = [base EXCEPT ![s] = latest[t]]
    /\ subs' = [subs EXCEPT ![t] = @ \cup {s}]
    /\ Goto(s, "next")
    /\ UNCHANGED <<shutdown, latest, publisher, events, closed, pending, cancelled,
                   wakeup, frame, locals, history>>

(* Mutant: publication_mutex is not taken.                                 *)
PublishUnserialised(p, t, state) ==
    /\ pc[p] = "idle"
    /\ ~shutdown
    /\ Len(log[t]) < MaxPublish
    /\ log' = [log EXCEPT ![t] = Append(@, state)]
    /\ latest' = [latest EXCEPT ![t] = Len(log[t]) + 1]
    /\ subs' = [subs EXCEPT ![t] = IF state \in Terminal THEN {} ELSE @]
    /\ IF subs[t] = {}
       THEN UNCHANGED <<pc, todo, message>>
       ELSE /\ Goto(p, "deliver")
            /\ todo' = [todo EXCEPT ![p] = subs[t]]
            /\ message' = [message EXCEPT ![p] = Len(log[t]) + 1]
    /\ UNCHANGED <<shutdown, publisher, subscriber, wakeup, frame, target,
                   delivered, outcome, cut>>

(* PublishTaskUpdated up to the end of its block under ServiceState::mutex.*)
Publish(p, t, state) ==
    /\ pc[p] = "idle"
    /\ publisher = NoThread
    /\ ~shutdown
    /\ Len(log[t]) < MaxPublish
    /\ log' = [log EXCEPT ![t] = Append(@, state)]
    /\ latest' = [latest EXCEPT ![t] = Len(log[t]) + 1]
    /\ subs' = [subs EXCEPT ![t] = IF state \in Terminal THEN {} ELSE @]
    /\ IF subs[t] = {}
       THEN UNCHANGED <<publisher, pc, todo, message>>
       ELSE /\ publisher' = p
            /\ Goto(p, "deliver")
            /\ todo' = [todo EXCEPT ![p] = subs[t]]
            /\ message' = [message EXCEPT ![p] = Len(log[t]) + 1]
    /\ UNCHANGED <<shutdown, subscriber, wakeup, frame, target, delivered, outcome, cut>>

(* The loop of PublishTaskUpdated: queue the event unless the subscriber   *)
(* is closed, and close it after a terminal event.                         *)
Deliver(p, s) ==
    /\ pc[p] = "deliver"
    /\ s \in todo[p]
    /\ todo' = [todo EXCEPT ![p] = @ \ {s}]
    /\ IF closed[s] THEN UNCHANGED <<events, pending, closed>>
       ELSE /\ events' = [events EXCEPT ![s] = Append(@, message[p])]
            /\ pending' = [pending EXCEPT ![s] = @ + 1]
            /\ closed' = [closed EXCEPT ![s] = log[task[s]][message[p]] \in Terminal]
    /\ target' = [target EXCEPT ![p] = s]
    /\ Goto(p, "signal")
    /\ UNCHANGED <<service, task, base, cancelled, wakeup, frame, message, history>>

EndPublish(p) ==
    /\ pc[p] = "deliver"
    /\ todo[p] = {}
    /\ publisher' = NoThread
    /\ target' = [target EXCEPT ![p] = NoThread]
    /\ message' = [message EXCEPT ![p] = NoEvent]
    /\ Goto(p, "idle")
    /\ UNCHANGED <<shutdown, latest, subs, subscriber, wakeup, frame, todo, history>>

(* Shutdown: the block under ServiceState::mutex.                          *)
Shutdown ==
    /\ pc[Closer] = "idle"
    /\ shutdown' = TRUE
    /\ todo' = [todo EXCEPT ![Closer] = UNION {subs[t] : t \in Tasks}]
    /\ subs' = [t \in Tasks |-> {}]
    /\ latest' = [t \in Tasks |-> 0]
    /\ Goto(Closer, "closing")
    /\ UNCHANGED <<publisher, subscriber, wakeup, frame, target, message, history>>

ShutdownClose(s) ==
    /\ pc[Closer] = "closing"
    /\ s \in todo[Closer]
    /\ todo' = [todo EXCEPT ![Closer] = @ \ {s}]
    /\ closed' = [closed EXCEPT ![s] = TRUE]
    /\ target' = [target EXCEPT ![Closer] = s]
    /\ Goto(Closer, "signal")
    /\ UNCHANGED <<service, task, base, events, pending, cancelled, wakeup, frame,
                   message, history>>

EndShutdown ==
    /\ pc[Closer] = "closing"
    /\ todo[Closer] = {}
    /\ Goto(Closer, "exit")
    /\ UNCHANGED <<service, subscriber, wakeup, frame, locals, history>>

-----------------------------------------------------------------------------
(* SignalSubscriber, called by PublishTaskUpdated, Shutdown and Cancel.    *)

AfterSignal(t) ==
    CASE t \in Publishers -> "deliver"
      [] t = Closer       -> "closing"
      [] OTHER            -> "erase"

TakeContinuation(t) ==
    LET s == target[t]
    IN  /\ pc[t] = "signal"
        /\ IF continuation[s]
           THEN /\ continuation' = [continuation EXCEPT ![s] = FALSE]
                /\ activeResumes' = [activeResumes EXCEPT ![s] = @ + 1]
                /\ Goto(t, "resume")
           ELSE /\ Goto(t, AfterSignal(t))
                /\ UNCHANGED wakeup
        /\ UNCHANGED <<service, subscriber, frame, locals, history>>

(* Where handle.resume() continues; resuming a frame that is not suspended *)
(* is undefined behaviour.                                                 *)
ResumePoint(s) ==
    CASE at[s] = "initial" -> "current"
      [] at[s] = "yield"   -> IF isTerminal[s] THEN "finish" ELSE "ready"
      [] at[s] = "await"   -> "fetch"
      [] OTHER             -> "undefined"

Resume(t) ==
    LET s == target[t]
    IN  /\ pc[t] = "resume"
        /\ resumeMutex[s] = NoThread
        /\ resumeMutex' = [resumeMutex EXCEPT ![s] = t]
        /\ at' = [at EXCEPT ![s] = ResumePoint(s)]
        /\ Goto(t, "run")
        /\ UNCHANGED <<service, subscriber, wakeup, event, isTerminal, value, started,
                       resumeAfterYield, locals, history>>

UnlockResume(t) ==
    /\ pc[t] = "unlock"
    /\ resumeMutex' = [resumeMutex EXCEPT ![target[t]] = NoThread]
    /\ Goto(t, "drop")
    /\ UNCHANGED <<service, subscriber, wakeup, at, event, isTerminal, value, started,
                   resumeAfterYield, locals, history>>

(* Mutant: active_resumes is not decremented.                              *)
DropResumeUncounted(t) ==
    /\ pc[t] = "drop"
    /\ Goto(t, AfterSignal(t))
    /\ UNCHANGED <<service, subscriber, wakeup, frame, locals, history>>

DropResume(t) ==
    /\ pc[t] = "drop"
    /\ activeResumes' = [activeResumes EXCEPT ![target[t]] = @ - 1]
    /\ Goto(t, AfterSignal(t))
    /\ UNCHANGED <<service, subscriber, continuation, frame, locals, history>>

-----------------------------------------------------------------------------
(* RunSubscription, executed by the thread t that resumed the frame: a     *)
(* signaller ("run") or the session's consumer ("pull").                   *)

Runs(t, s) == pc[t] \in {"run", "pull"} /\ target[t] = s

(* resume() returns to its caller.                                         *)
ReturnFromResume(t) ==
    Goto(t, IF pc[t] = "run" THEN "unlock" ELSE "pulled")

YieldCurrentTask(t, s) ==
    /\ Runs(t, s)
    /\ at[s] = "current"
    /\ at' = [at EXCEPT ![s] = "yield"]
    /\ value' = [value EXCEPT ![s] = Snapshot]
    /\ ReturnFromResume(t)
    /\ UNCHANGED <<service, subscriber, wakeup, event, isTerminal, resumeMutex, started,
                   resumeAfterYield, locals, history>>

Ready(s) == closed[s] \/ events[s] # <<>>

AwaitReady(t, s) ==
    /\ Runs(t, s)
    /\ at[s] = "ready"
    /\ at' = [at EXCEPT ![s] = IF Ready(s) THEN "fetch" ELSE "suspend"]
    /\ UNCHANGED <<service, subscriber, wakeup, event, isTerminal, value, resumeMutex,
                   started, resumeAfterYield, pc, locals, history>>

(* Mutant: await_suspend does not look at the queue again.                 *)
AwaitSuspendUnchecked(t, s) ==
    /\ Runs(t, s)
    /\ at[s] = "suspend"
    /\ at' = [at EXCEPT ![s] = "await"]
    /\ continuation' = [continuation EXCEPT ![s] = TRUE]
    /\ ReturnFromResume(t)
    /\ UNCHANGED <<service, subscriber, activeResumes, event, isTerminal, value,
                   resumeMutex, started, resumeAfterYield, locals, history>>

AwaitSuspend(t, s) ==
    /\ Runs(t, s)
    /\ at[s] = "suspend"
    /\ IF Ready(s)
       THEN /\ at' = [at EXCEPT ![s] = "fetch"]
            /\ UNCHANGED <<continuation, pc>>
       ELSE /\ at' = [at EXCEPT ![s] = "await"]
            /\ continuation' = [continuation EXCEPT ![s] = TRUE]
            /\ ReturnFromResume(t)
    /\ UNCHANGED <<service, subscriber, activeResumes, event, isTerminal, value,
                   resumeMutex, started, resumeAfterYield, locals, history>>

(* A signal may come late: its event was taken by the coroutine of the     *)
(* consumer, which has suspended again since.  Then the frame is resumed   *)
(* with nothing queued and the coroutine ends although nobody closed it.   *)
AwaitResume(t, s) ==
    /\ Runs(t, s)
    /\ at[s] = "fetch"
    /\ IF events[s] = <<>>
       THEN /\ at' = [at EXCEPT ![s] = "finish"]
            /\ cut' = IF closed[s] THEN cut ELSE cut \cup {s}
            /\ UNCHANGED <<events, event>>
       ELSE /\ at' = [at EXCEPT ![s] = "emit"]
            /\ event' = [event EXCEPT ![s] = Head(events[s])]
            /\ events' = [events EXCEPT ![s] = Tail(@)]
            /\ UNCHANGED cut
    /\ UNCHANGED <<service, task, base, closed, pending, cancelled, wakeup, isTerminal,
                   value, resumeMutex, started, resumeAfterYield, pc, locals, log,
                   delivered, outcome>>

YieldEvent(t, s) ==
    /\ Runs(t, s)
    /\ at[s] = "emit"
    /\ at' = [at EXCEPT ![s] = "yield"]
    /\ value' = [value EXCEPT ![s] = event[s]]
    /\ event' = [event EXCEPT ![s] = NoEvent]
    /\ isTerminal' = [isTerminal EXCEPT ![s] = log[task[s]][event[s]] \in Terminal]
    /\ ReturnFromResume(t)
    /\ UNCHANGED <<service, subscriber, wakeup, resumeMutex, started, resumeAfterYield,
                   locals, history>>

(* co_return: FinalAwaiter sets done_ and wakes the consumer.              *)
FinalSuspend(t, s) ==
    /\ Runs(t, s)
    /\ at[s] = "finish"
    /\ at' = [at EXCEPT ![s] = "done"]
    /\ ReturnFromResume(t)
    /\ UNCHANGED <<service, subscriber, wakeup, event, isTerminal, value, resumeMutex,
                   started, resumeAfterYield, locals, history>>

-----------------------------------------------------------------------------
(* The consumer thread: WaitForNext inside the loop of the transports      *)
(* (StreamJsonRpcSseEvents and its REST and gRPC counterparts).            *)

(* Start() and the resume after a yield; otherwise straight to the wait.   *)
Pull(s) ==
    /\ pc[s] = "next"
    /\ IF ~started[s] \/ resumeAfterYield[s]
       THEN /\ resumeMutex[s] = NoThread
            /\ resumeMutex' = [resumeMutex EXCEPT ![s] = s]
            /\ at' = [at EXCEPT ![s] = ResumePoint(s)]
            /\ started' = [started EXCEPT ![s] = TRUE]
            /\ resumeAfterYield' = [resumeAfterYield EXCEPT ![s] = FALSE]
            /\ Goto(s, "pull")
       ELSE /\ Goto(s, "wait")
            /\ UNCHANGED <<resumeMutex, at, started, resumeAfterYield>>
    /\ UNCHANGED <<service, subscriber, wakeup, event, isTerminal, value, locals, history>>

EndPull(s) ==
    /\ pc[s] = "pulled"
    /\ resumeMutex' = [resumeMutex EXCEPT ![s] = NoThread]
    /\ Goto(s, "wait")
    /\ UNCHANGED <<service, subscriber, wakeup, at, event, isTerminal, value, started,
                   resumeAfterYield, locals, history>>

(* Status updates only: the current task is not counted.                   *)
RecordDeliveredEvent(s) ==
    pending' = [pending EXCEPT ![s] = IF value[s] = Snapshot THEN @ ELSE @ - 1]

(* Mutant: current_value_ is moved from but not reset.                     *)
TakeValueKeepingIt(s) ==
    /\ pc[s] = "wait"
    /\ value[s] # NoEvent
    /\ resumeAfterYield' = [resumeAfterYield EXCEPT ![s] = TRUE]
    /\ RecordDeliveredEvent(s)
    /\ delivered' = [delivered EXCEPT ![s] = Append(@, value[s])]
    /\ Goto(s, "write")
    /\ UNCHANGED <<service, task, base, events, closed, cancelled, wakeup, at, event,
                   isTerminal, value, resumeMutex, started, locals, log, outcome, cut>>

(* A value is handed to the transport.                                     *)
TakeValue(s) ==
    /\ pc[s] = "wait"
    /\ value[s] # NoEvent
    /\ value' = [value EXCEPT ![s] = NoEvent]
    /\ resumeAfterYield' = [resumeAfterYield EXCEPT ![s] = TRUE]
    /\ RecordDeliveredEvent(s)
    /\ delivered' = [delivered EXCEPT ![s] = Append(@, value[s])]
    /\ Goto(s, "write")
    /\ UNCHANGED <<service, task, base, events, closed, cancelled, wakeup, at, event,
                   isTerminal, resumeMutex, started, locals, log, outcome, cut>>

WaitReturnsEmpty(s) ==
    /\ pc[s] = "wait"
    /\ value[s] = NoEvent
    /\ Goto(s, "isDone")
    /\ UNCHANGED <<service, subscriber, wakeup, frame, locals, history>>

NextAtEnd(s) == at[s] = "done" /\ WaitReturnsEmpty(s)

NextTimesOut(s) == at[s] # "done" /\ WaitReturnsEmpty(s)

(* IsLive() reads done_, closed and pending_delivery_count one by one,     *)
(* without a lock.  A live session gets a heartbeat and another NextFor.   *)
EndOfStream(s) ==
    /\ Goto(s, "leave")
    /\ outcome' = [outcome EXCEPT ![s] = "ended"]

IsDone(s) ==
    /\ pc[s] = "isDone"
    /\ IF at[s] = "done" THEN EndOfStream(s)
       ELSE Goto(s, "isClosed") /\ UNCHANGED outcome
    /\ UNCHANGED <<service, subscriber, wakeup, frame, locals, log, delivered, cut>>

IsClosed(s) ==
    /\ pc[s] = "isClosed"
    /\ Goto(s, IF closed[s] THEN "isPending" ELSE "write")
    /\ UNCHANGED <<service, subscriber, wakeup, frame, locals, history>>

IsPending(s) ==
    /\ pc[s] = "isPending"
    /\ IF pending[s] = 0 THEN EndOfStream(s)
       ELSE Goto(s, "write") /\ UNCHANGED outcome
    /\ UNCHANGED <<service, subscriber, wakeup, frame, locals, log, delivered, cut>>

WriteSucceeds(s) ==
    /\ pc[s] = "write"
    /\ Goto(s, "next")
    /\ UNCHANGED <<service, subscriber, wakeup, frame, locals, history>>

-----------------------------------------------------------------------------
(* SubscriptionSession::Cancel, from a canceller, from the transport when  *)
(* its write fails or its client is gone, or from the destructor.          *)

AfterCancel(t) == IF t \in Sessions THEN "destroy" ELSE "exit"

ExchangeCancelled(t, s) ==
    /\ target' = [target EXCEPT ![t] = s]
    /\ cancelled' = [cancelled EXCEPT ![s] = TRUE]
    /\ Goto(t, IF cancelled[s] THEN AfterCancel(t) ELSE "close")
    /\ UNCHANGED <<service, task, base, events, closed, pending, wakeup, frame, todo,
                   message, log, delivered, cut>>

WriteFails(s) ==
    /\ pc[s] = "write"
    /\ outcome' = [outcome EXCEPT ![s] = "aborted"]
    /\ ExchangeCancelled(s, s)

LeaveSession(s) ==
    /\ pc[s] = "leave"
    /\ ExchangeCancelled(s, s)
    /\ UNCHANGED outcome

(* A session outlives the calls made on it, so no Cancel() starts once it  *)
(* is being destroyed.                                                     *)
CancelFromOutside(c, s) ==
    /\ pc[c] = "idle"
    /\ pc[s] \notin {"absent", "destroy", "gone"}
    /\ ExchangeCancelled(c, s)
    /\ UNCHANGED outcome

RemoveSubscriberClose(t) ==
    /\ pc[t] = "close"
    /\ closed' = [closed EXCEPT ![target[t]] = TRUE]
    /\ Goto(t, "signal")
    /\ UNCHANGED <<service, task, base, events, pending, cancelled, wakeup, frame,
                   locals, history>>

RemoveSubscriberErase(t) ==
    /\ pc[t] = "erase"
    /\ subs' = [subs EXCEPT ![task[target[t]]] = @ \ {target[t]}]
    /\ Goto(t, "drain")
    /\ UNCHANGED <<shutdown, latest, publisher, subscriber, wakeup, frame, locals, history>>

(* Mutant: Cancel does not wait for the resumers.                          *)
WaitForNothing(t) ==
    /\ pc[t] = "drain"
    /\ Goto(t, AfterCancel(t))
    /\ UNCHANGED <<service, subscriber, wakeup, frame, locals, history>>

WaitForResumes(t) ==
    /\ pc[t] = "drain"
    /\ activeResumes[target[t]] = 0
    /\ Goto(t, AfterCancel(t))
    /\ UNCHANGED <<service, subscriber, wakeup, frame, locals, history>>

(* The session's members go: the coroutine frame is destroyed.             *)
DestroySession(s) ==
    /\ pc[s] = "destroy"
    /\ \A c \in Cancellers : target[c] = s => pc[c] = "exit"
    /\ at' = [at EXCEPT ![s] = "destroyed"]
    /\ Goto(s, "gone")
    /\ UNCHANGED <<service, subscriber, wakeup, event, isTerminal, value, resumeMutex,
                   started, resumeAfterYield, locals, history>>

-----------------------------------------------------------------------------
Coroutine(t, s) ==
    \/ YieldCurrentTask(t, s) \/ AwaitReady(t, s)  \/ AwaitSuspend(t, s)
    \/ AwaitResume(t, s)      \/ YieldEvent(t, s)  \/ FinalSuspend(t, s)

Signal(t) ==
    \/ TakeContinuation(t) \/ Resume(t) \/ UnlockResume(t) \/ DropResume(t)

Cancelling(t) ==
    RemoveSubscriberClose(t) \/ RemoveSubscriberErase(t) \/ WaitForResumes(t)

Pump(s) ==
    \/ Pull(s)   \/ EndPull(s)  \/ TakeValue(s) \/ NextAtEnd(s)
    \/ IsDone(s) \/ IsClosed(s) \/ IsPending(s) \/ WriteSucceeds(s)
    \/ LeaveSession(s) \/ DestroySession(s)

(* What a thread does on its own once it is inside an operation.           *)
Step(t) ==
    \/ \E s \in Sessions : Coroutine(t, s)
    \/ Signal(t)
    \/ t \in Sessions \cup Cancellers /\ Cancelling(t)
    \/ t \in Sessions /\ Pump(t)
    \/ t \in Publishers /\ (EndPublish(t) \/ \E s \in Sessions : Deliver(t, s))
    \/ t = Closer /\ (EndShutdown \/ \E s \in Sessions : ShutdownClose(s))

(* What the environment may do, or may never do.                           *)
Call ==
    \/ \E s \in Sessions, t \in Tasks, st \in States : Subscribe(s, t, st)
    \/ \E p \in Publishers, t \in Tasks, st \in States : Publish(p, t, st)
    \/ \E c \in Cancellers, s \in Sessions : CancelFromOutside(c, s)
    \/ \E s \in Sessions : NextTimesOut(s) \/ WriteFails(s)
    \/ Shutdown

AtRest ==
    /\ \A t \in Threads : pc[t] \in {"absent", "idle", "exit", "gone"}
    /\ UNCHANGED vars

Next == Call \/ (\E t \in Threads : Step(t)) \/ AtRest

Spec == Init /\ [][Next]_vars

FairSpec == Spec /\ \A t \in Threads : WF_vars(Step(t))

-----------------------------------------------------------------------------
(* Properties.                                                             *)

Points ==
    {"initial", "current", "yield", "ready", "suspend", "await", "fetch", "emit",
     "finish", "done", "undefined", "destroyed"}

Labels ==
    {"absent", "idle", "exit", "gone", "deliver", "closing", "signal", "resume",
     "run", "unlock", "drop", "next", "pull", "pulled", "wait", "write",
     "isDone", "isClosed", "isPending", "leave", "close", "erase", "drain",
     "destroy"}

(* Every variable has its type, and a thread inside a call works on a      *)
(* session of the service.                                                 *)
TypeOK ==
    /\ shutdown \in BOOLEAN
    /\ latest \in [Tasks -> Nat]
    /\ subs \in [Tasks -> SUBSET Sessions]
    /\ publisher \in Publishers \cup {NoThread}
    /\ task \in [Sessions -> Tasks \cup {NoTask}]
    /\ base \in [Sessions -> Nat]
    /\ events \in [Sessions -> Seq(Nat \ {0})]
    /\ closed \in [Sessions -> BOOLEAN]
    /\ pending \in [Sessions -> Nat]
    /\ cancelled \in [Sessions -> BOOLEAN]
    /\ continuation \in [Sessions -> BOOLEAN]
    /\ activeResumes \in [Sessions -> Nat]
    /\ at \in [Sessions -> Points]
    /\ event \in [Sessions -> Nat \cup {NoEvent}]
    /\ isTerminal \in [Sessions -> BOOLEAN]
    /\ value \in [Sessions -> Nat \cup {NoEvent}]
    /\ resumeMutex \in [Sessions -> Threads \cup {NoThread}]
    /\ started \in [Sessions -> BOOLEAN]
    /\ resumeAfterYield \in [Sessions -> BOOLEAN]
    /\ pc \in [Threads -> Labels]
    /\ target \in [Threads -> Sessions \cup {NoThread}]
    /\ todo \in [Publishers \cup {Closer} -> SUBSET Sessions]
    /\ message \in [Publishers -> Nat \cup {NoEvent}]
    /\ log \in [Tasks -> Seq(States)]
    /\ delivered \in [Sessions -> Seq(Nat)]
    /\ outcome \in [Sessions -> {"open", "ended", "aborted"}]
    /\ cut \subseteq Sessions

(* The threads that hold a reference to the frame of session s.            *)
Uses(s, labels) == {t \in Threads : target[t] = s /\ pc[t] \in labels}

(* A coroutine frame is executed by at most one thread, the owner of its   *)
(* resume mutex; resume() is only ever called on a suspended frame; and    *)
(* once the session is destroyed no signaller still refers to the frame or *)
(* to the mutex inside it (SignalSubscriber, WaitForResumes, Destroy).     *)
FrameSafety ==
    \A s \in Sessions :
        /\ \A t \in Uses(s, {"run", "pull", "unlock", "pulled"}) :
               resumeMutex[s] = t
        /\ at[s] # "undefined"
        /\ at[s] = "destroyed" =>
               Uses(s, {"resume", "run", "unlock", "pull", "pulled"}) = {}

(* No wake-up is lost: while the coroutine is suspended in the awaitable   *)
(* although an event is queued or the subscriber is closed, a signaller is *)
(* on its way to resume it; and a stored handle is resumed exactly once.   *)
NoLostWakeup ==
    \A s \in Sessions :
        /\ at[s] = "await" /\ Ready(s) => Uses(s, {"signal", "resume"}) # {}
        /\ continuation[s] => at[s] = "await" /\ Uses(s, {"resume"}) = {}
        /\ at[s] = "await" /\ ~continuation[s] =>
               Cardinality(Uses(s, {"resume"})) = 1

(* active_resumes counts the signallers between taking the handle and      *)
(* having let go of the frame, which is what WaitForResumes relies on.     *)
ActiveResumes ==
    \A s \in Sessions :
        activeResumes[s] = Cardinality(Uses(s, {"resume", "run", "unlock", "drop"}))

(* A client sees the current task and then every update published after    *)
(* it subscribed, in publication order, without gap or duplicate.          *)
OrderedDelivery ==
    \A s \in Sessions : \A i \in DOMAIN delivered[s] :
        delivered[s][i] = IF i = 1 THEN Snapshot ELSE base[s] + i - 1

Counted(staged) == IF staged > Snapshot THEN 1 ELSE 0

(* pending_delivery_count is the number of updates queued for a session or *)
(* staged at its coroutine and not yet handed to the consumer.             *)
PendingCount ==
    \A s \in Sessions :
        pending[s] = Len(events[s]) + Counted(event[s]) + Counted(value[s])

(* The number of updates the client of session s has received.             *)
UpdatesSeen(s) == IF delivered[s] = <<>> THEN 0 ELSE Len(delivered[s]) - 1

(* While a subscriber is open every update published since it subscribed   *)
(* has been handed to its client, is pending, or is with the publisher     *)
(* whose loop has not reached it yet: no Cancel or Subscribe of another    *)
(* session makes it miss one.                                              *)
NoUpdateMissed ==
    \A s \in Sessions : pc[s] # "absent" /\ ~closed[s] =>
        Len(log[task[s]]) =
            base[s] + UpdatesSeen(s) + pending[s]
            + (IF \E p \in Publishers : s \in todo[p] THEN 1 ELSE 0)

(* Why a stream may end: its last event was terminal, the service was shut *)
(* down or the session was cancelled.                                      *)
Completed(s) ==
    \/ shutdown \/ cancelled[s]
    \/ /\ Len(delivered[s]) > 1
       /\ log[task[s]][delivered[s][Len(delivered[s])]] \in Terminal

(* "Servers close successful streams after a terminal or interrupted task  *)
(* state." (book/src/streaming/overview.md)                                *)
ClosedAfterTerminal ==
    \A s \in Sessions : outcome[s] = "ended" => Completed(s)

(* PublishTaskUpdated, Cancel and Shutdown always return.                  *)
CallsReturn ==
    \A t \in Threads \ Sessions :
        pc[t] \notin {"idle", "exit"} ~> pc[t] \in {"idle", "exit"}

=============================================================================
