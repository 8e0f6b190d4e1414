---------------------- MODULE TaskSubscriptionDelivery ----------------------
(***************************************************************************)
(* What every subscriber has received, has queued and is still owed: the   *)
(* inductive invariant that the refinement of SubscriptionStream needs     *)
(* beyond FrameInv, and what each action does to it.                       *)
(***************************************************************************)
EXTENDS TaskSubscriptionLemmas

(* The number of the last update that was queued for session s, and of the *)
(* last one its client has received.                                       *)
Received(s) == base[s] + UpdatesSeen(s)
Queued(s) == Received(s) + pending[s]

(* PublishTaskUpdated is serialised; its loop has the latest update of a   *)
(* task and sessions of that task.  Nobody works on a session that is not  *)
(* there yet.                                                              *)
ServiceInv ==
    /\ \A p \in Publishers : pc[p] # "idle" => publisher = p
    /\ \A p \in Publishers : todo[p] # {} => pc[p] # "idle"
    /\ \A p \in Publishers : \A s \in todo[p] : message[p] = Len(log[task[s]])
    /\ \A p \in Publishers \cup {Closer} : \A s \in todo[p] : pc[s] # "absent"
    /\ \A t \in Tasks : \A s \in subs[t] : task[s] = t /\ pc[s] # "absent"
    /\ ~shutdown => \A t \in Tasks : latest[t] = Len(log[t])
    /\ pc[Closer] # "idle" => shutdown
    /\ \A c \in Cancellers : pc[c] # "idle" => pc[target[c]] # "absent"
    /\ \A s \in Sessions : pc[s] # "absent" => task[s] \in Tasks

(* The events of a session are numbered in the order in which they reach   *)
(* its client: those received, the one staged at the coroutine, the queue. *)
Ordered(s) ==
    /\ value[s] = Snapshot => delivered[s] = <<>>
    /\ value[s] > Snapshot => delivered[s] # <<>> /\ value[s] = Received(s) + 1
    /\ event[s] > Snapshot => event[s] = Received(s) + 1
    /\ \A i \in DOMAIN events[s] :
          events[s][i] = Received(s) + Counted(event[s]) + Counted(value[s]) + i
    /\ at[s] \in {"initial", "current"} => delivered[s] = <<>> /\ ~isTerminal[s]
    /\ at[s] = "yield" /\ value[s] = NoEvent => delivered[s] # <<>>
    /\ at[s] = "yield" /\ value[s] = Snapshot => ~isTerminal[s]
    /\ at[s] \in {"ready", "suspend", "await", "fetch", "emit", "finish", "done"} =>
          delivered[s] # <<>>

(* The update a publisher's loop has not queued for session s yet.         *)
Owed(s) == IF \E p \in Publishers : s \in todo[p] THEN 1 ELSE 0

(* What is queued for a session: all there is while it is open, and never  *)
(* anything behind a terminal update, which closes it.                     *)
Complete(s) ==
    /\ Queued(s) <= Len(log[task[s]])
    /\ ~closed[s] => Len(log[task[s]]) = Queued(s) + Owed(s)
    /\ ~closed[s] => \/ shutdown \/ s \in subs[task[s]]
                     \/ \E p \in Publishers : s \in todo[p] /\ log[task[s]][message[p]] \in Terminal
    /\ \A m \in (base[s] + 1)..Queued(s) :
          log[task[s]][m] \in Terminal => m = Queued(s) /\ closed[s]
    /\ closed[s] => \/ shutdown \/ cancelled[s]
                    \/ Queued(s) > base[s] /\ log[task[s]][Queued(s)] \in Terminal

(* Why a coroutine ends: the session was stopped, or its client has seen a *)
(* terminal update.                                                        *)
Stopped(s) == shutdown \/ cancelled[s] \/ s \in cut
SeenTerminal(s) == Received(s) > base[s] /\ log[task[s]][Received(s)] \in Terminal

Ending(s) ==
    /\ at[s] \in {"finish", "done"} => Stopped(s) \/ SeenTerminal(s)
    /\ at[s] = "yield" /\ isTerminal[s] =>
          IF value[s] = NoEvent THEN SeenTerminal(s) ELSE log[task[s]][value[s]] \in Terminal
    /\ pc[s] \in {"next", "pull", "pulled", "wait", "write", "isDone", "isClosed", "isPending"} =>
          outcome[s] = "open"
    /\ pc[s] = "isPending" => closed[s]

(* A session before Subscribe.                                             *)
Fresh(s) ==
    /\ delivered[s] = <<>> /\ events[s] = <<>> /\ pending[s] = 0
    /\ ~closed[s] /\ outcome[s] = "open" /\ base[s] = 0

OrderedInv == \A s \in Sessions : Ordered(s)
CompleteInv == \A s \in Sessions : pc[s] # "absent" => Complete(s)
EndingInv == \A s \in Sessions : pc[s] # "absent" => Ending(s)
FreshInv == \A s \in Sessions : pc[s] = "absent" => Fresh(s)

DeliveryInv == ServiceInv /\ OrderedInv /\ CompleteInv /\ EndingInv /\ FreshInv

USE ZenonT(5), SMTT(20)

-----------------------------------------------------------------------------
(* What an action leaves alone.                                            *)

(* No session is opened.                                                   *)
NoneOpened == \A u \in Sessions : pc'[u] = "absent" <=> pc[u] = "absent"

(* The parts of session u that Ordered, Complete and Ending speak of.      *)
SameOrder(u) ==
    /\ value'[u] = value[u] /\ event'[u] = event[u] /\ events'[u] = events[u]
    /\ at'[u] = at[u] /\ isTerminal'[u] = isTerminal[u]
    /\ delivered'[u] = delivered[u] /\ base'[u] = base[u]

SameQueue(u) ==
    /\ task'[u] = task[u] /\ base'[u] = base[u] /\ delivered'[u] = delivered[u]
    /\ pending'[u] = pending[u] /\ closed'[u] = closed[u] /\ cancelled'[u] = cancelled[u]

SameEnd(u) ==
    /\ at'[u] = at[u] /\ isTerminal'[u] = isTerminal[u] /\ value'[u] = value[u]
    /\ u \in cut' <=> u \in cut

(* The numbers of a session whose data do not change stay as they are.     *)
LEMMA NumbersKept ==
    ASSUME NEW u \in Sessions, base'[u] = base[u], delivered'[u] = delivered[u]
    PROVE  /\ Received(u)' = Received(u)
           /\ pending'[u] = pending[u] => Queued(u)' = Queued(u)
  BY DEF Received, Queued, UpdatesSeen

LEMMA OrderedKept ==
    ASSUME NEW u \in Sessions, Ordered(u), SameOrder(u)
    PROVE  Ordered(u)'
  BY NumbersKept DEF Ordered, SameOrder, Counted

(* A coroutine goes on behind its first event.                             *)
LEMMA OrderedAfter ==
    ASSUME NEW u \in Sessions, Ordered(u), delivered[u] # <<>>,
           at'[u] \notin {"initial", "current", "yield"},
           value'[u] = value[u], event'[u] = event[u], events'[u] = events[u],
           delivered'[u] = delivered[u], base'[u] = base[u]
    PROVE  Ordered(u)'
  BY NumbersKept DEF Ordered, Counted

LEMMA CompleteKept ==
    ASSUME NEW u \in Sessions, Complete(u), SameQueue(u),
           UNCHANGED <<shutdown, subs, todo, message, log>>
    PROVE  Complete(u)'
  BY NumbersKept DEF Complete, SameQueue, Owed

(* Where the coroutine stands, for a client that is still being served.    *)
Ends(u) ==
    /\ at[u] \in {"finish", "done"} => Stopped(u) \/ SeenTerminal(u)
    /\ at[u] = "yield" /\ isTerminal[u] =>
          IF value[u] = NoEvent THEN SeenTerminal(u) ELSE log[task[u]][value[u]] \in Terminal

LEMMA EndsKept ==
    ASSUME NEW u \in Sessions, Ends(u), SameEnd(u),
           task'[u] = task[u], base'[u] = base[u], delivered'[u] = delivered[u], log' = log,
           shutdown => shutdown', cancelled[u] => cancelled'[u]
    PROVE  Ends(u)'
  BY NumbersKept DEF Ends, SameEnd, Stopped, SeenTerminal

(* The labels of a consumer that serves its client.                        *)
Serving == {"next", "pull", "pulled", "wait", "write", "isDone", "isClosed", "isPending"}

Serves(u) ==
    /\ pc[u] \in Serving => outcome[u] = "open"
    /\ pc[u] = "isPending" => closed[u]

LEMMA EndingParts ==
    ASSUME NEW u \in Sessions
    PROVE  /\ Ending(u) <=> Ends(u) /\ Serves(u)
           /\ Ending(u)' <=> Ends(u)' /\ Serves(u)'
  BY DEF Ending, Ends, Serves, Serving

(* A move of one thread inside its operation, seen by the service.         *)
LEMMA ServiceKept ==
    ASSUME TypeOK, ThreadsInv, ServiceInv, NEW t \in Threads, NEW label, Goto(t, label),
           UNCHANGED <<service, task, log, target, todo, message>>,
           pc[t] \notin {"idle", "absent"}, label \notin {"idle", "absent"}
    PROVE  ServiceInv' /\ NoneOpened
<1>1. \A u \in Threads : /\ pc'[u] = "absent" <=> pc[u] = "absent"
                         /\ pc'[u] = "idle" <=> pc[u] = "idle"
  BY DEF TypeOK, Goto
<1>2. NoneOpened  BY <1>1 DEF NoneOpened, Threads
<1>3. \A c \in Cancellers : pc[c] # "idle" => target[c] \in Sessions
  BY DEF ThreadsInv
<1>4. ServiceInv'
  <2>1. \A p \in Publishers : /\ pc'[p] # "idle" => publisher' = p
                              /\ todo'[p] # {} => pc'[p] # "idle"
                              /\ \A s \in todo'[p] : message'[p] = Len(log'[task'[s]])
    BY <1>1 DEF ServiceInv, Threads, service
  <2>2. \A p \in Publishers \cup {Closer} : \A s \in todo'[p] : pc'[s] # "absent"
    <3>1. \A p \in Publishers \cup {Closer} : todo[p] \subseteq Sessions  BY DEF TypeOK
    <3>2. QED  BY <3>1, <1>2 DEF ServiceInv, NoneOpened
  <2>3. \A k \in Tasks : \A s \in subs'[k] : task'[s] = k /\ pc'[s] # "absent"
    <3>1. \A k \in Tasks : subs[k] \subseteq Sessions  BY DEF TypeOK
    <3>2. QED  BY <3>1, <1>2 DEF ServiceInv, NoneOpened, service
  <2>4. /\ ~shutdown' => \A k \in Tasks : latest'[k] = Len(log'[k])
        /\ pc'[Closer] # "idle" => shutdown'
    BY <1>1 DEF ServiceInv, Threads, service
  <2>5. \A c \in Cancellers : pc'[c] # "idle" => pc'[target'[c]] # "absent"
    BY <1>1, <1>3 DEF ServiceInv, Threads
  <2>6. \A s \in Sessions : pc'[s] # "absent" => task'[s] \in Tasks
    BY <1>2 DEF ServiceInv, NoneOpened
  <2>7. QED  BY <2>1, <2>2, <2>3, <2>4, <2>5, <2>6 DEF ServiceInv
<1>5. QED  BY <1>2, <1>4

(* A step inside an operation that leaves the queues of the subscribers    *)
(* and the client alone, and touches the coroutine of session s only.      *)
LEMMA FrameStep ==
    ASSUME TypeOK, ThreadsInv, DeliveryInv,
           NEW t \in Threads, NEW label, NEW s \in Sessions, Goto(t, label),
           UNCHANGED <<service, task, base, closed, pending, cancelled, target, todo,
                       message, log, delivered, outcome>>,
           \A u \in Sessions \ {s} : SameOrder(u) /\ SameEnd(u),
           Ordered(s)', pc[s] # "absent" => Ends(s)', pc[s] = "absent" => events'[s] = events[s],
           pc[t] \notin {"idle", "absent"}, label \notin {"idle", "absent"},
           t \in Sessions => /\ label \in Serving => pc[t] \in Serving
                             /\ label = "isPending" => closed[t]
    PROVE  DeliveryInv' /\ NoneOpened
<1>1. ServiceInv' /\ NoneOpened  BY ServiceKept DEF DeliveryInv
<1>2. OrderedInv'  BY OrderedKept DEF DeliveryInv, OrderedInv
<1>3. CompleteInv'
  <2>1. \A u \in Sessions : SameQueue(u)  BY DEF SameQueue
  <2>2. QED  BY <1>1, <2>1, CompleteKept DEF DeliveryInv, CompleteInv, NoneOpened, service
<1>4. EndingInv'
  <2>0. SUFFICES ASSUME NEW u \in Sessions, pc'[u] # "absent" PROVE Ending(u)'
    BY DEF EndingInv
  <2>1. pc[u] # "absent"  BY <2>0, <1>1 DEF NoneOpened
  <2>2. Ends(u) /\ Serves(u)  BY <2>1, EndingParts DEF DeliveryInv, EndingInv
  <2>3. Ends(u)'  BY <2>1, <2>2, EndsKept DEF service
  <2>4. Serves(u)'
    <3>1. pc \in [Threads -> Labels] /\ u \in Threads  BY DEF TypeOK, Threads
    <3>2. pc'[u] = IF u = t THEN label ELSE pc[u]  BY <3>1 DEF Goto
    <3>3. QED  BY <2>2, <3>2 DEF Serves
  <2>5. QED  BY <2>3, <2>4, EndingParts
<1>5. FreshInv'
  <2>1. \A u \in Sessions : pc'[u] = "absent" => pc[u] = "absent" /\ events'[u] = events[u]
    BY <1>1 DEF NoneOpened, SameOrder
  <2>2. QED  BY <2>1 DEF DeliveryInv, FreshInv, Fresh
<1>6. QED  BY <1>1, <1>2, <1>3, <1>4, <1>5 DEF DeliveryInv

(* A step that moves a thread and changes neither data nor frames.         *)
LEMMA MoveStep ==
    ASSUME TypeOK, ThreadsInv, DeliveryInv,
           NEW t \in Threads, NEW label, Goto(t, label),
           UNCHANGED <<service, subscriber, at, event, isTerminal, value, locals, history>>,
           pc[t] \notin {"idle", "absent"}, label \notin {"idle", "absent"},
           t \in Sessions => /\ label \in Serving => pc[t] \in Serving
                             /\ label = "isPending" => closed[t]
    PROVE  DeliveryInv' /\ NoneOpened
<1>1. UNCHANGED <<task, base, closed, pending, cancelled, target, todo, message, log,
                  delivered, outcome>>
  BY DEF subscriber, locals, history
<1>2. \A u \in Sessions : SameOrder(u) /\ SameEnd(u)
  BY DEF SameOrder, SameEnd, subscriber, history
<1>3. CASE Sessions # {}
  <2>1. PICK s \in Sessions : TRUE  BY <1>3
  <2>2. Ordered(s)'  BY <1>2, OrderedKept DEF DeliveryInv, OrderedInv
  <2>3. pc[s] # "absent" => Ends(s)'
    BY <1>1, <1>2, EndsKept, EndingParts DEF DeliveryInv, EndingInv, service
  <2>4. QED  BY <1>1, <1>2, <2>2, <2>3, FrameStep DEF SameOrder
<1>4. CASE Sessions = {}
  <2>1. ServiceInv' /\ NoneOpened  BY <1>1, ServiceKept DEF DeliveryInv
  <2>2. QED
    BY <1>4, <2>1 DEF DeliveryInv, OrderedInv, CompleteInv, EndingInv, FreshInv
<1>5. QED  BY <1>3, <1>4

-----------------------------------------------------------------------------
(* The signaller, the consumer's loop and the end of a call.               *)

(* SignalSubscriber keeps the invariant: a handle is taken only of a       *)
(* coroutine that awaits an event.                                         *)
LEMMA SignalDelivers ==
    ASSUME FrameInv, DeliveryInv, NEW t \in Threads, Signal(t)
    PROVE  DeliveryInv' /\ NoneOpened
<1>1. TypeOK /\ ThreadsInv  BY DEF FrameInv
<1>2. AfterSignal(t) \in {"deliver", "closing", "erase"}  BY AfterSignalLabel
<1>3. CASE TakeContinuation(t)
  BY <1>1, <1>2, <1>3, MoveStep DEF TakeContinuation, frame, Serving
<1>4. CASE UnlockResume(t)  BY <1>1, <1>4, MoveStep DEF UnlockResume, Serving
<1>5. CASE DropResume(t)  BY <1>1, <1>2, <1>5, MoveStep DEF DropResume, frame, Serving
<1>6. CASE Resume(t)
  <2>0. PICK s \in Sessions : s = target[t]
    BY <1>1, <1>6, SignalTarget DEF Resume, Signalling, Resuming
  <2>1. t \in Uses(s, {"resume"})  BY <1>6, <2>0 DEF Resume, Uses
  <2>2. at[s] = "await"  BY <2>1 DEF FrameInv, PermitInv
  <2>3. pc[s] # "absent"  BY <2>1, <2>2 DEF FrameInv, YieldInv
  <2>4. at' = [at EXCEPT ![s] = "fetch"]  BY <1>6, <2>0, <2>2 DEF Resume, ResumePoint
  <2>5. at'[s] = "fetch" /\ \A u \in Sessions \ {s} : at'[u] = at[u]
    BY <1>1, <2>1, <2>4 DEF TypeOK
  <2>6. UNCHANGED <<service, subscriber, event, isTerminal, value, locals, history>>
    BY <1>6 DEF Resume
  <2>7. \A u \in Sessions \ {s} : SameOrder(u) /\ SameEnd(u)
    BY <2>5, <2>6 DEF SameOrder, SameEnd, subscriber, history
  <2>8. Ordered(s)'
    <3>1. Ordered(s)  BY DEF DeliveryInv, OrderedInv
    <3>2. delivered[s] # <<>>  BY <2>2, <3>1 DEF Ordered
    <3>3. QED  BY <2>5, <2>6, <3>1, <3>2, OrderedAfter DEF subscriber, history
  <2>9. Ends(s)'  BY <2>5 DEF Ends
  <2>10. Goto(t, "run") /\ pc[t] = "resume"  BY <1>6 DEF Resume
  <2>11. QED
    BY <1>1, <2>1, <2>3, <2>6, <2>7, <2>8, <2>9, <2>10, FrameStep
       DEF subscriber, locals, history, Serving
<1>7. QED  BY <1>3, <1>4, <1>5, <1>6 DEF Signal

(* So do the steps of the consumer's loop that end in another round, and   *)
(* those of Cancel and Shutdown that only wait.                            *)
LEMMA LoopDelivers ==
    ASSUME FrameInv, DeliveryInv, NEW s \in Sessions,
           \/ EndPull(s) \/ WaitReturnsEmpty(s) \/ IsClosed(s) \/ WriteSucceeds(s)
    PROVE  DeliveryInv' /\ NoneOpened
<1>1. TypeOK /\ ThreadsInv /\ s \in Threads  BY DEF FrameInv, Threads
<1>2. CASE EndPull(s)  BY <1>1, <1>2, MoveStep DEF EndPull, Serving
<1>3. CASE WaitReturnsEmpty(s)  BY <1>1, <1>3, MoveStep DEF WaitReturnsEmpty, frame, Serving
<1>4. CASE IsClosed(s)  BY <1>1, <1>4, MoveStep DEF IsClosed, frame, Serving
<1>5. CASE WriteSucceeds(s)  BY <1>1, <1>5, MoveStep DEF WriteSucceeds, frame, Serving
<1>6. QED  BY <1>2, <1>3, <1>4, <1>5

LEMMA WaitDelivers ==
    ASSUME FrameInv, DeliveryInv, NEW t \in Threads,
           \/ t = Closer /\ EndShutdown
           \/ t \in Sessions \cup Cancellers /\ WaitForResumes(t)
    PROVE  DeliveryInv' /\ NoneOpened
<1>1. TypeOK /\ ThreadsInv  BY DEF FrameInv
<1>2. CASE t = Closer /\ EndShutdown
  BY <1>1, <1>2, MoveStep DEF EndShutdown, frame, Serving
<1>3. CASE WaitForResumes(t)
  BY <1>1, <1>3, MoveStep DEF WaitForResumes, AfterCancel, frame, Serving
<1>4. QED  BY <1>2, <1>3

-----------------------------------------------------------------------------
(* The coroutine.                                                          *)

(* A step of the thread that runs the coroutine of session s.              *)
LEMMA CoroutineStep ==
    ASSUME FrameInv, DeliveryInv, NEW t \in Threads, NEW s \in Sessions, Runs(t, s),
           pc' = pc \/ ReturnFromResume(t), at[s] # "initial",
           UNCHANGED <<service, task, base, closed, pending, cancelled, locals, log,
                       delivered, outcome>>,
           \A u \in Sessions \ {s} : SameOrder(u) /\ SameEnd(u),
           Ordered(s)', Ends(s)'
    PROVE  DeliveryInv' /\ NoneOpened
<1>1. TypeOK /\ ThreadsInv  BY DEF FrameInv
<1>2. pc[s] # "absent"  BY DEF FrameInv, YieldInv
<1>3. pc[t] \in {"run", "pull"}  BY DEF Runs
<1>4. PICK label : /\ Goto(t, label) /\ label \in {"run", "pull", "unlock", "pulled"}
                   /\ label \in {"pull", "pulled"} => pc[t] = "pull"
  <2>1. CASE pc' = pc
    <3>1. Goto(t, pc[t])  BY <1>1, <2>1 DEF Goto, TypeOK
    <3>2. QED  BY <1>3, <3>1
  <2>2. CASE ReturnFromResume(t)  BY <1>3, <2>2 DEF ReturnFromResume
  <2>3. QED  BY <2>1, <2>2
<1>5. QED  BY <1>1, <1>2, <1>3, <1>4, FrameStep DEF locals, Serving

LEMMA AwaitReadyDelivers ==
    ASSUME FrameInv, DeliveryInv, NEW t \in Threads, NEW s \in Sessions,
           AwaitReady(t, s) \/ AwaitSuspend(t, s)
    PROVE  DeliveryInv' /\ NoneOpened
<1>1. TypeOK  BY DEF FrameInv
<1>2. PICK point \in {"fetch", "suspend", "await"} : at' = [at EXCEPT ![s] = point]
  BY DEF AwaitReady, AwaitSuspend
<1>3. at'[s] = point /\ \A u \in Sessions \ {s} : at'[u] = at[u]
  BY <1>1, <1>2 DEF TypeOK
<1>4. at[s] \in {"ready", "suspend"}  BY DEF AwaitReady, AwaitSuspend
<1>5. /\ UNCHANGED <<service, subscriber, event, isTerminal, value, locals, history>>
      /\ Runs(t, s) /\ (pc' = pc \/ ReturnFromResume(t))
  BY DEF AwaitReady, AwaitSuspend
<1>6. \A u \in Sessions \ {s} : SameOrder(u) /\ SameEnd(u)
  BY <1>3, <1>5 DEF SameOrder, SameEnd, subscriber, history
<1>7. Ordered(s)'
  <2>1. Ordered(s)  BY DEF DeliveryInv, OrderedInv
  <2>2. delivered[s] # <<>>  BY <1>4, <2>1 DEF Ordered
  <2>3. QED  BY <1>3, <1>5, <2>1, <2>2, OrderedAfter DEF subscriber, history
<1>8. Ends(s)'  BY <1>3 DEF Ends
<1>9. QED  BY <1>4, <1>5, <1>6, <1>7, <1>8, CoroutineStep DEF subscriber, history

LEMMA FinalSuspendDelivers ==
    ASSUME FrameInv, DeliveryInv, NEW t \in Threads, NEW s \in Sessions, FinalSuspend(t, s)
    PROVE  DeliveryInv' /\ NoneOpened
<1>1. TypeOK  BY DEF FrameInv
<1>2. at'[s] = "done" /\ \A u \in Sessions \ {s} : at'[u] = at[u]
  BY <1>1 DEF TypeOK, FinalSuspend
<1>3. /\ UNCHANGED <<service, subscriber, event, isTerminal, value, locals, history>>
      /\ Runs(t, s) /\ ReturnFromResume(t) /\ at[s] = "finish"
  BY DEF FinalSuspend
<1>4. \A u \in Sessions \ {s} : SameOrder(u) /\ SameEnd(u)
  BY <1>2, <1>3 DEF SameOrder, SameEnd, subscriber, history
<1>5. Ordered(s)'
  <2>1. Ordered(s)  BY DEF DeliveryInv, OrderedInv
  <2>2. delivered[s] # <<>>  BY <1>3, <2>1 DEF Ordered
  <2>3. QED  BY <1>2, <1>3, <2>1, <2>2, OrderedAfter DEF subscriber, history
<1>6. Ends(s)'
  <2>1. pc[s] # "absent"  BY <1>3 DEF FrameInv, YieldInv
  <2>2. Stopped(s) \/ SeenTerminal(s)
    BY <1>3, <2>1, EndingParts DEF DeliveryInv, EndingInv, Ends
  <2>3. Stopped(s)' \/ SeenTerminal(s)'
    BY <1>3, <2>2, NumbersKept DEF Stopped, SeenTerminal, service, subscriber, history
  <2>4. QED  BY <1>2, <2>3 DEF Ends
<1>7. QED  BY <1>3, <1>4, <1>5, <1>6, CoroutineStep DEF subscriber, history

(* The first event is the current task.                                    *)
LEMMA YieldCurrentTaskDelivers ==
    ASSUME FrameInv, DeliveryInv, NEW t \in Threads, NEW s \in Sessions,
           YieldCurrentTask(t, s)
    PROVE  DeliveryInv' /\ NoneOpened
<1>1. TypeOK  BY DEF FrameInv
<1>2. /\ at'[s] = "yield" /\ \A u \in Sessions \ {s} : at'[u] = at[u]
      /\ value'[s] = Snapshot /\ \A u \in Sessions \ {s} : value'[u] = value[u]
  BY <1>1 DEF TypeOK, YieldCurrentTask
<1>3. /\ UNCHANGED <<service, subscriber, event, isTerminal, locals, history>>
      /\ Runs(t, s) /\ ReturnFromResume(t) /\ at[s] = "current"
  BY DEF YieldCurrentTask
<1>4. \A u \in Sessions \ {s} : SameOrder(u) /\ SameEnd(u)
  BY <1>2, <1>3 DEF SameOrder, SameEnd, subscriber, history
<1>5. delivered[s] = <<>> /\ ~isTerminal[s]
  BY <1>3 DEF DeliveryInv, OrderedInv, Ordered
<1>6. Ordered(s)'
  <2>1. value[s] = NoEvent  BY <1>3 DEF FrameInv, YieldInv
  <2>2. Counted(value[s]) = Counted(value'[s])
    BY <1>2, <2>1 DEF Counted, NoEvent, Snapshot
  <2>3. Ordered(s)  BY DEF DeliveryInv, OrderedInv
  <2>4. /\ event'[s] = event[s] /\ events'[s] = events[s] /\ isTerminal'[s] = isTerminal[s]
        /\ delivered'[s] = delivered[s] /\ Received(s)' = Received(s)
    BY <1>3, NumbersKept DEF subscriber, history
  <2>5. value'[s] # NoEvent /\ ~(value'[s] > Snapshot)  BY <1>2 DEF NoEvent, Snapshot
  <2>6. QED  BY <1>2, <1>5, <2>2, <2>3, <2>4, <2>5 DEF Ordered
<1>7. Ends(s)'  BY <1>2, <1>3, <1>5 DEF Ends
<1>8. QED  BY <1>3, <1>4, <1>6, <1>7, CoroutineStep DEF subscriber, history

(* The numbers of a session are naturals.                                  *)
LEMMA NumbersTyped ==
    ASSUME TypeOK, NEW s \in Sessions
    PROVE  UpdatesSeen(s) \in Nat /\ Received(s) \in Nat /\ Queued(s) \in Nat
<1>1. base[s] \in Nat /\ pending[s] \in Nat /\ delivered[s] \in Seq(Nat)  BY DEF TypeOK
<1>2. UpdatesSeen(s) \in Nat  BY <1>1 DEF UpdatesSeen
<1>3. QED  BY <1>1, <1>2 DEF Received, Queued

(* await_resume takes the next event of the queue, or ends the coroutine.  *)
LEMMA AwaitResumeDelivers ==
    ASSUME FrameInv, DeliveryInv, NEW t \in Threads, NEW s \in Sessions, AwaitResume(t, s)
    PROVE  DeliveryInv' /\ NoneOpened
<1>1. TypeOK  BY DEF FrameInv
<1>2. /\ UNCHANGED <<service, task, base, closed, pending, cancelled, isTerminal, value,
                     pc, locals, log, delivered, outcome>>
      /\ Runs(t, s) /\ at[s] = "fetch"
  BY DEF AwaitResume
<1>3. /\ Ordered(s) /\ delivered[s] # <<>> /\ value[s] = NoEvent /\ event[s] = NoEvent
      /\ pc[s] # "absent"
  BY <1>2 DEF DeliveryInv, OrderedInv, Ordered, FrameInv, YieldInv, StagedInv
<1>4. /\ Received(s)' = Received(s) /\ Received(s) \in Nat
      /\ Queued(s)' = Queued(s)
  BY <1>1, <1>2, NumbersKept, NumbersTyped
<1>5. CASE events[s] = <<>>
  <2>1. /\ at'[s] = "finish" /\ \A u \in Sessions \ {s} : at'[u] = at[u]
        /\ UNCHANGED <<events, event>>
        /\ cut' = IF closed[s] THEN cut ELSE cut \cup {s}
    BY <1>1, <1>5 DEF TypeOK, AwaitResume
  <2>2. \A u \in Sessions \ {s} : SameOrder(u) /\ SameEnd(u)
    BY <1>2, <2>1 DEF SameOrder, SameEnd
  <2>3. Ordered(s)'  BY <1>2, <1>3, <2>1, OrderedAfter
  <2>4. Stopped(s)' \/ SeenTerminal(s)'
    <3>1. CASE ~closed[s]  BY <2>1, <3>1 DEF Stopped
    <3>2. CASE closed[s]
      <4>1. pending[s] = 0
        <5>1. pending[s] = Len(events[s]) + Counted(event[s]) + Counted(value[s])
          BY DEF FrameInv, PendingCount
        <5>2. Counted(event[s]) = 0 /\ Counted(value[s]) = 0
          BY <1>3 DEF Counted, NoEvent, Snapshot
        <5>3. QED  BY <1>5, <5>1, <5>2
      <4>2. Queued(s) = Received(s)  BY <1>4, <4>1 DEF Queued
      <4>3. Complete(s)  BY <1>3 DEF DeliveryInv, CompleteInv
      <4>4. Stopped(s) \/ SeenTerminal(s)
        BY <3>2, <4>2, <4>3 DEF Complete, Stopped, SeenTerminal
      <4>5. cut' = cut  BY <2>1, <3>2
      <4>6. QED  BY <1>2, <1>4, <4>4, <4>5 DEF Stopped, SeenTerminal, service
    <3>3. QED  BY <3>1, <3>2
  <2>5. Ends(s)'  BY <2>1, <2>4 DEF Ends
  <2>6. QED  BY <1>2, <2>2, <2>3, <2>5, CoroutineStep
<1>6. CASE events[s] # <<>>
  <2>1. /\ at'[s] = "emit" /\ \A u \in Sessions \ {s} : at'[u] = at[u]
        /\ event'[s] = Head(events[s]) /\ \A u \in Sessions \ {s} : event'[u] = event[u]
        /\ events'[s] = Tail(events[s]) /\ \A u \in Sessions \ {s} : events'[u] = events[u]
        /\ cut' = cut
    BY <1>1, <1>6 DEF TypeOK, AwaitResume
  <2>2. \A u \in Sessions \ {s} : SameOrder(u) /\ SameEnd(u)
    BY <1>2, <2>1 DEF SameOrder, SameEnd
  <2>3. Ordered(s)'
    <3>1. events[s] \in Seq(Nat \ {0})  BY <1>1 DEF TypeOK
    <3>2. Counted(event[s]) = 0 /\ Counted(value[s]) = 0
      BY <1>3 DEF Counted, NoEvent, Snapshot
    <3>3. \A i \in DOMAIN events[s] : events[s][i] = Received(s) + i
      BY <1>3, <1>4, <3>1, <3>2 DEF Ordered
    <3>4. event'[s] = Received(s) + 1 /\ event'[s] > Snapshot
      BY <1>4, <1>6, <2>1, <3>1, <3>3 DEF Snapshot
    <3>5. Counted(event[s])' = 1  BY <3>4 DEF Counted
    <3>6. Counted(value[s])' = 0  BY <1>2, <3>2
    <3>7. \A i \in DOMAIN events'[s] : events'[s][i] = Received(s) + 1 + i
      <4>1. TAKE i \in DOMAIN events'[s]
      <4>2. i \in Nat /\ i + 1 \in DOMAIN events[s] /\ events'[s][i] = events[s][i + 1]
        BY <1>6, <2>1, <3>1
      <4>3. QED  BY <1>4, <3>3, <4>2
    <3>8. events'[s] \in Seq(Nat \ {0})  BY <1>6, <2>1, <3>1
    <3>9. \A i \in DOMAIN events'[s] :
             events'[s][i] = Received(s) + Counted(event[s])' + Counted(value[s])' + i
      BY <1>4, <3>5, <3>6, <3>7, <3>8
    <3>10. QED  BY <1>2, <1>3, <1>4, <2>1, <3>4, <3>9 DEF Ordered, NoEvent, Snapshot
  <2>4. Ends(s)'  BY <2>1 DEF Ends
  <2>5. QED  BY <1>2, <2>2, <2>3, <2>4, CoroutineStep
<1>7. QED  BY <1>5, <1>6

(* The event it took is yielded.                                           *)
LEMMA YieldEventDelivers ==
    ASSUME FrameInv, DeliveryInv, NEW t \in Threads, NEW s \in Sessions, YieldEvent(t, s)
    PROVE  DeliveryInv' /\ NoneOpened
<1>1. TypeOK  BY DEF FrameInv
<1>2. /\ UNCHANGED <<service, subscriber, locals, history>>
      /\ Runs(t, s) /\ ReturnFromResume(t) /\ at[s] = "emit"
  BY DEF YieldEvent
<1>3. /\ at'[s] = "yield" /\ value'[s] = event[s] /\ event'[s] = NoEvent
      /\ isTerminal'[s] = (log[task[s]][event[s]] \in Terminal)
      /\ \A u \in Sessions \ {s} : /\ at'[u] = at[u] /\ value'[u] = value[u]
                                   /\ event'[u] = event[u] /\ isTerminal'[u] = isTerminal[u]
  BY <1>1 DEF TypeOK, YieldEvent
<1>4. \A u \in Sessions \ {s} : SameOrder(u) /\ SameEnd(u)
  BY <1>2, <1>3 DEF SameOrder, SameEnd, subscriber, history
<1>5. Ordered(s)'
  <2>1. Ordered(s)  BY DEF DeliveryInv, OrderedInv
  <2>2. /\ delivered[s] # <<>> /\ value[s] = NoEvent /\ event[s] > Snapshot
        /\ event[s] = Received(s) + 1
    BY <1>2, <2>1 DEF Ordered, FrameInv, YieldInv, StagedInv
  <2>3. Received(s)' = Received(s) /\ events'[s] = events[s] /\ delivered'[s] = delivered[s]
    BY <1>2, NumbersKept DEF subscriber, history
  <2>4. /\ Counted(event[s]) = 1 /\ Counted(value[s]) = 0
        /\ Counted(event[s])' = 0 /\ Counted(value[s])' = 1
    BY <1>3, <2>2 DEF Counted, NoEvent, Snapshot
  <2>5. Received(s) \in Nat /\ events[s] \in Seq(Nat \ {0})
    BY <1>1, NumbersTyped DEF TypeOK
  <2>6. \A i \in DOMAIN events'[s] :
           events'[s][i] = Received(s) + Counted(event[s])' + Counted(value[s])' + i
    BY <2>1, <2>3, <2>4, <2>5 DEF Ordered
  <2>7. QED  BY <1>3, <2>2, <2>3, <2>6 DEF Ordered, NoEvent, Snapshot
<1>6. Ends(s)'
  <2>1. event[s] # NoEvent  BY <1>2 DEF FrameInv, StagedInv, NoEvent, Snapshot
  <2>2. QED  BY <1>2, <1>3, <2>1 DEF Ends, subscriber, history
<1>7. QED  BY <1>2, <1>4, <1>5, <1>6, CoroutineStep DEF subscriber, history

LEMMA CoroutineDelivers ==
    ASSUME FrameInv, DeliveryInv, NEW t \in Threads, NEW s \in Sessions, Coroutine(t, s)
    PROVE  DeliveryInv' /\ NoneOpened
  BY YieldCurrentTaskDelivers, AwaitReadyDelivers, AwaitResumeDelivers, YieldEventDelivers,
     FinalSuspendDelivers DEF Coroutine

(* The consumer starts the coroutine, or resumes it once the value it      *)
(* yielded has been taken: behind a terminal update it ends.               *)
LEMMA PullDelivers ==
    ASSUME FrameInv, DeliveryInv, NEW s \in Sessions, Pull(s)
    PROVE  DeliveryInv' /\ NoneOpened
<1>1. TypeOK /\ ThreadsInv /\ s \in Threads  BY DEF FrameInv, Threads
<1>2. /\ pc[s] = "next"
      /\ UNCHANGED <<service, subscriber, event, isTerminal, value, locals, history>>
  BY DEF Pull
<1>3. CASE ~started[s] \/ resumeAfterYield[s]
  <2>1. Goto(s, "pull") /\ at' = [at EXCEPT ![s] = ResumePoint(s)]  BY <1>3 DEF Pull
  <2>2. at'[s] = ResumePoint(s) /\ \A u \in Sessions \ {s} : at'[u] = at[u]
    BY <1>1, <2>1 DEF TypeOK
  <2>3. \A u \in Sessions \ {s} : SameOrder(u) /\ SameEnd(u)
    BY <1>2, <2>2 DEF SameOrder, SameEnd, subscriber, history
  <2>4. Ordered(s) /\ Ends(s)
    BY <1>2, EndingParts DEF DeliveryInv, OrderedInv, EndingInv
  <2>5. \/ at[s] = "initial"
        \/ at[s] = "yield" /\ value[s] = NoEvent
    BY <1>2, <1>3 DEF FrameInv, YieldInv
  <2>6. Ordered(s)' /\ Ends(s)'
    <3>1. CASE at[s] = "initial"
      <4>1. at'[s] = "current"  BY <2>2, <3>1 DEF ResumePoint
      <4>2. delivered[s] = <<>> /\ ~isTerminal[s]  BY <2>4, <3>1 DEF Ordered
      <4>3. Ordered(s)'
        BY <1>2, <2>4, <4>1, <4>2, NumbersKept DEF Ordered, Counted, subscriber, history
      <4>4. QED  BY <4>1, <4>3 DEF Ends
    <3>2. CASE at[s] = "yield" /\ value[s] = NoEvent
      <4>1. at'[s] = IF isTerminal[s] THEN "finish" ELSE "ready"
        BY <2>2, <3>2 DEF ResumePoint
      <4>2. delivered[s] # <<>>  BY <2>4, <3>2 DEF Ordered
      <4>3. Ordered(s)'
        BY <1>2, <2>4, <4>1, <4>2, OrderedAfter DEF subscriber, history
      <4>4. isTerminal[s] => SeenTerminal(s)  BY <2>4, <3>2 DEF Ends
      <4>5. SeenTerminal(s)' = SeenTerminal(s)
        BY <1>2, NumbersKept DEF SeenTerminal, subscriber, history
      <4>6. Ends(s)'  BY <4>1, <4>4, <4>5 DEF Ends
      <4>7. QED  BY <4>3, <4>6
    <3>3. QED  BY <2>5, <3>1, <3>2
  <2>7. QED
    BY <1>1, <1>2, <2>1, <2>3, <2>6, FrameStep DEF subscriber, locals, history, Serving
<1>4. CASE ~(~started[s] \/ resumeAfterYield[s])
  <2>1. Goto(s, "wait") /\ UNCHANGED at  BY <1>4 DEF Pull
  <2>2. QED  BY <1>1, <1>2, <2>1, MoveStep DEF Serving
<1>5. QED  BY <1>3, <1>4

LEMMA DestroyDelivers ==
    ASSUME FrameInv, DeliveryInv, NEW s \in Sessions, DestroySession(s)
    PROVE  DeliveryInv' /\ NoneOpened
<1>1. TypeOK /\ ThreadsInv /\ s \in Threads  BY DEF FrameInv, Threads
<1>2. /\ pc[s] = "destroy" /\ Goto(s, "gone")
      /\ UNCHANGED <<service, subscriber, event, isTerminal, value, locals, history>>
      /\ at'[s] = "destroyed" /\ \A u \in Sessions \ {s} : at'[u] = at[u]
  BY <1>1 DEF TypeOK, DestroySession
<1>3. \A u \in Sessions \ {s} : SameOrder(u) /\ SameEnd(u)
  BY <1>2 DEF SameOrder, SameEnd, subscriber, history
<1>4. Ordered(s)'
  <2>1. Ordered(s)  BY DEF DeliveryInv, OrderedInv
  <2>2. QED  BY <1>2, <2>1, NumbersKept DEF Ordered, Counted, subscriber, history
<1>5. Ends(s)'  BY <1>2 DEF Ends
<1>6. QED
  BY <1>1, <1>2, <1>3, <1>4, <1>5, FrameStep DEF subscriber, locals, history, Serving

-----------------------------------------------------------------------------
(* The steps that move events.                                             *)

(* A session that an action leaves alone.                                  *)
LEMMA EndingKept ==
    ASSUME NEW u \in Sessions, Ending(u), SameEnd(u), log' = log,
           task'[u] = task[u], base'[u] = base[u], delivered'[u] = delivered[u],
           shutdown => shutdown', cancelled[u] => cancelled'[u], closed[u] => closed'[u],
           outcome'[u] = outcome[u], pc'[u] = pc[u]
    PROVE  Ending(u)'
  BY EndsKept, EndingParts DEF Serves

LEMMA FreshKept ==
    ASSUME NEW u \in Sessions, Fresh(u), base'[u] = base[u], delivered'[u] = delivered[u],
           events'[u] = events[u], pending'[u] = pending[u], closed'[u] = closed[u],
           outcome'[u] = outcome[u]
    PROVE  Fresh(u)'
  BY DEF Fresh

(* What the consumer's taking of a value does to the numbers of a session. *)
LEMMA TakeValueNumbers ==
    ASSUME FrameInv, DeliveryInv, NEW s \in Sessions, TakeValue(s)
    PROVE  /\ Queued(s)' = Queued(s) /\ delivered'[s] # <<>>
           /\ Received(s)' = Received(s) + Counted(value[s])
           /\ value[s] = Snapshot => delivered[s] = <<>>
           /\ value[s] # Snapshot => /\ value[s] > Snapshot /\ delivered[s] # <<>>
                                     /\ Received(s)' = value[s] /\ value[s] > base[s]
<1>1. TypeOK  BY DEF FrameInv
<1>2. /\ value[s] # NoEvent /\ value[s] \in Nat \cup {NoEvent}
      /\ delivered[s] \in Seq(Nat) /\ base[s] \in Nat /\ pending[s] \in Nat
  BY <1>1 DEF TypeOK, TakeValue
<1>3. value[s] \in Nat  BY <1>2
<1>4. /\ delivered'[s] = Append(delivered[s], value[s]) /\ base'[s] = base[s]
      /\ pending'[s] = IF value[s] = Snapshot THEN pending[s] ELSE pending[s] - 1
  BY <1>1 DEF TypeOK, TakeValue, RecordDeliveredEvent
<1>5. Ordered(s)  BY DEF DeliveryInv, OrderedInv
<1>6. delivered'[s] # <<>> /\ Len(delivered'[s]) = Len(delivered[s]) + 1
  BY <1>2, <1>3, <1>4
<1>7. UpdatesSeen(s)' = Len(delivered[s])
  BY <1>2, <1>6 DEF UpdatesSeen
<1>8. CASE value[s] = Snapshot
  <2>1. delivered[s] = <<>>  BY <1>5, <1>8 DEF Ordered
  <2>2. UpdatesSeen(s)' = 0 /\ UpdatesSeen(s) = 0  BY <1>7, <2>1 DEF UpdatesSeen
  <2>3. Counted(value[s]) = 0  BY <1>8 DEF Counted, Snapshot
  <2>4. QED  BY <1>2, <1>4, <1>6, <1>8, <2>1, <2>2, <2>3 DEF Received, Queued
<1>9. CASE value[s] # Snapshot
  <2>1. value[s] > Snapshot  BY <1>3, <1>9 DEF Snapshot
  <2>2. delivered[s] # <<>> /\ value[s] = Received(s) + 1  BY <1>5, <2>1 DEF Ordered
  <2>3. UpdatesSeen(s) = Len(delivered[s]) - 1 /\ Len(delivered[s]) \in Nat
    BY <1>2, <2>2 DEF UpdatesSeen
  <2>4. Counted(value[s]) = 1  BY <2>1 DEF Counted
  <2>5. UpdatesSeen(s) \in Nat  BY <1>1, NumbersTyped
  <2>6. Received(s)' = Received(s) + 1 /\ Queued(s)' = Queued(s)
    <3>1. UpdatesSeen(s)' = UpdatesSeen(s) + 1  BY <1>7, <2>3
    <3>2. Received(s)' = base[s] + UpdatesSeen(s)'  BY <1>4 DEF Received
    <3>3. Received(s)' = Received(s) + 1  BY <1>2, <2>5, <3>1, <3>2 DEF Received
    <3>4. Queued(s)' = Received(s)' + (pending[s] - 1)  BY <1>4, <1>9 DEF Queued
    <3>5. Received(s) \in Nat /\ pending[s] \in Nat  BY <1>1, <1>2, NumbersTyped
    <3>6. Queued(s)' = Queued(s)
      <4>1. Queued(s) = Received(s) + pending[s]  BY DEF Queued
      <4>2. QED  BY <3>3, <3>4, <3>5, <4>1
    <3>7. QED  BY <3>3, <3>6
  <2>7. value[s] > base[s]  BY <1>2, <2>2, <2>5 DEF Received
  <2>8. QED  BY <1>6, <1>9, <2>1, <2>2, <2>4, <2>6, <2>7
<1>10. QED  BY <1>8, <1>9

(* The consumer takes a value and hands it to the transport.               *)
LEMMA TakeValueDelivers ==
    ASSUME FrameInv, DeliveryInv, NEW s \in Sessions, TakeValue(s)
    PROVE  DeliveryInv' /\ NoneOpened
<1>1. TypeOK /\ ThreadsInv /\ s \in Threads  BY DEF FrameInv, Threads
<1>2. /\ pc[s] = "wait" /\ value[s] # NoEvent /\ Goto(s, "write")
      /\ UNCHANGED <<service, task, base, events, closed, cancelled, at, event,
                     isTerminal, locals, log, outcome, cut>>
  BY DEF TakeValue
<1>3. /\ value'[s] = NoEvent
      /\ \A u \in Sessions \ {s} : /\ value'[u] = value[u] /\ pending'[u] = pending[u]
                                   /\ delivered'[u] = delivered[u]
  BY <1>1 DEF TypeOK, TakeValue, RecordDeliveredEvent
<1>4. pc'[s] = "write" /\ \A u \in Sessions \ {s} : pc'[u] = pc[u]
  BY <1>1, <1>2 DEF TypeOK, Goto, Threads
<1>5. at[s] = "yield" /\ Ordered(s) /\ Complete(s) /\ Ending(s)
  BY <1>2 DEF FrameInv, YieldInv, DeliveryInv, OrderedInv, CompleteInv, EndingInv
<1>6. \A u \in Sessions \ {s} : SameOrder(u) /\ SameQueue(u) /\ SameEnd(u)
  BY <1>2, <1>3 DEF SameOrder, SameQueue, SameEnd
<1>7. ServiceInv' /\ NoneOpened
  BY <1>1, <1>2, ServiceKept DEF DeliveryInv, locals
<1>8. OrderedInv'
  <2>1. Ordered(s)'
    <3>1. Counted(value[s])' = 0  BY <1>3 DEF Counted, NoEvent, Snapshot
    <3>2. Received(s) \in Nat /\ events[s] \in Seq(Nat \ {0})
      BY <1>1, NumbersTyped DEF TypeOK
    <3>3. event[s] = NoEvent  BY <1>5 DEF FrameInv, StagedInv
    <3>4. Counted(event[s]) \in Nat /\ Counted(value[s]) \in Nat  BY DEF Counted
    <3>5. \A i \in DOMAIN events[s] :
             events[s][i] = Received(s)' + Counted(event[s]) + Counted(value[s])' + i
      BY <1>5, <3>1, <3>2, <3>4, TakeValueNumbers DEF Ordered
    <3>6. /\ \A i \in DOMAIN events'[s] :
               events'[s][i] = Received(s)' + Counted(event[s])' + Counted(value[s])' + i
          /\ event'[s] = NoEvent /\ at'[s] = "yield"
      BY <1>2, <1>5, <3>3, <3>5 DEF Counted
    <3>7. QED  BY <1>3, <3>6, TakeValueNumbers DEF Ordered, NoEvent, Snapshot
  <2>2. QED  BY <1>6, <2>1, OrderedKept DEF DeliveryInv, OrderedInv
<1>9. CompleteInv'
  <2>1. Complete(s)'
    BY <1>2, <1>5, TakeValueNumbers DEF Complete, Owed, service, locals
  <2>2. QED
    BY <1>2, <1>4, <1>6, <2>1, CompleteKept DEF DeliveryInv, CompleteInv, service, locals
<1>10. EndingInv'
  <2>1. Ends(s)'
    <3>1. Ends(s)  BY <1>5, EndingParts
    <3>2. CASE isTerminal[s]
      <4>1. value[s] # Snapshot  BY <1>5, <3>2 DEF Ordered
      <4>2. log[task[s]][value[s]] \in Terminal  BY <1>2, <1>5, <3>1, <3>2 DEF Ends
      <4>3. SeenTerminal(s)'  BY <1>2, <4>1, <4>2, TakeValueNumbers DEF SeenTerminal
      <4>4. QED  BY <1>2, <1>3, <1>5, <4>3 DEF Ends
    <3>3. CASE ~isTerminal[s]  BY <1>2, <1>5, <3>3 DEF Ends
    <3>4. QED  BY <3>2, <3>3
  <2>2. Serves(s)'  BY <1>2, <1>4, <1>5, EndingParts DEF Serves, Serving
  <2>3. QED
    BY <1>2, <1>3, <1>4, <1>6, <2>1, <2>2, EndingKept, EndingParts
       DEF DeliveryInv, EndingInv, service
<1>11. FreshInv'
  BY <1>2, <1>3, <1>4, FreshKept DEF DeliveryInv, FreshInv
<1>12. QED  BY <1>7, <1>8, <1>9, <1>10, <1>11 DEF DeliveryInv

(* Only one publisher is inside PublishTaskUpdated.                        *)
LEMMA OnePublisher ==
    ASSUME ServiceInv, NEW p \in Publishers, pc[p] # "idle"
    PROVE  /\ publisher = p
           /\ \A q \in Publishers : q # p => pc[q] = "idle" /\ todo[q] = {}
  BY DEF ServiceInv

(* A session that no publisher's loop gains or loses.                      *)
LEMMA CompleteElsewhere ==
    ASSUME NEW u \in Sessions, Complete(u), SameQueue(u), UNCHANGED <<message, log>>,
           shutdown => shutdown', ~shutdown' => (u \in subs'[task[u]] <=> u \in subs[task[u]]),
           \A p \in Publishers : u \in todo'[p] <=> u \in todo[p]
    PROVE  Complete(u)'
<1>1. Queued(u)' = Queued(u)  BY NumbersKept DEF SameQueue
<1>2. Owed(u)' = Owed(u)  BY DEF Owed
<1>3. QED  BY <1>1, <1>2 DEF Complete, SameQueue

(* The number of an event a publisher queues.                              *)
LEMMA DeliverNumbers ==
    ASSUME FrameInv, DeliveryInv, NEW p \in Publishers, NEW s \in Sessions, Deliver(p, s),
           ~closed[s]
    PROVE  /\ message[p] = Queued(s) + 1 /\ Queued(s)' = Queued(s) + 1
           /\ message[p] = Len(log[task[s]]) /\ Received(s)' = Received(s)
           /\ Queued(s) \in Nat /\ Queued(s) >= base[s]
           /\ Queued(s) = Received(s) + Counted(event[s]) + Counted(value[s]) + Len(events[s])
<1>1. TypeOK  BY DEF FrameInv
<1>2. s \in todo[p]  BY DEF Deliver
<1>3. message[p] = Len(log[task[s]]) /\ pc[s] # "absent"
  BY <1>2 DEF DeliveryInv, ServiceInv
<1>4. Complete(s)  BY <1>3 DEF DeliveryInv, CompleteInv
<1>5. Queued(s) \in Nat /\ Received(s) \in Nat /\ UpdatesSeen(s) \in Nat
  BY <1>1, NumbersTyped
<1>6. message[p] = Queued(s) + 1  BY <1>2, <1>3, <1>4 DEF Complete, Owed
<1>7. base[s] \in Nat /\ pending[s] \in Nat /\ events[s] \in Seq(Nat \ {0})
  BY <1>1 DEF TypeOK
<1>8. pending'[s] = pending[s] + 1 /\ base' = base /\ delivered' = delivered
  BY <1>1 DEF TypeOK, Deliver, history
<1>9. Received(s)' = Received(s)  BY <1>8, NumbersKept
<1>10. Queued(s)' = Queued(s) + 1
  <2>1. Queued(s)' = Received(s) + (pending[s] + 1)  BY <1>8, <1>9 DEF Queued
  <2>2. Queued(s) = Received(s) + pending[s]  BY DEF Queued
  <2>3. QED  BY <1>5, <1>7, <2>1, <2>2
<1>11. Queued(s) >= base[s]  BY <1>5, <1>7 DEF Queued, Received
<1>12. Queued(s) = Received(s) + Counted(event[s]) + Counted(value[s]) + Len(events[s])
  <2>1. pending[s] = Len(events[s]) + Counted(event[s]) + Counted(value[s])
    BY DEF FrameInv, PendingCount
  <2>2. Counted(event[s]) \in Nat /\ Counted(value[s]) \in Nat  BY DEF Counted
  <2>3. Queued(s) = Received(s) + pending[s]  BY DEF Queued
  <2>4. Len(events[s]) \in Nat  BY <1>7
  <2>5. QED  BY <1>5, <2>1, <2>2, <2>3, <2>4
<1>13. QED  BY <1>3, <1>5, <1>6, <1>9, <1>10, <1>11, <1>12

(* A move of one thread, which may turn to another session and take        *)
(* sessions off its vector or out of the registry.                         *)
LEMMA ServiceMove ==
    ASSUME TypeOK, ThreadsInv, ServiceInv, NEW t \in Threads, NEW label, Goto(t, label),
           label \notin {"idle", "absent"}, pc[t] # "absent",
           t \in Publishers \cup {Closer} => pc[t] # "idle",
           \A u \in Threads : u # t => target'[u] = target[u],
           t \in Cancellers => target'[t] \in Sessions /\ pc[target'[t]] # "absent",
           \A q \in Publishers \cup {Closer} : todo'[q] \subseteq todo[q],
           \A k \in Tasks : subs'[k] \subseteq subs[k],
           UNCHANGED <<shutdown, latest, publisher, task, message, log>>
    PROVE  ServiceInv' /\ NoneOpened
<1>1. \A u \in Threads : pc'[u] = IF u = t THEN label ELSE pc[u]  BY DEF TypeOK, Goto
<1>2. /\ Sessions \subseteq Threads /\ Cancellers \subseteq Threads
      /\ Publishers \subseteq Threads /\ Closer \in Threads
  BY DEF Threads
<1>3. \A u \in Sessions : pc'[u] = "absent" <=> pc[u] = "absent"  BY <1>1, <1>2
<1>4. ServiceInv'
  <2>1. \A q \in Publishers : /\ pc'[q] # "idle" => publisher' = q
                              /\ todo'[q] # {} => pc'[q] # "idle"
                              /\ \A u \in todo'[q] : message'[q] = Len(log'[task'[u]])
    BY <1>1, <1>2 DEF ServiceInv
  <2>2. \A q \in Publishers \cup {Closer} : \A u \in todo'[q] : pc'[u] # "absent"
    <3>1. \A q \in Publishers \cup {Closer} : todo[q] \subseteq Sessions  BY DEF TypeOK
    <3>2. QED  BY <1>3, <3>1 DEF ServiceInv
  <2>3. \A k \in Tasks : \A u \in subs'[k] : task'[u] = k /\ pc'[u] # "absent"
    <3>1. \A k \in Tasks : subs[k] \subseteq Sessions  BY DEF TypeOK
    <3>2. QED  BY <1>3, <3>1 DEF ServiceInv
  <2>4. /\ ~shutdown' => \A k \in Tasks : latest'[k] = Len(log'[k])
        /\ pc'[Closer] # "idle" => shutdown'
    BY <1>1, <1>2 DEF ServiceInv
  <2>5. \A c \in Cancellers : pc'[c] # "idle" => pc'[target'[c]] # "absent"
    <3>1. \A c \in Cancellers : pc[c] # "idle" => target[c] \in Sessions  BY DEF ThreadsInv
    <3>2. QED  BY <1>1, <1>2, <1>3, <3>1 DEF ServiceInv
  <2>6. \A u \in Sessions : pc'[u] # "absent" => task'[u] \in Tasks
    BY <1>3 DEF ServiceInv
  <2>7. QED  BY <2>1, <2>2, <2>3, <2>4, <2>5, <2>6 DEF ServiceInv
<1>5. QED  BY <1>3, <1>4 DEF NoneOpened

(* The loop of PublishTaskUpdated queues the update, and closes a session  *)
(* behind a terminal one.                                                  *)
LEMMA DeliverDelivers ==
    ASSUME FrameInv, DeliveryInv, NEW p \in Publishers, NEW s \in Sessions, Deliver(p, s)
    PROVE  DeliveryInv' /\ NoneOpened
<1>1. TypeOK /\ ThreadsInv /\ p \in Threads /\ p \notin Sessions \cup Cancellers /\ p # Closer
  BY ThreadsAssumption DEF FrameInv, Threads
<1>2. /\ pc[p] = "deliver" /\ s \in todo[p] /\ Goto(p, "signal")
      /\ target' = [target EXCEPT ![p] = s] /\ todo' = [todo EXCEPT ![p] = @ \ {s}]
      /\ UNCHANGED <<service, task, base, cancelled, frame, message, history>>
  BY DEF Deliver
<1>3. /\ \A u \in Threads : u # p => target'[u] = target[u]
      /\ todo'[p] = todo[p] \ {s}
      /\ \A q \in Publishers \cup {Closer} : q # p => todo'[q] = todo[q]
  BY <1>1, <1>2 DEF TypeOK
<1>4. ServiceInv' /\ NoneOpened
  BY <1>1, <1>2, <1>3, ServiceMove DEF DeliveryInv, service, history
<1>5. \A u \in Sessions : pc'[u] = pc[u]
  BY <1>1, <1>2 DEF TypeOK, Goto, Threads
<1>6. pc[s] # "absent" /\ message[p] = Len(log[task[s]])
  BY <1>2 DEF DeliveryInv, ServiceInv
<1>7. /\ \A u \in Sessions \ {s} : /\ events'[u] = events[u] /\ pending'[u] = pending[u]
                                   /\ closed'[u] = closed[u]
      /\ closed[s] => /\ events'[s] = events[s] /\ pending'[s] = pending[s]
                      /\ closed'[s] = closed[s]
      /\ ~closed[s] => /\ events'[s] = Append(events[s], message[p])
                       /\ closed'[s] = (log[task[s]][message[p]] \in Terminal)
  BY <1>1 DEF TypeOK, Deliver
<1>8. \A u \in Sessions : (u # s \/ closed[s]) => SameOrder(u) /\ SameQueue(u)
  BY <1>2, <1>7 DEF SameOrder, SameQueue, frame, history
<1>9. OrderedInv'
  <2>1. ASSUME ~closed[s] PROVE Ordered(s)'
    <3>1. Ordered(s)  BY DEF DeliveryInv, OrderedInv
    <3>2. events[s] \in Seq(Nat \ {0})  BY <1>1 DEF TypeOK
    <3>3. Received(s) \in Nat /\ Counted(event[s]) \in Nat /\ Counted(value[s]) \in Nat
      BY <1>1, NumbersTyped DEF Counted
    <3>4. message[p] = Received(s) + Counted(event[s]) + Counted(value[s]) + (Len(events[s]) + 1)
      BY <2>1, <3>2, <3>3, DeliverNumbers
    <3>5. \A i \in DOMAIN events'[s] :
             events'[s][i] = Received(s) + Counted(event[s]) + Counted(value[s]) + i
      <4>1. TAKE i \in DOMAIN events'[s]
      <4>2. CASE i \in DOMAIN events[s]
        <5>1. events'[s][i] = events[s][i]  BY <1>7, <2>1, <3>2, <4>2
        <5>2. QED  BY <3>1, <4>2, <5>1 DEF Ordered
      <4>3. CASE i \notin DOMAIN events[s]
        <5>1. i = Len(events[s]) + 1 /\ events'[s][i] = message[p]
          BY <1>7, <2>1, <3>2, <4>1, <4>3
        <5>2. QED  BY <3>4, <5>1
      <4>4. QED  BY <4>2, <4>3
    <3>6. Received(s)' = Received(s)  BY <2>1, DeliverNumbers
    <3>7. UNCHANGED <<at, value, event, isTerminal, delivered>>  BY <1>2 DEF frame, history
    <3>8. QED  BY <3>1, <3>5, <3>6, <3>7 DEF Ordered, Counted
  <2>2. QED  BY <1>8, <2>1, OrderedKept DEF DeliveryInv, OrderedInv
<1>10. CompleteInv'
  <2>0. \A q \in Publishers : s \notin todo'[q]
    BY <1>2, <1>3, OnePublisher DEF DeliveryInv
  <2>1. Complete(s)  BY <1>6 DEF DeliveryInv, CompleteInv
  <2>2. ASSUME ~closed[s] PROVE Complete(s)'
    <3>1. /\ Queued(s)' = Len(log'[task'[s]]) /\ Queued(s)' = Queued(s) + 1
          /\ Queued(s) \in Nat /\ Queued(s) >= base[s]
          /\ message[p] = Queued(s)' /\ base'[s] = base[s] /\ log' = log /\ task' = task
          /\ base[s] \in Nat
      BY <1>1, <1>2, <2>2, DeliverNumbers DEF TypeOK, history
    <3>2. closed'[s] = (log'[task'[s]][Queued(s)'] \in Terminal)
      BY <1>7, <2>2, <3>1
    <3>3. \A m \in (base'[s] + 1)..Queued(s)' :
             log'[task'[s]][m] \in Terminal => m = Queued(s)' /\ closed'[s]
      <4>1. SUFFICES ASSUME NEW m \in (base'[s] + 1)..Queued(s)', log'[task'[s]][m] \in Terminal
                     PROVE  m = Queued(s)'
        BY <3>2
      <4>2. m \in (base[s] + 1)..Queued(s) \/ m = Queued(s)'  BY <3>1
      <4>3. QED  BY <2>1, <2>2, <3>1, <4>1, <4>2 DEF Complete
    <3>4. ~closed'[s] => shutdown' \/ s \in subs'[task'[s]]
      <4>1. \A q \in Publishers : s \in todo[q] => q = p
        BY <1>2, OnePublisher DEF DeliveryInv
      <4>2. QED  BY <1>2, <2>1, <2>2, <3>1, <3>2, <4>1 DEF Complete, service
    <3>5. Queued(s)' > base'[s]  BY <3>1
    <3>6. Owed(s)' = 0  BY <2>0 DEF Owed
    <3>7. Len(log'[task'[s]]) = Queued(s)' + Owed(s)' /\ Queued(s)' <= Len(log'[task'[s]])
      BY <3>1, <3>6
    <3>8. QED  BY <3>2, <3>3, <3>4, <3>5, <3>7 DEF Complete
  <2>3. ASSUME closed[s] PROVE Complete(s)'
    <3>1. Queued(s)' = Queued(s)  BY <1>8, <2>3, NumbersKept DEF SameQueue
    <3>2. /\ closed'[s] /\ task'[s] = task[s] /\ base'[s] = base[s] /\ log' = log
          /\ cancelled'[s] = cancelled[s] /\ shutdown' = shutdown
      BY <1>2, <1>7, <2>3 DEF service, history
    <3>3. QED  BY <2>1, <2>3, <3>1, <3>2 DEF Complete
  <2>4. ASSUME NEW u \in Sessions, u # s, pc[u] # "absent" PROVE Complete(u)'
    <3>1. \A q \in Publishers : u \in todo'[q] <=> u \in todo[q]  BY <1>3, <2>4
    <3>2. QED
      BY <1>2, <1>8, <2>4, <3>1, CompleteElsewhere
         DEF DeliveryInv, CompleteInv, service, history
  <2>5. QED  BY <1>5, <2>2, <2>3, <2>4 DEF CompleteInv
<1>11. EndingInv'
  <2>1. \A u \in Sessions : closed[u] => closed'[u]  BY <1>7
  <2>2. QED
    BY <1>2, <1>5, <2>1, EndingKept DEF DeliveryInv, EndingInv, SameEnd, frame, history, service
<1>12. FreshInv'
  BY <1>2, <1>5, <1>6, <1>7, FreshKept DEF DeliveryInv, FreshInv, history
<1>13. QED  BY <1>4, <1>9, <1>10, <1>11, <1>12 DEF DeliveryInv

-----------------------------------------------------------------------------
(* Closing, cancelling and leaving a session.                              *)

(* What these steps may do to the sessions: close one that is shut down or *)
(* cancelled, take a closed one out of the registry, end the service of    *)
(* its client.                                                             *)
LEMMA QueueStep ==
    ASSUME FrameInv, DeliveryInv, ServiceInv', NoneOpened,
           UNCHANGED <<task, base, events, pending, at, event, isTerminal, value, log,
                       delivered, cut>>,
           shutdown => shutdown',
           \A u \in Sessions :
               /\ closed[u] => closed'[u]
               /\ cancelled[u] => cancelled'[u]
               /\ closed'[u] /\ ~closed[u] => shutdown' \/ cancelled'[u]
               /\ pc[u] = "absent" => closed'[u] = closed[u] /\ outcome'[u] = outcome[u]
               /\ ~closed'[u] /\ ~shutdown' =>
                     (u \in subs'[task[u]] <=> u \in subs[task[u]])
               /\ \/ pc'[u] = pc[u] /\ outcome'[u] = outcome[u]
                  \/ pc'[u] \notin Serving
                  \/ /\ pc[u] \in Serving /\ outcome'[u] = outcome[u]
                     /\ pc'[u] # "isPending",
           \A p \in Publishers : /\ todo'[p] = todo[p]
                                 /\ todo[p] # {} => message'[p] = message[p]
    PROVE  DeliveryInv'
<1>1. OrderedInv'
  <2>1. \A u \in Sessions : SameOrder(u)  BY DEF SameOrder
  <2>2. QED  BY <2>1, OrderedKept DEF DeliveryInv, OrderedInv
<1>2. CompleteInv'
  <2>0. SUFFICES ASSUME NEW u \in Sessions, pc'[u] # "absent" PROVE Complete(u)'
    BY DEF CompleteInv
  <2>1. Complete(u)  BY <2>0 DEF DeliveryInv, CompleteInv, NoneOpened
  <2>2. Queued(u)' = Queued(u) /\ Owed(u)' = Owed(u)  BY NumbersKept DEF Owed
  <2>3. /\ Queued(u)' <= Len(log'[task'[u]])
        /\ ~closed'[u] => Len(log'[task'[u]]) = Queued(u)' + Owed(u)'
    BY <2>1, <2>2 DEF Complete
  <2>4. ~closed'[u] =>
           \/ shutdown' \/ u \in subs'[task'[u]]
           \/ \E p \in Publishers : u \in todo'[p] /\ log'[task'[u]][message'[p]] \in Terminal
    BY <2>1 DEF Complete
  <2>5. \A m \in (base'[u] + 1)..Queued(u)' :
           log'[task'[u]][m] \in Terminal => m = Queued(u)' /\ closed'[u]
    BY <2>1, <2>2 DEF Complete
  <2>6. closed'[u] => \/ shutdown' \/ cancelled'[u]
                      \/ Queued(u)' > base'[u] /\ log'[task'[u]][Queued(u)'] \in Terminal
    BY <2>1, <2>2 DEF Complete
  <2>7. QED  BY <2>3, <2>4, <2>5, <2>6 DEF Complete
<1>3. EndingInv'
  <2>0. SUFFICES ASSUME NEW u \in Sessions, pc'[u] # "absent" PROVE Ending(u)'
    BY DEF EndingInv
  <2>1. Ends(u) /\ Serves(u)  BY <2>0, EndingParts DEF DeliveryInv, EndingInv, NoneOpened
  <2>2. Ends(u)'  BY <2>1, EndsKept DEF SameEnd
  <2>3. Serves(u)'  BY <2>1 DEF Serves, Serving
  <2>4. QED  BY <2>2, <2>3, EndingParts
<1>4. FreshInv'
  BY FreshKept DEF DeliveryInv, FreshInv, NoneOpened
<1>5. QED  BY <1>1, <1>2, <1>3, <1>4 DEF DeliveryInv

(* IsLive ends the service of a client, or goes on.                        *)
LEMMA IsLiveDelivers ==
    ASSUME FrameInv, DeliveryInv, NEW s \in Sessions, IsDone(s) \/ IsPending(s)
    PROVE  DeliveryInv' /\ NoneOpened
<1>1. TypeOK /\ ThreadsInv /\ s \in Threads  BY DEF FrameInv, Threads
<1>2. PICK label \in {"leave", "isClosed", "write"} :
         Goto(s, label) /\ (label # "leave" => outcome' = outcome)
  BY DEF IsDone, IsPending, EndOfStream
<1>3. /\ UNCHANGED <<service, subscriber, wakeup, frame, locals, log, delivered, cut>>
      /\ pc[s] \in {"isDone", "isPending"}
      /\ \A u \in Sessions \ {s} : outcome'[u] = outcome[u]
  BY <1>1 DEF TypeOK, IsDone, IsPending, EndOfStream
<1>4. ServiceInv' /\ NoneOpened
  BY <1>1, <1>2, <1>3, ServiceKept DEF DeliveryInv, subscriber, locals
<1>5. pc'[s] = label /\ \A u \in Sessions \ {s} : pc'[u] = pc[u]
  BY <1>1, <1>2 DEF TypeOK, Goto, Threads
<1>6. \A u \in Sessions : \/ pc'[u] = pc[u] /\ outcome'[u] = outcome[u]
                          \/ pc'[u] \notin Serving
                          \/ /\ pc[u] \in Serving /\ outcome'[u] = outcome[u]
                             /\ pc'[u] # "isPending"
  BY <1>2, <1>3, <1>5 DEF Serving
<1>7. \A u \in Sessions : pc[u] = "absent" => outcome'[u] = outcome[u]  BY <1>3
<1>8. QED
  BY <1>3, <1>4, <1>6, <1>7, QueueStep DEF service, subscriber, frame, locals

(* Cancel marks the session, and its client is no longer served when it is *)
(* the transport that cancels.                                             *)
LEMMA CancelDelivers ==
    ASSUME FrameInv, DeliveryInv, NEW t \in Threads, NEW s \in Sessions,
           \/ t = s /\ (WriteFails(s) \/ LeaveSession(s))
           \/ t \in Cancellers /\ CancelFromOutside(t, s)
    PROVE  DeliveryInv' /\ NoneOpened
<1>1. TypeOK /\ ThreadsInv  BY DEF FrameInv
<1>2. ExchangeCancelled(t, s)  BY DEF WriteFails, LeaveSession, CancelFromOutside
<1>3. /\ UNCHANGED <<service, task, base, events, closed, pending, frame, todo, message,
                     log, delivered, cut>>
      /\ \A u \in Sessions : cancelled[u] => cancelled'[u]
      /\ \A u \in Threads : u # t => target'[u] = target[u]
      /\ target'[t] = s
  BY <1>1, <1>2 DEF TypeOK, ExchangeCancelled
<1>4. PICK label \in {"close", "destroy", "exit"} : Goto(t, label)
  BY <1>2 DEF ExchangeCancelled, AfterCancel
<1>5. pc[s] # "absent" /\ pc[t] # "absent" /\ t \notin Publishers \cup {Closer}
  BY <1>1, ThreadsAssumption DEF WriteFails, LeaveSession, CancelFromOutside
<1>6. ServiceInv' /\ NoneOpened
  BY <1>1, <1>3, <1>4, <1>5, ServiceMove DEF DeliveryInv, service
<1>7. \A u \in Sessions : pc'[u] = IF u = t THEN label ELSE pc[u]
  BY <1>1, <1>4 DEF TypeOK, Goto, Threads
<1>8. \A u \in Sessions : u # t => outcome'[u] = outcome[u]
  BY <1>1 DEF TypeOK, WriteFails, LeaveSession, CancelFromOutside
<1>9. \A u \in Sessions : /\ (pc'[u] = pc[u] /\ outcome'[u] = outcome[u]) \/ pc'[u] \notin Serving
                          /\ pc[u] = "absent" => outcome'[u] = outcome[u]
  BY <1>5, <1>7, <1>8 DEF Serving
<1>10. QED  BY <1>3, <1>6, <1>9, QueueStep DEF service, frame

(* A thread inside Cancel closes the session and takes it out of the       *)
(* registry.                                                               *)
LEMMA RemoveDelivers ==
    ASSUME FrameInv, DeliveryInv, NEW t \in Sessions \cup Cancellers,
           RemoveSubscriberClose(t) \/ RemoveSubscriberErase(t)
    PROVE  DeliveryInv' /\ NoneOpened
<1>1. TypeOK /\ ThreadsInv /\ t \in Threads /\ t \notin Publishers \cup {Closer}
  BY ThreadsAssumption DEF FrameInv, Threads
<1>2. pc[t] \in {"close", "erase"}  BY DEF RemoveSubscriberClose, RemoveSubscriberErase
<1>3. PICK s \in Sessions : s = target[t]
  BY <1>1, <1>2, CancelTarget DEF InCancel
<1>4. cancelled[s] /\ (pc[t] = "erase" => closed[s])
  BY <1>2, <1>3 DEF FrameInv, CloseInv, InCancel
<1>5. PICK label \in {"signal", "drain"} : Goto(t, label)
  BY DEF RemoveSubscriberClose, RemoveSubscriberErase
<1>6. /\ UNCHANGED <<shutdown, latest, publisher, task, base, events, pending, cancelled,
                     frame, locals, history>>
      /\ \A u \in Sessions : closed[u] => closed'[u]
      /\ \A u \in Sessions \ {s} : closed'[u] = closed[u]
      /\ \A k \in Tasks : subs'[k] \subseteq subs[k]
      /\ \A k \in Tasks : \A u \in subs[k] : u # s => u \in subs'[k]
      /\ pc[t] = "close" => subs' = subs
  <2>1. CASE RemoveSubscriberClose(t)
    BY <1>1, <1>3, <2>1 DEF TypeOK, RemoveSubscriberClose, service
  <2>2. CASE RemoveSubscriberErase(t)
    BY <1>1, <1>3, <2>2 DEF TypeOK, RemoveSubscriberErase, subscriber
  <2>3. QED  BY <2>1, <2>2
<1>7. pc[s] # "absent"
  <2>1. CASE t \in Sessions  BY <1>1, <1>2, <1>3, <2>1 DEF ThreadsInv
  <2>2. CASE t \in Cancellers  BY <1>2, <1>3, <2>2 DEF DeliveryInv, ServiceInv
  <2>3. QED  BY <2>1, <2>2
<1>8. ServiceInv' /\ NoneOpened
  BY <1>1, <1>2, <1>3, <1>5, <1>6, <1>7, ServiceMove DEF DeliveryInv, locals, history
<1>9. \A u \in Sessions : pc'[u] = IF u = t THEN label ELSE pc[u]
  BY <1>1, <1>5 DEF TypeOK, Goto
<1>10. \A u \in Sessions : pc'[u] = pc[u] \/ pc'[u] \notin Serving
  BY <1>5, <1>9 DEF Serving
<1>11. \A u \in Sessions : ~closed'[u] => (u \in subs'[task[u]] <=> u \in subs[task[u]])
  <2>1. SUFFICES ASSUME NEW u \in Sessions, ~closed'[u]
                 PROVE  u \in subs'[task[u]] <=> u \in subs[task[u]]
    OBVIOUS
  <2>2. CASE pc[t] = "close"  BY <1>6, <2>2
  <2>3. CASE pc[t] = "erase"
    <3>1. u # s  BY <1>4, <1>6, <2>1, <2>3
    <3>2. subs' = [subs EXCEPT ![task[s]] = @ \ {s}]
      BY <1>3, <2>3 DEF RemoveSubscriberClose, RemoveSubscriberErase
    <3>3. QED  BY <1>1, <3>1, <3>2 DEF TypeOK
  <2>4. QED  BY <1>2, <2>2, <2>3
<1>12. QED
  BY <1>4, <1>6, <1>7, <1>8, <1>10, <1>11, QueueStep DEF frame, locals, history

(* Shutdown closes the sessions it found in the registry.                  *)
LEMMA ShutdownCloseDelivers ==
    ASSUME FrameInv, DeliveryInv, NEW s \in Sessions, ShutdownClose(s)
    PROVE  DeliveryInv' /\ NoneOpened
<1>1. /\ TypeOK /\ ThreadsInv /\ Closer \in Threads
      /\ Closer \notin Publishers \cup Sessions \cup Cancellers
  BY ThreadsAssumption DEF FrameInv, Threads
<1>2. /\ pc[Closer] = "closing" /\ s \in todo[Closer] /\ Goto(Closer, "signal")
      /\ UNCHANGED <<service, task, base, events, pending, cancelled, frame, message, history>>
  BY DEF ShutdownClose
<1>3. /\ \A u \in Threads : u # Closer => target'[u] = target[u]
      /\ \A q \in Publishers : todo'[q] = todo[q]
      /\ todo'[Closer] \subseteq todo[Closer]
      /\ closed'[s] /\ \A u \in Sessions \ {s} : closed'[u] = closed[u]
  BY <1>1 DEF TypeOK, ShutdownClose
<1>4. shutdown /\ pc[s] # "absent"  BY <1>2 DEF DeliveryInv, ServiceInv
<1>5. ServiceInv' /\ NoneOpened
  BY <1>1, <1>2, <1>3, ServiceMove DEF DeliveryInv, service, history
<1>6. \A u \in Sessions : pc'[u] = pc[u]  BY <1>1, <1>2 DEF TypeOK, Goto, Threads
<1>7. QED
  BY <1>2, <1>3, <1>4, <1>5, <1>6, QueueStep DEF service, frame, history

(* The block of Shutdown under the service's mutex.                        *)
LEMMA ShutdownDelivers ==
    ASSUME FrameInv, DeliveryInv, Shutdown
    PROVE  DeliveryInv' /\ NoneOpened
<1>1. /\ TypeOK /\ ThreadsInv /\ Closer \in Threads
      /\ Closer \notin Publishers \cup Sessions \cup Cancellers
  BY ThreadsAssumption DEF FrameInv, Threads
<1>2. /\ shutdown' /\ Goto(Closer, "closing") /\ subs' = [k \in Tasks |-> {}]
      /\ UNCHANGED <<publisher, subscriber, frame, target, message, history>>
  BY DEF Shutdown
<1>3. /\ \A u \in Threads : u # Closer => pc'[u] = pc[u]
      /\ \A q \in Publishers : todo'[q] = todo[q]
      /\ todo'[Closer] = UNION {subs[k] : k \in Tasks}
  BY <1>1 DEF TypeOK, Shutdown, Goto
<1>4. NoneOpened /\ \A u \in Sessions : pc'[u] = pc[u]
  BY <1>1, <1>3 DEF NoneOpened, Threads
<1>5. ServiceInv'
  <2>1. \A q \in Publishers : /\ pc'[q] # "idle" => publisher' = q
                              /\ todo'[q] # {} => pc'[q] # "idle"
                              /\ \A u \in todo'[q] : message'[q] = Len(log'[task'[u]])
    BY <1>1, <1>2, <1>3 DEF DeliveryInv, ServiceInv, Threads, subscriber, history
  <2>2. \A q \in Publishers \cup {Closer} : \A u \in todo'[q] : pc'[u] # "absent"
    <3>1. \A q \in Publishers : todo[q] \subseteq Sessions  BY <1>1 DEF TypeOK
    <3>2. \A k \in Tasks : subs[k] \subseteq Sessions  BY <1>1 DEF TypeOK
    <3>3. \A q \in Publishers : \A u \in todo'[q] : pc'[u] # "absent"
      BY <1>3, <1>4, <3>1 DEF DeliveryInv, ServiceInv
    <3>4. \A u \in todo'[Closer] : pc'[u] # "absent"
      BY <1>3, <1>4, <3>2 DEF DeliveryInv, ServiceInv
    <3>5. QED  BY <3>3, <3>4
  <2>3. \A k \in Tasks : \A u \in subs'[k] : task'[u] = k /\ pc'[u] # "absent"  BY <1>2
  <2>4. \A c \in Cancellers : pc'[c] # "idle" => pc'[target'[c]] # "absent"
    <3>1. \A c \in Cancellers : pc[c] # "idle" => target[c] \in Sessions
      BY <1>1 DEF ThreadsInv
    <3>2. QED  BY <1>1, <1>2, <1>3, <1>4, <3>1 DEF DeliveryInv, ServiceInv, Threads
  <2>5. \A u \in Sessions : pc'[u] # "absent" => task'[u] \in Tasks
    BY <1>2, <1>4 DEF DeliveryInv, ServiceInv, subscriber
  <2>6. QED  BY <1>2, <2>1, <2>2, <2>3, <2>4, <2>5 DEF ServiceInv
<1>6. QED
  BY <1>2, <1>3, <1>4, <1>5, QueueStep DEF subscriber, frame, history

(* PublishTaskUpdated returns.                                             *)
LEMMA EndPublishDelivers ==
    ASSUME FrameInv, DeliveryInv, NEW p \in Publishers, EndPublish(p)
    PROVE  DeliveryInv' /\ NoneOpened
<1>1. TypeOK /\ ThreadsInv /\ p \in Threads /\ p \notin Sessions \cup Cancellers /\ p # Closer
  BY ThreadsAssumption DEF FrameInv, Threads
<1>2. /\ pc[p] = "deliver" /\ todo[p] = {} /\ Goto(p, "idle") /\ publisher' = NoThread
      /\ UNCHANGED <<shutdown, latest, subs, subscriber, frame, todo, history>>
  BY DEF EndPublish
<1>3. /\ \A u \in Threads : pc'[u] = IF u = p THEN "idle" ELSE pc[u]
      /\ \A u \in Threads : u # p => target'[u] = target[u]
      /\ \A q \in Publishers : q # p => message'[q] = message[q]
  BY <1>1, <1>2 DEF TypeOK, Goto, EndPublish
<1>4. NoneOpened /\ \A u \in Sessions : pc'[u] = pc[u]
  BY <1>1, <1>3 DEF NoneOpened, Threads
<1>5. ServiceInv'
  <2>1. \A q \in Publishers : /\ pc'[q] = "idle" /\ todo'[q] = {}
    BY <1>1, <1>2, <1>3, OnePublisher DEF DeliveryInv, Threads
  <2>2. \A u \in todo'[Closer] : pc'[u] # "absent"
    <3>1. todo[Closer] \subseteq Sessions  BY <1>1 DEF TypeOK
    <3>2. QED  BY <1>2, <1>4, <3>1 DEF DeliveryInv, ServiceInv
  <2>3. \A k \in Tasks : \A u \in subs'[k] : task'[u] = k /\ pc'[u] # "absent"
    <3>1. \A k \in Tasks : subs[k] \subseteq Sessions  BY <1>1 DEF TypeOK
    <3>2. QED  BY <1>2, <1>4, <3>1 DEF DeliveryInv, ServiceInv, subscriber
  <2>4. /\ ~shutdown' => \A k \in Tasks : latest'[k] = Len(log'[k])
        /\ pc'[Closer] # "idle" => shutdown'
    BY <1>1, <1>2, <1>3 DEF DeliveryInv, ServiceInv, Threads, history
  <2>5. \A c \in Cancellers : pc'[c] # "idle" => pc'[target'[c]] # "absent"
    <3>1. \A c \in Cancellers : /\ pc[c] # "idle" => target[c] \in Sessions
                                /\ c \in Threads /\ c # p
      BY <1>1 DEF ThreadsInv, Threads
    <3>2. QED  BY <1>3, <1>4, <3>1 DEF DeliveryInv, ServiceInv
  <2>6. \A u \in Sessions : pc'[u] # "absent" => task'[u] \in Tasks
    BY <1>2, <1>4 DEF DeliveryInv, ServiceInv, subscriber
  <2>7. QED  BY <2>1, <2>2, <2>3, <2>4, <2>5, <2>6 DEF ServiceInv
<1>6. \A q \in Publishers : todo'[q] = todo[q] /\ (todo[q] # {} => message'[q] = message[q])
  BY <1>2, <1>3
<1>7. QED
  BY <1>2, <1>4, <1>5, <1>6, QueueStep DEF subscriber, frame, history

-----------------------------------------------------------------------------
(* Subscribe and PublishTaskUpdated.                                       *)

(* A session is opened at the updates published so far.                    *)
LEMMA SubscribeService ==
    ASSUME FrameInv, DeliveryInv, NEW s \in Sessions, NEW k \in Tasks, NEW given,
           Subscribe(s, k, given)
    PROVE  ServiceInv'
<1>1. TypeOK /\ ThreadsInv /\ s \in Threads  BY DEF FrameInv, Threads
<1>2. s \notin Publishers \cup Cancellers \cup {Closer}  BY ThreadsAssumption
<1>3. /\ pc[s] = "absent" /\ ~shutdown /\ Goto(s, "next")
      /\ UNCHANGED <<shutdown, latest, publisher, locals, history>>
  BY DEF Subscribe
<1>4. /\ \A u \in Threads : pc'[u] = IF u = s THEN "next" ELSE pc[u]
      /\ \A u \in Sessions : task'[u] = IF u = s THEN k ELSE task[u]
      /\ \A j \in Tasks : subs'[j] = IF j = k THEN subs[j] \cup {s} ELSE subs[j]
  BY <1>1, <1>3 DEF TypeOK, Subscribe, Goto
<1>5. /\ \A q \in Publishers \cup {Closer} : todo[q] \subseteq Sessions /\ s \notin todo[q]
      /\ \A j \in Tasks : subs[j] \subseteq Sessions
  BY <1>1, <1>3 DEF TypeOK, DeliveryInv, ServiceInv
<1>6. \A u \in Sessions : pc'[u] = "absent" => pc[u] = "absent"
  BY <1>4 DEF Threads
<1>7. \A q \in Publishers : /\ pc'[q] # "idle" => publisher' = q
                            /\ todo'[q] # {} => pc'[q] # "idle"
                            /\ \A u \in todo'[q] : message'[q] = Len(log'[task'[u]])
  <2>1. \A q \in Publishers : q \in Threads /\ pc'[q] = pc[q]  BY <1>2, <1>4 DEF Threads
  <2>2. \A q \in Publishers : \A u \in todo[q] : task'[u] = task[u]  BY <1>4, <1>5
  <2>3. QED  BY <1>3, <2>1, <2>2 DEF DeliveryInv, ServiceInv, locals, history
<1>8. \A q \in Publishers \cup {Closer} : \A u \in todo'[q] : pc'[u] # "absent"
  BY <1>3, <1>5, <1>6 DEF DeliveryInv, ServiceInv, locals
<1>9. \A j \in Tasks : \A u \in subs'[j] : task'[u] = j /\ pc'[u] # "absent"
  <2>1. SUFFICES ASSUME NEW j \in Tasks, NEW u \in subs'[j]
                 PROVE  task'[u] = j /\ pc'[u] # "absent"
    OBVIOUS
  <2>2. CASE u = s
    <3>1. s \notin subs[j]  BY <1>3 DEF DeliveryInv, ServiceInv
    <3>2. j = k  BY <1>4, <2>2, <3>1
    <3>3. QED  BY <1>1, <1>4, <2>2, <3>2
  <2>3. CASE u # s
    <3>1. u \in subs[j] /\ u \in Sessions  BY <1>4, <1>5, <2>3
    <3>2. task[u] = j /\ pc[u] # "absent"  BY <3>1 DEF DeliveryInv, ServiceInv
    <3>3. QED  BY <1>4, <1>6, <2>3, <3>1, <3>2
  <2>4. QED  BY <2>2, <2>3
<1>10. /\ ~shutdown' => \A j \in Tasks : latest'[j] = Len(log'[j])
       /\ pc'[Closer] # "idle" => shutdown'
  BY <1>2, <1>3, <1>4 DEF DeliveryInv, ServiceInv, Threads, history
<1>11. \A c \in Cancellers : pc'[c] # "idle" => pc'[target'[c]] # "absent"
  <2>1. \A c \in Cancellers : /\ pc[c] # "idle" => target[c] \in Sessions
                              /\ c \in Threads /\ pc'[c] = pc[c]
    BY <1>1, <1>2, <1>4 DEF ThreadsInv, Threads
  <2>2. QED  BY <1>3, <1>6, <2>1 DEF DeliveryInv, ServiceInv, locals
<1>12. \A u \in Sessions : pc'[u] # "absent" => task'[u] \in Tasks
  BY <1>4 DEF DeliveryInv, ServiceInv, Threads
<1>13. QED  BY <1>7, <1>8, <1>9, <1>10, <1>11, <1>12 DEF ServiceInv

LEMMA SubscribeDelivers ==
    ASSUME FrameInv, DeliveryInv, NEW s \in Sessions, NEW k \in Tasks, NEW given,
           Subscribe(s, k, given)
    PROVE  DeliveryInv'
<1>1. TypeOK  BY DEF FrameInv
<1>2. /\ pc[s] = "absent" /\ ~shutdown /\ Goto(s, "next")
      /\ UNCHANGED <<shutdown, latest, publisher, events, closed, pending, cancelled, frame,
                     locals, history>>
  BY DEF Subscribe
<1>3. /\ task'[s] = k /\ \A u \in Sessions \ {s} : task'[u] = task[u]
      /\ base'[s] = Len(log[k]) /\ \A u \in Sessions \ {s} : base'[u] = base[u]
      /\ s \in subs'[k] /\ \A u \in Sessions \ {s} : u \in subs'[task[u]] <=> u \in subs[task[u]]
      /\ pc'[s] = "next" /\ \A u \in Sessions \ {s} : pc'[u] = pc[u]
  <2>1. latest[k] = Len(log[k])  BY <1>2 DEF DeliveryInv, ServiceInv
  <2>2. task'[s] = k /\ \A u \in Sessions \ {s} : task'[u] = task[u]
    BY <1>1 DEF TypeOK, Subscribe
  <2>3. base'[s] = Len(log[k]) /\ \A u \in Sessions \ {s} : base'[u] = base[u]
    BY <1>1, <2>1 DEF TypeOK, Subscribe
  <2>4. s \in subs'[k] /\ \A u \in Sessions \ {s} : u \in subs'[task[u]] <=> u \in subs[task[u]]
    BY <1>1 DEF TypeOK, Subscribe
  <2>5. pc'[s] = "next" /\ \A u \in Sessions \ {s} : pc'[u] = pc[u]
    BY <1>1, <1>2 DEF TypeOK, Goto, Threads
  <2>6. QED  BY <2>2, <2>3, <2>4, <2>5
<1>4. Fresh(s) /\ Ordered(s)  BY <1>2 DEF DeliveryInv, FreshInv, OrderedInv
<1>5. at[s] = "initial" /\ value[s] = NoEvent /\ event[s] = NoEvent
  BY <1>2 DEF FrameInv, YieldInv, StagedInv
<1>6. \A u \in Sessions \ {s} : SameOrder(u) /\ SameQueue(u) /\ SameEnd(u)
  BY <1>2, <1>3 DEF SameOrder, SameQueue, SameEnd, frame, history
<1>7. OrderedInv'
  <2>1. /\ value'[s] = NoEvent /\ event'[s] = NoEvent /\ events'[s] = <<>>
        /\ at'[s] = "initial" /\ delivered'[s] = <<>> /\ ~isTerminal'[s]
    BY <1>2, <1>4, <1>5 DEF Fresh, Ordered, frame, history
  <2>2. Ordered(s)'  BY <2>1 DEF Ordered, NoEvent, Snapshot
  <2>3. QED  BY <1>6, <2>2, OrderedKept DEF DeliveryInv, OrderedInv
<1>8. CompleteInv'
  <2>1. Complete(s)'
    <3>1. Len(log[k]) \in Nat  BY <1>1 DEF TypeOK
    <3>2. UpdatesSeen(s)' = 0 /\ pending'[s] = 0 /\ ~closed'[s]
      BY <1>2, <1>4 DEF Fresh, UpdatesSeen, history
    <3>3. Queued(s)' = Len(log[k])  BY <1>3, <3>1, <3>2 DEF Queued, Received
    <3>4. Owed(s)' = 0  BY <1>2 DEF DeliveryInv, ServiceInv, Owed, locals
    <3>5. log'[task'[s]] = log[k]  BY <1>2, <1>3 DEF history
    <3>6. \A m \in (base'[s] + 1)..Queued(s)' : FALSE  BY <1>3, <3>1, <3>3
    <3>7. QED  BY <1>3, <3>1, <3>2, <3>3, <3>4, <3>5, <3>6 DEF Complete
  <2>2. ASSUME NEW u \in Sessions \ {s}, pc[u] # "absent" PROVE Complete(u)'
    BY <1>2, <1>3, <1>6, <2>2, CompleteElsewhere
       DEF DeliveryInv, CompleteInv, locals, history
  <2>3. QED  BY <1>3, <2>1, <2>2 DEF CompleteInv
<1>9. EndingInv'
  <2>1. Ending(s)'  BY <1>2, <1>3, <1>4, <1>5 DEF Ending, Fresh, frame, history
  <2>2. ASSUME NEW u \in Sessions \ {s}, pc[u] # "absent" PROVE Ending(u)'
    BY <1>2, <1>3, <1>6, <2>2, EndingKept DEF DeliveryInv, EndingInv, history
  <2>3. QED  BY <1>3, <2>1, <2>2 DEF EndingInv
<1>10. FreshInv'
  BY <1>2, <1>3, FreshKept DEF DeliveryInv, FreshInv, history
<1>11. QED  BY <1>7, <1>8, <1>9, <1>10, SubscribeService DEF DeliveryInv

(* What a publication changes.                                             *)
LEMMA PublishChanges ==
    ASSUME FrameInv, DeliveryInv, NEW p \in Publishers, NEW k \in Tasks,
           NEW state \in States, Publish(p, k, state)
    PROVE  /\ \A q \in Publishers : pc[q] = "idle" /\ todo[q] = {}
           /\ \A j \in Tasks : j # k => log'[j] = log[j] /\ subs'[j] = subs[j]
           /\ Len(log'[k]) = Len(log[k]) + 1 /\ log'[k][Len(log[k]) + 1] = state
           /\ \A m \in 1..Len(log[k]) : log'[k][m] = log[k][m]
           /\ subs'[k] = IF state \in Terminal THEN {} ELSE subs[k]
           /\ todo'[p] = subs[k] /\ \A q \in Publishers \cup {Closer} : q # p => todo'[q] = todo[q]
           /\ subs[k] # {} => message'[p] = Len(log[k]) + 1
           /\ \A u \in Sessions : pc'[u] = pc[u]
           /\ UNCHANGED <<shutdown, subscriber, frame, target, delivered, outcome, cut>>
<1>1. TypeOK /\ p \in Threads /\ p \notin Sessions \cup Cancellers /\ p # Closer
  BY ThreadsAssumption DEF FrameInv, Threads
<1>2. publisher = NoThread  BY DEF Publish
<1>3. \A q \in Publishers : pc[q] = "idle" /\ todo[q] = {}
  BY <1>2, ThreadsAssumption DEF DeliveryInv, ServiceInv
<1>4. /\ \A j \in Tasks : j # k => log'[j] = log[j] /\ subs'[j] = subs[j]
      /\ log'[k] = Append(log[k], state) /\ log[k] \in Seq(States)
      /\ subs'[k] = IF state \in Terminal THEN {} ELSE subs[k]
  BY <1>1 DEF TypeOK, Publish
<1>5. /\ Len(log'[k]) = Len(log[k]) + 1 /\ log'[k][Len(log[k]) + 1] = state
      /\ \A m \in 1..Len(log[k]) : log'[k][m] = log[k][m]
  BY <1>4
<1>6. /\ todo'[p] = subs[k] /\ \A q \in Publishers \cup {Closer} : q # p => todo'[q] = todo[q]
      /\ subs[k] # {} => message'[p] = Len(log[k]) + 1
  <2>1. CASE subs[k] = {}  BY <1>3, <2>1 DEF Publish
  <2>2. CASE subs[k] # {}  BY <1>1, <2>2 DEF TypeOK, Publish
  <2>3. QED  BY <2>1, <2>2
<1>7. \A u \in Sessions : pc'[u] = pc[u]
  <2>1. CASE subs[k] = {}  BY <2>1 DEF Publish
  <2>2. CASE subs[k] # {}
    <3>1. Goto(p, "deliver")  BY <2>2 DEF Publish
    <3>2. QED  BY <1>1, <3>1 DEF TypeOK, Goto, Threads
  <2>3. QED  BY <2>1, <2>2
<1>8. UNCHANGED <<shutdown, subscriber, frame, target, delivered, outcome, cut>>
  BY DEF Publish
<1>9. QED  BY <1>3, <1>4, <1>5, <1>6, <1>7, <1>8

LEMMA PublishService ==
    ASSUME FrameInv, DeliveryInv, NEW p \in Publishers, NEW k \in Tasks,
           NEW state \in States, Publish(p, k, state)
    PROVE  ServiceInv'
<1>1. TypeOK /\ ThreadsInv /\ p \in Threads /\ p \notin Sessions \cup Cancellers /\ p # Closer
  BY ThreadsAssumption DEF FrameInv, Threads
<1>p. /\ todo'[p] = subs[k] /\ \A q \in Publishers \cup {Closer} : q # p => todo'[q] = todo[q]
      /\ \A q \in Publishers : pc[q] = "idle" /\ todo[q] = {}
      /\ subs[k] # {} => message'[p] = Len(log[k]) + 1
      /\ Len(log'[k]) = Len(log[k]) + 1
  BY PublishChanges
<1>u. /\ task' = task /\ target' = target /\ shutdown' = shutdown
      /\ \A u \in Sessions : pc'[u] = pc[u]
  BY PublishChanges DEF subscriber
<1>2. \A j \in Tasks : subs[j] \subseteq Sessions /\ subs'[j] \subseteq subs[j]
  BY <1>1, PublishChanges DEF TypeOK
<1>3. \A u \in subs[k] : task[u] = k /\ pc[u] # "absent" /\ u \in Sessions
  BY <1>2 DEF DeliveryInv, ServiceInv
<1>4. /\ \A u \in Threads : u # p => pc'[u] = pc[u]
      /\ subs[k] # {} => pc'[p] = "deliver" /\ publisher' = p
      /\ subs[k] = {} => pc'[p] = "idle"
  BY <1>1 DEF TypeOK, Publish, Goto
<1>5. \A q \in Publishers : /\ pc'[q] # "idle" => publisher' = q
                            /\ todo'[q] # {} => pc'[q] # "idle"
                            /\ \A u \in todo'[q] : message'[q] = Len(log'[task'[u]])
  <2>1. TAKE q \in Publishers
  <2>2. CASE q = p
    BY <1>p, <1>u, <1>3, <1>4, <2>2
  <2>3. CASE q # p
    BY <1>p, <1>4, <2>3 DEF Threads
  <2>4. QED  BY <2>2, <2>3
<1>6. \A q \in Publishers \cup {Closer} : \A u \in todo'[q] : pc'[u] # "absent"
  <2>1. TAKE q \in Publishers \cup {Closer}
  <2>2. CASE q = p  BY <1>p, <1>u, <1>3, <2>2
  <2>3. CASE q # p
    <3>1. todo[q] \subseteq Sessions  BY <1>1 DEF TypeOK
    <3>2. \A u \in todo[q] : pc[u] # "absent"  BY DEF DeliveryInv, ServiceInv
    <3>3. QED  BY <1>p, <1>u, <2>3, <3>1, <3>2
  <2>4. QED  BY <2>2, <2>3
<1>7. \A j \in Tasks : \A u \in subs'[j] : task'[u] = j /\ pc'[u] # "absent"
  <2>1. \A j \in Tasks : \A u \in subs[j] : task[u] = j /\ pc[u] # "absent"
    BY DEF DeliveryInv, ServiceInv
  <2>2. QED  BY <1>2, <1>u, <2>1
<1>8. /\ ~shutdown' => \A j \in Tasks : latest'[j] = Len(log'[j])
      /\ pc'[Closer] # "idle" => shutdown'
  <2>1. ~shutdown /\ latest' = [latest EXCEPT ![k] = Len(log[k]) + 1]  BY DEF Publish
  <2>2. \A j \in Tasks : latest'[j] = Len(log'[j])
    <3>1. \A j \in Tasks : latest[j] = Len(log[j])  BY <2>1 DEF DeliveryInv, ServiceInv
    <3>2. latest \in [Tasks -> Nat]  BY <1>1 DEF TypeOK
    <3>3. \A j \in Tasks : j # k => latest'[j] = latest[j]  BY <2>1, <3>2
    <3>4. latest'[k] = Len(log[k]) + 1  BY <2>1, <3>2
    <3>5. \A j \in Tasks : j # k => log'[j] = log[j]  BY PublishChanges
    <3>6. QED  BY <1>p, <3>1, <3>3, <3>4, <3>5
  <2>3. pc'[Closer] # "idle" => shutdown'
    BY <1>1, <1>4, <1>u DEF DeliveryInv, ServiceInv, Threads
  <2>4. QED  BY <2>2, <2>3
<1>9. \A c \in Cancellers : pc'[c] # "idle" => pc'[target'[c]] # "absent"
  <2>1. \A c \in Cancellers : /\ pc[c] # "idle" => target[c] \in Sessions
                              /\ c \in Threads /\ pc'[c] = pc[c]
    BY <1>1, <1>4 DEF ThreadsInv, Threads
  <2>2. \A c \in Cancellers : pc[c] # "idle" => pc[target[c]] # "absent"
    BY DEF DeliveryInv, ServiceInv
  <2>3. QED  BY <1>u, <2>1, <2>2
<1>10. \A u \in Sessions : pc'[u] # "absent" => task'[u] \in Tasks
  BY <1>u DEF DeliveryInv, ServiceInv
<1>11. QED  BY <1>5, <1>6, <1>7, <1>8, <1>9, <1>10 DEF ServiceInv

(* An open session is owed the update, and the closed ones are left alone. *)
LEMMA PublishComplete ==
    ASSUME FrameInv, DeliveryInv, NEW p \in Publishers, NEW k \in Tasks,
           NEW state \in States, Publish(p, k, state), NEW u \in Sessions, pc[u] # "absent"
    PROVE  Complete(u)'
<1>1. TypeOK /\ Complete(u) /\ task[u] \in Tasks
  BY DEF FrameInv, DeliveryInv, CompleteInv, ServiceInv
<1>p. /\ todo'[p] = subs[k] /\ \A q \in Publishers : q # p => todo'[q] = todo[q]
      /\ \A q \in Publishers : todo[q] = {}
      /\ subs[k] # {} => message'[p] = Len(log[k]) + 1
      /\ subs'[k] = IF state \in Terminal THEN {} ELSE subs[k]
  BY PublishChanges
<1>l. /\ Len(log'[k]) = Len(log[k]) + 1 /\ log'[k][Len(log[k]) + 1] = state
      /\ \A m \in 1..Len(log[k]) : log'[k][m] = log[k][m]
  BY PublishChanges
<1>2. /\ task'[u] = task[u] /\ base'[u] = base[u] /\ closed'[u] = closed[u]
      /\ cancelled'[u] = cancelled[u] /\ shutdown' = shutdown /\ ~shutdown
      /\ Queued(u)' = Queued(u)
  BY PublishChanges, NumbersKept DEF subscriber, Publish
<1>3. Queued(u) \in Nat /\ base[u] \in Nat /\ Owed(u) = 0
  BY <1>1, <1>p, NumbersTyped DEF TypeOK, Owed
<1>4. CASE task[u] # k
  <2>1. log'[task[u]] = log[task[u]] /\ subs'[task[u]] = subs[task[u]]
    BY <1>1, <1>4, PublishChanges
  <2>2. u \notin subs[k]  BY <1>4 DEF DeliveryInv, ServiceInv
  <2>3. \A q \in Publishers : u \notin todo[q] /\ u \notin todo'[q]
    BY <1>p, <2>2
  <2>4. Owed(u)' = 0  BY <2>3 DEF Owed
  <2>5. QED  BY <1>1, <1>2, <1>3, <2>1, <2>3, <2>4 DEF Complete
<1>5. CASE task[u] = k
  <2>1. Len(log[k]) \in Nat /\ Queued(u) <= Len(log[k])
    BY <1>1, <1>5 DEF TypeOK, Complete
  <2>2. \A m \in (base[u] + 1)..Queued(u) : log'[k][m] = log[k][m]
    BY <1>l, <1>3, <2>1
  <2>3. Queued(u)' <= Len(log'[task'[u]])  BY <1>l, <1>2, <1>3, <1>5, <2>1
  <2>4. \A m \in (base'[u] + 1)..Queued(u)' :
           log'[task'[u]][m] \in Terminal => m = Queued(u)' /\ closed'[u]
    BY <1>1, <1>2, <1>5, <2>2 DEF Complete
  <2>5. closed'[u] => \/ shutdown' \/ cancelled'[u]
                      \/ Queued(u)' > base'[u] /\ log'[task'[u]][Queued(u)'] \in Terminal
    <3>1. Queued(u) > base[u] => Queued(u) \in (base[u] + 1)..Queued(u)  BY <1>3
    <3>2. QED  BY <1>1, <1>2, <1>5, <2>2, <3>1 DEF Complete
  <2>6. ASSUME ~closed'[u]
        PROVE  /\ Len(log'[task'[u]]) = Queued(u)' + Owed(u)'
               /\ \/ shutdown' \/ u \in subs'[task'[u]]
                  \/ \E q \in Publishers :
                        u \in todo'[q] /\ log'[task'[u]][message'[q]] \in Terminal
    <3>1. u \in subs[k]  BY <1>p, <1>1, <1>2, <1>5, <2>6 DEF Complete
    <3>2. u \in todo'[p] /\ message'[p] = Len(log[k]) + 1  BY <1>p, <3>1
    <3>3. Owed(u)' = 1  BY <3>2 DEF Owed
    <3>4. Len(log[k]) = Queued(u)
      <4>1. Len(log[k]) = Queued(u) + Owed(u)  BY <1>1, <1>2, <1>5, <2>6 DEF Complete
      <4>2. QED  BY <1>3, <4>1
    <3>5. state \in Terminal \/ u \in subs'[k]  BY <1>p, <3>1
    <3>6. state \in Terminal => log'[task'[u]][message'[p]] \in Terminal
      BY <1>l, <1>2, <1>5, <3>2
    <3>7. QED  BY <1>l, <1>2, <1>5, <3>2, <3>3, <3>4, <3>5, <3>6
  <2>7. QED  BY <2>3, <2>4, <2>5, <2>6 DEF Complete
<1>6. QED  BY <1>4, <1>5

(* The updates a session has received or staged are among those published. *)
LEMMA StagedPublished ==
    ASSUME FrameInv, DeliveryInv, NEW u \in Sessions, pc[u] # "absent"
    PROVE  /\ Received(u) \in 0..Len(log[task[u]])
           /\ value[u] > Snapshot => value[u] \in 1..Len(log[task[u]])
<1>1. TypeOK /\ Complete(u) /\ Ordered(u) /\ task[u] \in Tasks
  BY DEF FrameInv, DeliveryInv, CompleteInv, OrderedInv, ServiceInv
<1>2. /\ Received(u) \in Nat /\ pending[u] \in Nat /\ Len(log[task[u]]) \in Nat
      /\ value[u] \in Int
  BY <1>1, NumbersTyped DEF TypeOK, NoEvent
<1>3. Received(u) + pending[u] <= Len(log[task[u]])  BY <1>1 DEF Complete, Queued
<1>4. value[u] > Snapshot => pending[u] >= 1
  <2>1. pending[u] = Len(events[u]) + Counted(event[u]) + Counted(value[u])
    BY DEF FrameInv, PendingCount
  <2>2. Len(events[u]) \in Nat /\ Counted(event[u]) \in Nat  BY <1>1 DEF TypeOK, Counted
  <2>3. value[u] > Snapshot => Counted(value[u]) = 1  BY DEF Counted
  <2>4. QED  BY <2>1, <2>2, <2>3
<1>5. value[u] > Snapshot => value[u] = Received(u) + 1  BY <1>1 DEF Ordered
<1>6. Received(u) \in 0..Len(log[task[u]])  BY <1>2, <1>3
<1>7. ASSUME value[u] > Snapshot PROVE value[u] \in 1..Len(log[task[u]])
  <2>1. pending[u] >= 1 /\ value[u] = Received(u) + 1  BY <1>4, <1>5, <1>7
  <2>2. QED  BY <1>2, <1>3, <2>1
<1>8. QED  BY <1>6, <1>7

LEMMA PublishDelivers ==
    ASSUME FrameInv, DeliveryInv, NEW p \in Publishers, NEW k \in Tasks,
           NEW state \in States, Publish(p, k, state)
    PROVE  DeliveryInv' /\ NoneOpened
<1>1. TypeOK  BY DEF FrameInv
<1>2. /\ UNCHANGED <<shutdown, subscriber, frame, target, delivered, outcome, cut>>
      /\ \A u \in Sessions : pc'[u] = pc[u]
  BY PublishChanges
<1>3. NoneOpened  BY <1>2 DEF NoneOpened
<1>4. OrderedInv'
  <2>1. \A u \in Sessions : SameOrder(u)  BY <1>2 DEF SameOrder, subscriber, frame
  <2>2. QED  BY <2>1, OrderedKept DEF DeliveryInv, OrderedInv
<1>5. CompleteInv'  BY <1>2, PublishComplete DEF CompleteInv
<1>6. EndingInv'
  <2>0. SUFFICES ASSUME NEW u \in Sessions, pc'[u] # "absent" PROVE Ending(u)'
    BY DEF EndingInv
  <2>1. /\ Ends(u) /\ Serves(u) /\ Ordered(u) /\ pc[u] # "absent"
    BY <1>2, <2>0, EndingParts DEF DeliveryInv, EndingInv, OrderedInv
  <2>2. \A m \in 1..Len(log[task[u]]) : log'[task[u]][m] = log[task[u]][m]
    <3>1. task[u] \in Tasks  BY <2>1 DEF DeliveryInv, ServiceInv
    <3>2. QED  BY <3>1, PublishChanges
  <2>3. base[u] \in Nat /\ Len(log[task[u]]) \in Nat
    <3>1. task[u] \in Tasks  BY <2>1 DEF DeliveryInv, ServiceInv
    <3>2. QED  BY <1>1, <3>1 DEF TypeOK
  <2>4. Received(u)' = Received(u) /\ base'[u] = base[u] /\ task'[u] = task[u]
    BY <1>2, NumbersKept DEF subscriber
  <2>5. SeenTerminal(u) => SeenTerminal(u)'
    <3>1. Received(u) \in 0..Len(log[task[u]])  BY <2>1, StagedPublished
    <3>2. Received(u) > base[u] => Received(u) \in 1..Len(log[task[u]])  BY <2>3, <3>1
    <3>3. QED  BY <2>2, <2>4, <3>2 DEF SeenTerminal
  <2>6. /\ at'[u] = at[u] /\ value'[u] = value[u] /\ isTerminal'[u] = isTerminal[u]
        /\ Stopped(u)' = Stopped(u)
    BY <1>2 DEF frame, Stopped, subscriber
  <2>7. at[u] = "yield" /\ isTerminal[u] /\ value[u] # NoEvent =>
           log'[task'[u]][value'[u]] = log[task[u]][value[u]]
    <3>1. at[u] = "yield" /\ isTerminal[u] => value[u] # Snapshot  BY <2>1 DEF Ordered
    <3>2. value[u] \in Nat \cup {NoEvent}  BY <1>1 DEF TypeOK
    <3>3. value[u] \notin {NoEvent, Snapshot} => value[u] > Snapshot
      BY <3>2 DEF NoEvent, Snapshot
    <3>4. QED  BY <2>1, <2>2, <2>4, <2>6, <3>1, <3>3, StagedPublished
  <2>8. Ends(u)'  BY <2>1, <2>5, <2>6, <2>7 DEF Ends
  <2>9. Serves(u)'  BY <1>2, <2>1 DEF Serves, subscriber
  <2>10. QED  BY <2>8, <2>9, EndingParts
<1>7. FreshInv'
  BY <1>2, FreshKept DEF DeliveryInv, FreshInv, subscriber
<1>8. QED  BY <1>3, <1>4, <1>5, <1>6, <1>7, PublishService DEF DeliveryInv
=============================================================================
