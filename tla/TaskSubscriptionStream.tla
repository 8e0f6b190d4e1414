----------------------- MODULE TaskSubscriptionStream -----------------------
(***************************************************************************)
(* The service implements SubscriptionStream: with DeliveryInv, every step *)
(* of TaskSubscription is a step of the stream of one of its clients, or   *)
(* invisible to all of them; and what the clients are promised follows     *)
(* from the steps of the stream.                                           *)
(***************************************************************************)
EXTENDS MCTaskSubscription, TaskSubscriptionDelivery

USE ZenonT(5), SMTT(20)

-----------------------------------------------------------------------------
(* Every step is a step of the stream, or invisible to its clients.        *)

(* A step that changes nothing a client can see.                           *)
LEMMA Invisible ==
    ASSUME NoneOpened,
           UNCHANGED <<log, task, base, delivered, outcome, shutdown, cancelled, cut>>
    PROVE  UNCHANGED Stream!vars
<1>1. [s \in Sessions |-> IF pc'[s] = "absent" THEN "absent" ELSE outcome'[s]]
        = [s \in Sessions |-> IF pc[s] = "absent" THEN "absent" ELSE outcome[s]]
  BY DEF NoneOpened
<1>2. QED  BY <1>1 DEF Stream!vars

(* A step that stops the sessions S.                                       *)
LEMMA Stops ==
    ASSUME NoneOpened, UNCHANGED <<log, task, base, delivered, outcome>>,
           NEW S \in SUBSET Sessions,
           \A u \in Sessions : Stopped(u)' <=> Stopped(u) \/ u \in S
    PROVE  Stream!Next
<1>1. [s \in Sessions |-> IF pc'[s] = "absent" THEN "absent" ELSE outcome'[s]]
        = [s \in Sessions |-> IF pc[s] = "absent" THEN "absent" ELSE outcome[s]]
  BY DEF NoneOpened
<1>2. {s \in Sessions : shutdown' \/ cancelled'[s] \/ s \in cut'}
        = {s \in Sessions : shutdown \/ cancelled[s] \/ s \in cut} \cup S
  BY DEF Stopped
<1>3. Stream!Stop(S)  BY <1>1, <1>2 DEF Stream!Stop
<1>4. QED  BY <1>3 DEF Stream!Next

(* A client has seen a terminal update in both views of it.                *)
LEMMA SeenIsSaw ==
    ASSUME TypeOK, NEW s \in Sessions
    PROVE  /\ SeenTerminal(s) <=> Stream!SawTerminal(s)
           /\ delivered[s] # <<>> => Stream!NextUpdate(s) = Received(s) + 1
<1>1. delivered[s] \in Seq(Nat) /\ base[s] \in Nat  BY DEF TypeOK
<1>2. CASE delivered[s] = <<>>
  <2>1. Received(s) = base[s] /\ Len(delivered[s]) = 0
    BY <1>1, <1>2 DEF Received, UpdatesSeen
  <2>2. QED  BY <1>1, <1>2, <2>1 DEF SeenTerminal, Stream!SawTerminal
<1>3. CASE delivered[s] # <<>>
  <2>1. Len(delivered[s]) \in Nat /\ Len(delivered[s]) > 0  BY <1>1, <1>3
  <2>2. Received(s) = base[s] + (Len(delivered[s]) - 1)
    BY <1>3 DEF Received, UpdatesSeen
  <2>3. Stream!NextUpdate(s) = base[s] + Len(delivered[s])  BY DEF Stream!NextUpdate
  <2>4. /\ Stream!NextUpdate(s) = Received(s) + 1 /\ Stream!NextUpdate(s) - 1 = Received(s)
        /\ Received(s) > base[s] <=> Len(delivered[s]) > 1
    BY <1>1, <2>1, <2>2, <2>3
  <2>5. QED  BY <2>4 DEF SeenTerminal, Stream!SawTerminal
<1>4. QED  BY <1>2, <1>3

(* The initial states are those of the stream.                             *)
LEMMA InitStream ==
    ASSUME Init
    PROVE  DeliveryInv /\ Stream!Init
<1>1. \A s \in Sessions : s \in Threads /\ pc[s] = "absent"  BY DEF Init, Threads
<1>2. \A t \in Threads \ Sessions : pc[t] = "idle"  BY DEF Init
<1>3. ServiceInv
  <2>1. \A q \in Publishers \cup Cancellers \cup {Closer} : q \in Threads \ Sessions
    BY ThreadsAssumption DEF Threads
  <2>2. \A q \in Publishers \cup Cancellers \cup {Closer} : pc[q] = "idle"  BY <1>2, <2>1
  <2>3. /\ \A q \in Publishers \cup {Closer} : todo[q] = {}
        /\ \A k \in Tasks : subs[k] = {}
        /\ \A k \in Tasks : latest[k] = Len(log[k])
    BY DEF Init
  <2>4. QED  BY <1>1, <2>2, <2>3 DEF ServiceInv
<1>4. \A s \in Sessions :
         /\ value[s] = NoEvent /\ event[s] = NoEvent /\ events[s] = <<>>
         /\ at[s] = "initial" /\ delivered[s] = <<>> /\ ~isTerminal[s]
         /\ pending[s] = 0 /\ ~closed[s] /\ outcome[s] = "open" /\ base[s] = 0
  BY DEF Init
<1>5. OrderedInv  BY <1>4 DEF OrderedInv, Ordered, NoEvent, Snapshot
<1>6. CompleteInv /\ EndingInv /\ FreshInv
  BY <1>1, <1>4 DEF CompleteInv, EndingInv, FreshInv, Fresh
<1>7. Stream!Init
  <2>1. [s \in Sessions |-> IF pc[s] = "absent" THEN "absent" ELSE outcome[s]]
          = [s \in Sessions |-> "absent"]
    BY <1>1
  <2>2. {s \in Sessions : shutdown \/ cancelled[s] \/ s \in cut} = {}  BY DEF Init
  <2>3. QED  BY <2>1, <2>2 DEF Init, Stream!Init
<1>8. QED  BY <1>3, <1>5, <1>6, <1>7 DEF DeliveryInv

(* What the client of s sees of a step that leaves the other sessions and  *)
(* the reasons to stop alone.                                              *)
LEMMA StatusChange ==
    ASSUME NEW s \in Sessions, NEW status,
           (IF pc'[s] = "absent" THEN "absent" ELSE outcome'[s]) = status,
           \A u \in Sessions \ {s} : /\ pc'[u] = "absent" <=> pc[u] = "absent"
                                     /\ outcome'[u] = outcome[u]
    PROVE  [u \in Sessions |-> IF pc'[u] = "absent" THEN "absent" ELSE outcome'[u]]
             = [[u \in Sessions |-> IF pc[u] = "absent" THEN "absent" ELSE outcome[u]]
                   EXCEPT ![s] = status]
  OBVIOUS

(* Subscribe opens a stream.                                               *)
LEMMA SubscribeOpens ==
    ASSUME FrameInv, DeliveryInv, NEW s \in Sessions, NEW k \in Tasks, NEW given,
           Subscribe(s, k, given)
    PROVE  Stream!Next
<1>1. TypeOK  BY DEF FrameInv
<1>2. /\ pc[s] = "absent" /\ ~shutdown /\ Goto(s, "next")
      /\ task' = [task EXCEPT ![s] = k] /\ base' = [base EXCEPT ![s] = latest[k]]
      /\ UNCHANGED <<shutdown, cancelled, history>>
  BY DEF Subscribe
<1>3. latest[k] = Len(log[k]) /\ outcome[s] = "open"
  BY <1>2 DEF DeliveryInv, ServiceInv, FreshInv, Fresh
<1>4. pc'[s] = "next" /\ \A u \in Sessions \ {s} : pc'[u] = pc[u]
  BY <1>1, <1>2 DEF TypeOK, Goto, Threads
<1>5. [u \in Sessions |-> IF pc'[u] = "absent" THEN "absent" ELSE outcome'[u]]
        = [[u \in Sessions |-> IF pc[u] = "absent" THEN "absent" ELSE outcome[u]]
              EXCEPT ![s] = "open"]
  BY <1>2, <1>3, <1>4, StatusChange DEF history
<1>6. Stream!Open(s, k)  BY <1>2, <1>3, <1>5 DEF Stream!Open, history
<1>7. QED  BY <1>6 DEF Stream!Next

(* PublishTaskUpdated publishes.                                           *)
LEMMA PublishPublishes ==
    ASSUME FrameInv, DeliveryInv, NEW p \in Publishers, NEW k \in Tasks,
           NEW state \in States, Publish(p, k, state)
    PROVE  Stream!Next
<1>1. /\ UNCHANGED <<task, base, delivered, outcome, shutdown, cancelled, cut>>
      /\ \A u \in Sessions : pc'[u] = pc[u]
  BY PublishChanges DEF subscriber
<1>2. log' = [log EXCEPT ![k] = Append(@, state)]  BY DEF Publish
<1>3. [u \in Sessions |-> IF pc'[u] = "absent" THEN "absent" ELSE outcome'[u]]
        = [u \in Sessions |-> IF pc[u] = "absent" THEN "absent" ELSE outcome[u]]
  BY <1>1
<1>4. Stream!Publish(k, state)  BY <1>1, <1>2, <1>3 DEF Stream!Publish
<1>5. QED  BY <1>4 DEF Stream!Next

(* Nothing is staged behind a terminal update.                             *)
LEMMA NothingBehindTerminal ==
    ASSUME FrameInv, DeliveryInv, NEW s \in Sessions, pc[s] # "absent", value[s] > Snapshot
    PROVE  ~SeenTerminal(s)
<1>1. TypeOK /\ Complete(s)  BY DEF FrameInv, DeliveryInv, CompleteInv
<1>2. Received(s) \in Nat /\ pending[s] \in Nat /\ base[s] \in Nat
  BY <1>1, NumbersTyped DEF TypeOK
<1>3. pending[s] >= 1
  <2>1. pending[s] = Len(events[s]) + Counted(event[s]) + Counted(value[s])
    BY DEF FrameInv, PendingCount
  <2>2. Len(events[s]) \in Nat /\ Counted(event[s]) \in Nat  BY <1>1 DEF TypeOK, Counted
  <2>3. Counted(value[s]) = 1  BY DEF Counted
  <2>4. QED  BY <2>1, <2>2, <2>3
<1>4. Queued(s) = Received(s) + pending[s]  BY DEF Queued
<1>5. ASSUME Received(s) > base[s]
      PROVE  Received(s) \in (base[s] + 1)..Queued(s) /\ Received(s) # Queued(s)
  BY <1>2, <1>3, <1>4, <1>5
<1>6. QED  BY <1>1, <1>5 DEF Complete, SeenTerminal

(* The consumer takes the current task, or the next update.                *)
LEMMA TakeValueReceives ==
    ASSUME FrameInv, DeliveryInv, NEW s \in Sessions, TakeValue(s)
    PROVE  Stream!Next
<1>1. TypeOK  BY DEF FrameInv
<1>2. /\ pc[s] = "wait" /\ Goto(s, "write")
      /\ delivered' = [delivered EXCEPT ![s] = Append(@, value[s])]
      /\ UNCHANGED <<log, task, base, outcome, shutdown, cancelled, cut>>
  BY DEF TakeValue, service
<1>3. outcome[s] = "open" /\ Ordered(s)
  BY <1>2 DEF DeliveryInv, EndingInv, Ending, OrderedInv
<1>4. [u \in Sessions |-> IF pc'[u] = "absent" THEN "absent" ELSE outcome'[u]]
        = [u \in Sessions |-> IF pc[u] = "absent" THEN "absent" ELSE outcome[u]]
  BY <1>2, TakeValueDelivers DEF NoneOpened
<1>5. CASE value[s] = Snapshot
  <2>1. delivered[s] = <<>>  BY <1>5, TakeValueNumbers
  <2>2. delivered' = [delivered EXCEPT ![s] = <<0>>]
    BY <1>2, <1>5, <2>1 DEF Snapshot
  <2>3. Stream!ReceiveCurrentTask(s)
    BY <1>2, <1>3, <1>4, <2>1, <2>2 DEF Stream!ReceiveCurrentTask
  <2>4. QED  BY <2>3 DEF Stream!Next, Stream!Progress
<1>6. CASE value[s] # Snapshot
  <2>1. value[s] > Snapshot /\ delivered[s] # <<>>  BY <1>6, TakeValueNumbers
  <2>2. value[s] = Stream!NextUpdate(s)
    BY <1>1, <1>3, <2>1, SeenIsSaw DEF Ordered
  <2>3. value[s] <= Len(log[task[s]])
    <3>1. value[s] \in 1..Len(log[task[s]])  BY <1>2, <2>1, StagedPublished
    <3>2. QED  BY <3>1
  <2>4. ~Stream!SawTerminal(s)
    BY <1>1, <1>2, <2>1, NothingBehindTerminal, SeenIsSaw
  <2>5. Stream!ReceiveUpdate(s)
    BY <1>2, <1>3, <1>4, <2>1, <2>2, <2>3, <2>4 DEF Stream!ReceiveUpdate
  <2>6. QED  BY <2>5 DEF Stream!Next, Stream!Progress
<1>7. QED  BY <1>5, <1>6

(* A client is told that its stream ended only when it was stopped or has  *)
(* seen a terminal update.                                                 *)
LEMMA IsLiveEnds ==
    ASSUME FrameInv, DeliveryInv, NEW s \in Sessions, IsDone(s) \/ IsPending(s)
    PROVE  Stream!Next \/ UNCHANGED Stream!vars
<1>1. TypeOK /\ Complete(s) /\ Ends(s) /\ Serves(s) /\ pc[s] \in {"isDone", "isPending"}
  BY EndingParts DEF FrameInv, DeliveryInv, CompleteInv, EndingInv, IsDone, IsPending
<1>2. UNCHANGED <<log, task, base, delivered, shutdown, cancelled, cut>>
  BY DEF IsDone, IsPending, service, subscriber
<1>3. CASE outcome' = outcome  BY <1>2, <1>3, IsLiveDelivers, Invisible
<1>4. CASE EndOfStream(s) /\ ((IsDone(s) /\ at[s] = "done") \/ (IsPending(s) /\ pending[s] = 0))
  <2>1. Stopped(s) \/ SeenTerminal(s)
    <3>1. CASE IsDone(s) /\ at[s] = "done"  BY <1>1, <3>1 DEF Ends
    <3>2. CASE IsPending(s) /\ pending[s] = 0
      <4>1. closed[s]  BY <1>1, <3>2 DEF Serves, IsPending
      <4>2. Received(s) \in Nat  BY <1>1, NumbersTyped
      <4>3. Queued(s) = Received(s)  BY <3>2, <4>2 DEF Queued
      <4>4. QED  BY <1>1, <4>1, <4>3 DEF Complete, Stopped, SeenTerminal
    <3>3. QED  BY <1>4, <3>1, <3>2
  <2>2. outcome[s] = "open"  BY <1>1 DEF Serves, Serving
  <2>3. /\ outcome'[s] = "ended" /\ pc'[s] = "leave"
        /\ \A u \in Sessions \ {s} : outcome'[u] = outcome[u] /\ pc'[u] = pc[u]
    BY <1>1, <1>4 DEF TypeOK, EndOfStream, Goto, Threads
  <2>4. [u \in Sessions |-> IF pc'[u] = "absent" THEN "absent" ELSE outcome'[u]]
          = [[u \in Sessions |-> IF pc[u] = "absent" THEN "absent" ELSE outcome[u]]
                EXCEPT ![s] = "ended"]
    BY <2>3, StatusChange
  <2>5. Stream!SawTerminal(s) \/ s \in {u \in Sessions : shutdown \/ cancelled[u] \/ u \in cut}
    BY <1>1, <2>1, SeenIsSaw DEF Stopped
  <2>6. [u \in Sessions |-> IF pc[u] = "absent" THEN "absent" ELSE outcome[u]][s] = "open"
    BY <1>1, <2>2
  <2>7. {u \in Sessions : shutdown' \/ cancelled'[u] \/ u \in cut'}
          = {u \in Sessions : shutdown \/ cancelled[u] \/ u \in cut}
    BY <1>2
  <2>8. Stream!End(s)  BY <1>2, <2>4, <2>5, <2>6, <2>7 DEF Stream!End
  <2>9. QED  BY <2>8 DEF Stream!Next, Stream!Progress
<1>5. IsDone(s) => outcome' = outcome \/ (EndOfStream(s) /\ IsDone(s) /\ at[s] = "done")
  BY DEF IsDone
<1>6. IsPending(s) => outcome' = outcome \/ (EndOfStream(s) /\ IsPending(s) /\ pending[s] = 0)
  BY DEF IsPending
<1>7. QED  BY <1>3, <1>4, <1>5, <1>6

(* A failed write aborts the stream, any other Cancel stops it.            *)
LEMMA CancelStops ==
    ASSUME FrameInv, DeliveryInv, NEW t \in Threads, NEW s \in Sessions,
           \/ t = s /\ (WriteFails(s) \/ LeaveSession(s))
           \/ t \in Cancellers /\ CancelFromOutside(t, s)
    PROVE  Stream!Next
<1>1. TypeOK  BY DEF FrameInv
<1>2. ExchangeCancelled(t, s)  BY DEF WriteFails, LeaveSession, CancelFromOutside
<1>3. /\ UNCHANGED <<log, task, base, delivered, shutdown, cut>>
      /\ \A u \in Sessions : cancelled'[u] <=> cancelled[u] \/ u = s
  BY <1>1, <1>2 DEF TypeOK, ExchangeCancelled, service
<1>4. \A u \in Sessions : Stopped(u)' <=> Stopped(u) \/ u \in {s}  BY <1>3 DEF Stopped
<1>5. CASE outcome' = outcome  BY <1>3, <1>4, <1>5, CancelDelivers, Stops
<1>6. CASE WriteFails(s)
  <2>1. pc[s] = "write" /\ outcome' = [outcome EXCEPT ![s] = "aborted"]
    BY <1>6 DEF WriteFails
  <2>2. outcome[s] = "open"  BY <2>1 DEF DeliveryInv, EndingInv, Ending
  <2>3. /\ outcome'[s] = "aborted" /\ \A u \in Sessions \ {s} : outcome'[u] = outcome[u]
    BY <1>1, <2>1 DEF TypeOK
  <2>4. NoneOpened  BY CancelDelivers
  <2>5. [u \in Sessions |-> IF pc'[u] = "absent" THEN "absent" ELSE outcome'[u]]
          = [[u \in Sessions |-> IF pc[u] = "absent" THEN "absent" ELSE outcome[u]]
                EXCEPT ![s] = "aborted"]
    BY <2>1, <2>3, <2>4, StatusChange DEF NoneOpened
  <2>6. {u \in Sessions : shutdown' \/ cancelled'[u] \/ u \in cut'}
          = {u \in Sessions : shutdown \/ cancelled[u] \/ u \in cut} \cup {s}
    BY <1>3
  <2>7. Stream!Abort(s)  BY <1>3, <2>1, <2>2, <2>5, <2>6 DEF Stream!Abort
  <2>8. QED  BY <2>7 DEF Stream!Next
<1>7. QED  BY <1>5, <1>6 DEF LeaveSession, CancelFromOutside

(* A coroutine that a stale signal cuts counts as stopped.                 *)
LEMMA CoroutineStops ==
    ASSUME FrameInv, DeliveryInv, NEW t \in Threads, NEW s \in Sessions, Coroutine(t, s)
    PROVE  Stream!Next \/ UNCHANGED Stream!vars
<1>1. UNCHANGED <<log, task, base, delivered, outcome, shutdown, cancelled>>
  BY DEF Coroutine, YieldCurrentTask, AwaitReady, AwaitSuspend, AwaitResume, YieldEvent,
         FinalSuspend, service, subscriber, history
<1>2. cut' = cut \/ cut' = cut \cup {s}
  BY DEF Coroutine, YieldCurrentTask, AwaitReady, AwaitSuspend, AwaitResume, YieldEvent,
         FinalSuspend, history
<1>3. NoneOpened  BY CoroutineDelivers
<1>4. CASE cut' = cut  BY <1>1, <1>3, <1>4, Invisible
<1>5. CASE cut' = cut \cup {s}
  <2>1. \A u \in Sessions : Stopped(u)' <=> Stopped(u) \/ u \in {s}
    BY <1>1, <1>5 DEF Stopped
  <2>2. QED  BY <1>1, <1>3, <2>1, Stops
<1>6. QED  BY <1>2, <1>4, <1>5

(* Shutdown stops every session.                                           *)
LEMMA ShutdownStops ==
    ASSUME FrameInv, DeliveryInv, Shutdown
    PROVE  Stream!Next
<1>1. shutdown' /\ UNCHANGED <<log, task, base, delivered, outcome>>
  BY DEF Shutdown, subscriber, history
<1>2. \A u \in Sessions : Stopped(u)' <=> Stopped(u) \/ u \in Sessions  BY <1>1 DEF Stopped
<1>3. QED  BY <1>1, <1>2, ShutdownDelivers, Stops

-----------------------------------------------------------------------------
(* DeliveryInv is inductive on top of FrameInv, and every step of the      *)
(* service is a step of the stream.                                        *)

(* What a thread does on its own.                                          *)
LEMMA StepStream ==
    ASSUME FrameInv, DeliveryInv, NEW t \in Threads, Step(t)
    PROVE  DeliveryInv' /\ (Stream!Next \/ UNCHANGED Stream!vars)
<1>1. ASSUME NEW s \in Sessions, Coroutine(t, s)
      PROVE  DeliveryInv' /\ (Stream!Next \/ UNCHANGED Stream!vars)
  BY <1>1, CoroutineDelivers, CoroutineStops
<1>2. CASE Signal(t)
  <2>1. UNCHANGED <<log, task, base, delivered, outcome, shutdown, cancelled, cut>>
    BY <1>2 DEF Signal, TakeContinuation, Resume, UnlockResume, DropResume, service,
                subscriber, history
  <2>2. QED  BY <1>2, <2>1, SignalDelivers, Invisible
<1>3. CASE t \in Sessions \cup Cancellers /\ Cancelling(t)
  <2>1. UNCHANGED <<log, task, base, delivered, outcome, shutdown, cancelled, cut>>
    BY <1>3 DEF Cancelling, RemoveSubscriberClose, RemoveSubscriberErase, WaitForResumes,
                service, subscriber, history
  <2>2. DeliveryInv' /\ NoneOpened
    BY <1>3, RemoveDelivers, WaitDelivers DEF Cancelling
  <2>3. QED  BY <2>1, <2>2, Invisible
<1>4. CASE t \in Sessions /\ Pump(t)
  <2>1. CASE Pull(t) \/ EndPull(t) \/ NextAtEnd(t) \/ IsClosed(t) \/ WriteSucceeds(t) \/ DestroySession(t)
    <3>1. UNCHANGED <<log, task, base, delivered, outcome, shutdown, cancelled, cut>>
      BY <2>1 DEF Pull, EndPull, NextAtEnd, WaitReturnsEmpty, IsClosed, WriteSucceeds,
                  DestroySession, service, subscriber, history
    <3>2. DeliveryInv' /\ NoneOpened
      BY <1>4, <2>1, PullDelivers, LoopDelivers, DestroyDelivers DEF NextAtEnd
    <3>3. QED  BY <3>1, <3>2, Invisible
  <2>2. CASE TakeValue(t)  BY <1>4, <2>2, TakeValueDelivers, TakeValueReceives
  <2>3. CASE IsDone(t) \/ IsPending(t)  BY <1>4, <2>3, IsLiveDelivers, IsLiveEnds
  <2>4. CASE LeaveSession(t)  BY <1>4, <2>4, CancelDelivers, CancelStops
  <2>5. QED  BY <1>4, <2>1, <2>2, <2>3, <2>4 DEF Pump
<1>5. CASE t \in Publishers /\ (EndPublish(t) \/ \E s \in Sessions : Deliver(t, s))
  <2>1. UNCHANGED <<log, task, base, delivered, outcome, shutdown, cancelled, cut>>
    BY <1>5 DEF EndPublish, Deliver, service, subscriber, history
  <2>2. QED  BY <1>5, <2>1, EndPublishDelivers, DeliverDelivers, Invisible
<1>6. CASE t = Closer /\ (EndShutdown \/ \E s \in Sessions : ShutdownClose(s))
  <2>1. UNCHANGED <<log, task, base, delivered, outcome, shutdown, cancelled, cut>>
    BY <1>6 DEF EndShutdown, ShutdownClose, service, subscriber, history
  <2>2. QED  BY <1>6, <2>1, WaitDelivers, ShutdownCloseDelivers, Invisible
<1>7. QED  BY <1>1, <1>2, <1>3, <1>4, <1>5, <1>6 DEF Step

(* What the environment calls.                                             *)
LEMMA CallStream ==
    ASSUME FrameInv, DeliveryInv, Call
    PROVE  DeliveryInv' /\ (Stream!Next \/ UNCHANGED Stream!vars)
<1>1. ASSUME NEW s \in Sessions, NEW k \in Tasks, NEW st \in States, Subscribe(s, k, st)
      PROVE  DeliveryInv' /\ Stream!Next
  BY <1>1, SubscribeDelivers, SubscribeOpens
<1>2. ASSUME NEW p \in Publishers, NEW k \in Tasks, NEW st \in States, Publish(p, k, st)
      PROVE  DeliveryInv' /\ Stream!Next
  BY <1>2, PublishDelivers, PublishPublishes
<1>3. ASSUME NEW c \in Cancellers, NEW s \in Sessions, CancelFromOutside(c, s)
      PROVE  DeliveryInv' /\ Stream!Next
  BY <1>3, CancelDelivers, CancelStops DEF Threads
<1>4. ASSUME NEW s \in Sessions, NextTimesOut(s)
      PROVE  DeliveryInv' /\ UNCHANGED Stream!vars
  <2>1. WaitReturnsEmpty(s)  BY <1>4 DEF NextTimesOut
  <2>2. UNCHANGED <<log, task, base, delivered, outcome, shutdown, cancelled, cut>>
    BY <2>1 DEF WaitReturnsEmpty, service, subscriber, history
  <2>3. QED  BY <2>1, <2>2, LoopDelivers, Invisible
<1>5. ASSUME NEW s \in Sessions, WriteFails(s)
      PROVE  DeliveryInv' /\ Stream!Next
  BY <1>5, CancelDelivers, CancelStops DEF Threads
<1>6. CASE Shutdown  BY <1>6, ShutdownDelivers, ShutdownStops
<1>7. QED  BY <1>1, <1>2, <1>3, <1>4, <1>5, <1>6 DEF Call

(* A step of the service keeps DeliveryInv and is a step of the stream or  *)
(* invisible.                                                              *)
LEMMA NextStream ==
    ASSUME FrameInv, DeliveryInv, [Next]_vars
    PROVE  DeliveryInv' /\ [Stream!Next]_(Stream!vars)
<1>1. CASE UNCHANGED vars
  <2>1. UNCHANGED <<service, subscriber, frame, pc, locals, history>>  BY <1>1 DEF vars
  <2>2. \A u \in Sessions : /\ closed'[u] = closed[u] /\ cancelled'[u] = cancelled[u]
                            /\ pc'[u] = pc[u] /\ outcome'[u] = outcome[u]
    BY <2>1 DEF subscriber, history
  <2>3. NoneOpened  BY <2>2 DEF NoneOpened
  <2>4. ServiceInv'
    BY <2>1 DEF DeliveryInv, ServiceInv, service, subscriber, locals, history
  <2>5. DeliveryInv'
    BY <2>1, <2>2, <2>3, <2>4, QueueStep DEF service, subscriber, frame, locals, history
  <2>6. UNCHANGED Stream!vars
    BY <2>1, <2>3, Invisible DEF service, subscriber, history
  <2>7. QED  BY <2>5, <2>6
<1>2. CASE Call  BY <1>2, CallStream
<1>3. ASSUME NEW t \in Threads, Step(t)
      PROVE  DeliveryInv' /\ [Stream!Next]_(Stream!vars)
  BY <1>3, StepStream
<1>4. QED  BY <1>1, <1>2, <1>3 DEF Next, AtRest

-----------------------------------------------------------------------------
(* What the clients are promised, read off the steps of the stream.        *)

(* A stream that ended was stopped, or has shown its client a terminal     *)
(* update.                                                                 *)
EndJustified ==
    \A s \in Sessions : outcome[s] = "ended" => Stopped(s) \/ SeenTerminal(s)

(* A stream ends as the documentation says, unless a stale signal cut its  *)
(* coroutine: that is the only way in which ClosedAfterTerminal fails.     *)
ClosedUnlessCut ==
    \A s \in Sessions : outcome[s] = "ended" => Completed(s) \/ s \in cut

PromisesInv == OrderedDelivery /\ EndJustified

(* A session's status in the stream, and what there is before it opens.    *)
LEMMA StatusIs ==
    ASSUME TypeOK, DeliveryInv, NEW s \in Sessions, NEW label,
           [u \in Sessions |-> IF pc[u] = "absent" THEN "absent" ELSE outcome[u]][s] = label
    PROVE  /\ label = "open" => outcome[s] = "open"
           /\ label = "absent" => Fresh(s)
<1>1. outcome[s] \in {"open", "ended", "aborted"}  BY DEF TypeOK
<1>2. label = IF pc[s] = "absent" THEN "absent" ELSE outcome[s]  OBVIOUS
<1>3. QED  BY <1>1, <1>2 DEF DeliveryInv, FreshInv

(* The order of what a client has received is kept by every step of the    *)
(* stream.                                                                 *)
LEMMA OrderStep ==
    ASSUME TypeOK, DeliveryInv, OrderedDelivery, [Stream!Next]_(Stream!vars)
    PROVE  OrderedDelivery'
<1>0. \A s \in Sessions : delivered[s] \in Seq(Nat) /\ base[s] \in Nat  BY DEF TypeOK
<1>d. delivered \in [Sessions -> Seq(Nat)] /\ base \in [Sessions -> Nat]  BY DEF TypeOK
<1>1. CASE UNCHANGED <<base, delivered>>  BY <1>1 DEF OrderedDelivery
<1>2. ASSUME NEW s \in Sessions, NEW k \in Tasks, Stream!Open(s, k)
      PROVE  OrderedDelivery'
  <2>1. Fresh(s)  BY <1>2, StatusIs DEF Stream!Open
  <2>2. delivered' = delivered /\ \A u \in Sessions \ {s} : base'[u] = base[u]
    BY <1>d, <1>2 DEF Stream!Open
  <2>3. delivered'[s] = <<>>  BY <2>1, <2>2 DEF Fresh
  <2>4. QED  BY <2>2, <2>3 DEF OrderedDelivery
<1>3. ASSUME NEW s \in Sessions, Stream!ReceiveCurrentTask(s)
      PROVE  OrderedDelivery'
  <2>1. base' = base /\ delivered' = [delivered EXCEPT ![s] = <<0>>]
    BY <1>3 DEF Stream!ReceiveCurrentTask
  <2>2. delivered'[s] = <<0>> /\ \A u \in Sessions \ {s} : delivered'[u] = delivered[u]
    BY <1>d, <2>1
  <2>3. \A i \in DOMAIN delivered'[s] : i = 1 /\ delivered'[s][i] = Snapshot
    BY <2>2 DEF Snapshot
  <2>4. QED  BY <2>1, <2>2, <2>3 DEF OrderedDelivery
<1>4. ASSUME NEW s \in Sessions, Stream!ReceiveUpdate(s)
      PROVE  OrderedDelivery'
  <2>1. /\ base' = base /\ delivered[s] # <<>>
        /\ delivered' = [delivered EXCEPT ![s] = Append(@, Stream!NextUpdate(s))]
    BY <1>4 DEF Stream!ReceiveUpdate
  <2>2. /\ delivered'[s] = Append(delivered[s], base[s] + Len(delivered[s]))
        /\ \A u \in Sessions \ {s} : delivered'[u] = delivered[u]
    BY <1>d, <2>1 DEF Stream!NextUpdate
  <2>3. \A i \in DOMAIN delivered'[s] :
           delivered'[s][i] = IF i = 1 THEN Snapshot ELSE base[s] + i - 1
    <3>1. TAKE i \in DOMAIN delivered'[s]
    <3>2. CASE i \in DOMAIN delivered[s]
      <4>1. delivered'[s][i] = delivered[s][i]  BY <1>0, <2>2, <3>2
      <4>2. QED  BY <3>2, <4>1 DEF OrderedDelivery
    <3>3. CASE i \notin DOMAIN delivered[s]
      <4>1. i = Len(delivered[s]) + 1 /\ delivered'[s][i] = base[s] + Len(delivered[s])
        BY <1>0, <2>2, <3>1, <3>3
      <4>2. Len(delivered[s]) \in Nat /\ Len(delivered[s]) > 0  BY <1>0, <2>1
      <4>3. QED  BY <1>0, <4>1, <4>2
    <3>4. QED  BY <3>2, <3>3
  <2>4. QED  BY <2>1, <2>2, <2>3 DEF OrderedDelivery
<1>5. Stream!Next =>
         \/ UNCHANGED <<base, delivered>>
         \/ \E s \in Sessions, k \in Tasks : Stream!Open(s, k)
         \/ \E s \in Sessions : Stream!ReceiveCurrentTask(s) \/ Stream!ReceiveUpdate(s)
  BY DEF Stream!Next, Stream!Progress, Stream!Publish, Stream!End, Stream!Abort, Stream!Stop
<1>6. UNCHANGED Stream!vars => UNCHANGED <<base, delivered>>  BY DEF Stream!vars
<1>7. QED  BY <1>1, <1>2, <1>3, <1>4, <1>5, <1>6

(* What a step of the stream does to a session that has ended after it.    *)
LEMMA EndedStep ==
    ASSUME TypeOK, [Stream!Next]_(Stream!vars), NEW u \in Sessions,
           [s \in Sessions |-> IF pc'[s] = "absent" THEN "absent" ELSE outcome'[s]][u] = "ended"
    PROVE  /\ task'[u] = task[u] /\ base'[u] = base[u] /\ delivered'[u] = delivered[u]
           /\ \A k \in Tasks : \A m \in 1..Len(log[k]) : log'[k][m] = log[k][m]
           /\ Stopped(u) => Stopped(u)'
           /\ \/ [s \in Sessions |-> IF pc[s] = "absent" THEN "absent" ELSE outcome[s]][u] = "ended"
              \/ Stream!SawTerminal(u) \/ Stopped(u)
<1> DEFINE status == [s \in Sessions |-> IF pc[s] = "absent" THEN "absent" ELSE outcome[s]]
           stopped == {s \in Sessions : shutdown \/ cancelled[s] \/ s \in cut}
<1>0. /\ task \in [Sessions -> Tasks \cup {NoTask}] /\ base \in [Sessions -> Nat]
      /\ delivered \in [Sessions -> Seq(Nat)] /\ log \in [Tasks -> Seq(States)]
  BY DEF TypeOK
<1>1. /\ u \in stopped <=> Stopped(u)
      /\ u \in stopped' <=> Stopped(u)'
  BY DEF Stopped
<1>s. status'[u] = "ended" /\ status = [s \in Sessions |-> status[s]]  OBVIOUS
<1> HIDE DEF status, stopped
<1>g. SUFFICES /\ task'[u] = task[u] /\ base'[u] = base[u] /\ delivered'[u] = delivered[u]
               /\ \A k \in Tasks : \A m \in 1..Len(log[k]) : log'[k][m] = log[k][m]
               /\ u \in stopped => u \in stopped'
               /\ status[u] = "ended" \/ Stream!SawTerminal(u) \/ u \in stopped
  BY <1>1 DEF status
<1>2. CASE UNCHANGED <<task, base, delivered, log, stopped, status>>
  BY <1>s, <1>2
<1>3. ASSUME NEW k \in Tasks, NEW state \in States, Stream!Publish(k, state)
      PROVE  <1>g!1
  <2>1. /\ UNCHANGED <<task, base, delivered, stopped, status>>
        /\ log' = [log EXCEPT ![k] = Append(@, state)]
    BY <1>3 DEF Stream!Publish, status, stopped
  <2>2. \A j \in Tasks : \A m \in 1..Len(log[j]) : log'[j][m] = log[j][m]  BY <1>0, <2>1
  <2>3. QED  BY <1>s, <2>1, <2>2
<1>4. ASSUME NEW s \in Sessions, NEW k \in Tasks, Stream!Open(s, k)
      PROVE  <1>g!1
  <2>1. /\ UNCHANGED <<log, delivered, stopped>>
        /\ status' = [status EXCEPT ![s] = "open"]
        /\ task' = [task EXCEPT ![s] = k] /\ base' = [base EXCEPT ![s] = Len(log[k])]
    BY <1>4 DEF Stream!Open, status, stopped
  <2>2. u # s /\ status'[u] = status[u]  BY <1>s, <2>1
  <2>3. QED  BY <1>0, <1>s, <2>1, <2>2
<1>5. ASSUME NEW s \in Sessions, Stream!ReceiveCurrentTask(s) \/ Stream!ReceiveUpdate(s)
      PROVE  <1>g!1
  <2>1. /\ UNCHANGED <<log, task, base, status, stopped>> /\ status[s] = "open"
        /\ \E new : delivered' = [delivered EXCEPT ![s] = new]
    BY <1>5 DEF Stream!ReceiveCurrentTask, Stream!ReceiveUpdate, status, stopped
  <2>2. u # s  BY <1>s, <2>1
  <2>3. QED  BY <1>0, <1>s, <2>1, <2>2
<1>6. ASSUME NEW s \in Sessions, Stream!End(s)
      PROVE  <1>g!1
  <2>1. /\ UNCHANGED <<log, task, base, delivered, stopped>>
        /\ status' = [status EXCEPT ![s] = "ended"]
        /\ Stream!SawTerminal(s) \/ s \in stopped
    BY <1>6 DEF Stream!End, status, stopped
  <2>2. CASE u = s  BY <2>1, <2>2
  <2>3. CASE u # s
    <3>1. status'[u] = status[u]  BY <1>s, <2>1, <2>3
    <3>2. QED  BY <1>s, <2>1, <3>1
  <2>4. QED  BY <2>2, <2>3
<1>7. ASSUME NEW s \in Sessions, Stream!Abort(s)
      PROVE  <1>g!1
  <2>1. /\ UNCHANGED <<log, task, base, delivered>> /\ stopped' = stopped \cup {s}
        /\ status' = [status EXCEPT ![s] = "aborted"]
    BY <1>7 DEF Stream!Abort, status, stopped
  <2>2. u # s /\ status'[u] = status[u]  BY <1>s, <2>1
  <2>3. QED  BY <1>s, <2>1, <2>2
<1>8. ASSUME NEW S \in SUBSET Sessions, Stream!Stop(S)
      PROVE  <1>g!1
  <2>1. UNCHANGED <<log, task, base, delivered, status>> /\ stopped' = stopped \cup S
    BY <1>8 DEF Stream!Stop, status, stopped
  <2>2. QED  BY <1>s, <2>1
<1>9. CASE Stream!Next
  BY <1>3, <1>4, <1>5, <1>6, <1>7, <1>8, <1>9 DEF Stream!Next, Stream!Progress
<1>10. CASE UNCHANGED Stream!vars
  <2>1. UNCHANGED <<task, base, delivered, log, stopped, status>>
    BY <1>10 DEF Stream!vars, status, stopped
  <2>2. QED  BY <1>2, <2>1
<1>11. QED  BY <1>9, <1>10

(* A stream that ended stays justified.                                    *)
LEMMA JustifiedStep ==
    ASSUME FrameInv, DeliveryInv, DeliveryInv', EndJustified, [Stream!Next]_(Stream!vars)
    PROVE  EndJustified'
<1>1. SUFFICES ASSUME NEW u \in Sessions, outcome'[u] = "ended"
               PROVE  Stopped(u)' \/ SeenTerminal(u)'
  BY DEF EndJustified
<1>2. TypeOK  BY DEF FrameInv
<1>3. pc'[u] # "absent"  BY <1>1 DEF DeliveryInv, FreshInv, Fresh
<1>4. [s \in Sessions |-> IF pc'[s] = "absent" THEN "absent" ELSE outcome'[s]][u] = "ended"
  BY <1>1, <1>3
<1>5. Stopped(u) \/ SeenTerminal(u)
  <2>1. CASE [s \in Sessions |-> IF pc[s] = "absent" THEN "absent" ELSE outcome[s]][u] = "ended"
    <3>1. outcome[u] = "ended"  BY <2>1
    <3>2. QED  BY <3>1 DEF EndJustified
  <2>2. CASE Stream!SawTerminal(u) \/ Stopped(u)  BY <1>2, <2>2, SeenIsSaw
  <2>3. QED  BY <1>2, <1>4, <2>1, <2>2, EndedStep
<1>6. CASE Stopped(u)  BY <1>2, <1>4, <1>6, EndedStep
<1>7. CASE SeenTerminal(u)
  <2>1. /\ task'[u] = task[u] /\ base'[u] = base[u] /\ delivered'[u] = delivered[u]
        /\ \A k \in Tasks : \A m \in 1..Len(log[k]) : log'[k][m] = log[k][m]
    BY <1>2, <1>4, EndedStep
  <2>2. Received(u)' = Received(u)  BY <2>1, NumbersKept
  <2>3. base[u] \in Nat /\ Received(u) > base[u]  BY <1>2, <1>7 DEF TypeOK, SeenTerminal
  <2>4. pc[u] # "absent"
    <3>1. Fresh(u) => Received(u) = base[u]
      <4>1. Fresh(u) => UpdatesSeen(u) = 0  BY DEF Fresh, UpdatesSeen
      <4>2. QED  BY <2>3, <4>1 DEF Received
    <3>2. QED  BY <2>3, <3>1 DEF DeliveryInv, FreshInv
  <2>5. task[u] \in Tasks /\ Received(u) \in 0..Len(log[task[u]])
    BY <2>4, StagedPublished DEF DeliveryInv, ServiceInv
  <2>6. Received(u) \in 1..Len(log[task[u]])  BY <2>3, <2>5
  <2>7. log'[task'[u]][Received(u)'] \in Terminal
    BY <1>7, <2>1, <2>2, <2>5, <2>6 DEF SeenTerminal
  <2>8. QED  BY <2>1, <2>2, <2>3, <2>7 DEF SeenTerminal
<1>8. QED  BY <1>5, <1>6, <1>7

(* What the promises say, in the words of the properties.                  *)
LEMMA PromisesSafe ==
    ASSUME FrameInv, DeliveryInv, PromisesInv
    PROVE  NoUpdateMissed /\ ClosedUnlessCut
<1>1. TypeOK  BY DEF FrameInv
<1>2. NoUpdateMissed
  <2>1. SUFFICES ASSUME NEW s \in Sessions, pc[s] # "absent", ~closed[s]
                 PROVE  Len(log[task[s]]) =
                            base[s] + UpdatesSeen(s) + pending[s]
                            + (IF \E p \in Publishers : s \in todo[p] THEN 1 ELSE 0)
    BY DEF NoUpdateMissed
  <2>2. Complete(s)  BY <2>1 DEF DeliveryInv, CompleteInv
  <2>3. Len(log[task[s]]) = Queued(s) + Owed(s)  BY <2>1, <2>2 DEF Complete
  <2>4. QED  BY <2>3 DEF Queued, Received, Owed
<1>3. ClosedUnlessCut
  <2>1. SUFFICES ASSUME NEW s \in Sessions, SeenTerminal(s) PROVE Completed(s)
    BY DEF PromisesInv, EndJustified, ClosedUnlessCut, Stopped, Completed
  <2>2. delivered[s] \in Seq(Nat) /\ base[s] \in Nat  BY <1>1 DEF TypeOK
  <2>3. Received(s) > base[s]  BY <2>1 DEF SeenTerminal
  <2>4. delivered[s] # <<>>  BY <2>2, <2>3 DEF Received, UpdatesSeen
  <2>5. Received(s) = base[s] + (Len(delivered[s]) - 1)  BY <2>4 DEF Received, UpdatesSeen
  <2>6. Len(delivered[s]) \in Nat /\ Len(delivered[s]) > 1 /\ Len(delivered[s]) \in DOMAIN delivered[s]
    BY <2>2, <2>3, <2>5
  <2>7. delivered[s][Len(delivered[s])] = base[s] + Len(delivered[s]) - 1
    BY <2>6 DEF PromisesInv, OrderedDelivery
  <2>8. delivered[s][Len(delivered[s])] = Received(s)  BY <2>2, <2>5, <2>6, <2>7
  <2>9. QED  BY <2>1, <2>6, <2>8 DEF SeenTerminal, Completed
<1>4. QED  BY <1>2, <1>3

LEMMA InitPromises ==
    ASSUME Init
    PROVE  PromisesInv
  BY DEF Init, PromisesInv, OrderedDelivery, EndJustified
=============================================================================
