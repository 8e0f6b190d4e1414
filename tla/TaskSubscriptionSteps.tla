------------------------ MODULE TaskSubscriptionSteps -----------------------
(***************************************************************************)
(* FrameInv is kept by every step of TaskSubscription.                     *)
(***************************************************************************)
EXTENDS TaskSubscriptionLemmas

USE ZenonT(5), SMTT(20)

-----------------------------------------------------------------------------
(* The blocks under the service mutex, the consumer between two calls of   *)
(* NextFor, and SignalSubscriber.                                          *)

(* NextFor returning without a value keeps FrameInv.                       *)
LEMMA WaitReturnsEmptyFrame ==
    ASSUME FrameInv, NEW s \in Sessions, WaitReturnsEmpty(s)
    PROVE  FrameInv'
<1>1. /\ Goto(s, "isDone") /\ pc[s] = "wait"
      /\ UNCHANGED <<service, subscriber, wakeup, frame, locals, log, delivered, cut>>
  BY DEF WaitReturnsEmpty, history
<1>2. outcome' \in [Sessions -> {"open", "ended", "aborted"}]
  BY DEF WaitReturnsEmpty, FrameInv, TypeOK, history
<1>3. QED  BY <1>1, <1>2, ConsumerMove

(* The reads of IsLive keep FrameInv.                                      *)
LEMMA IsLiveFrame ==
    ASSUME FrameInv, NEW s \in Sessions, IsDone(s) \/ IsClosed(s) \/ IsPending(s)
    PROVE  FrameInv'
<1>1. /\ pc[s] \in {"isDone", "isClosed", "isPending"}
      /\ UNCHANGED <<service, subscriber, wakeup, frame, locals, log, delivered, cut>>
  BY DEF IsDone, IsClosed, IsPending, history
<1>2. outcome' \in [Sessions -> {"open", "ended", "aborted"}]
  BY DEF IsDone, IsClosed, IsPending, EndOfStream, FrameInv, TypeOK, history
<1>3. PICK label \in {"isClosed", "isPending", "write", "leave"} : Goto(s, label)
  BY DEF IsDone, IsClosed, IsPending, EndOfStream
<1>4. QED  BY <1>1, <1>2, <1>3, ConsumerMove

(* A written update keeps FrameInv: RecordDeliveredEvent counts it down.   *)
LEMMA WriteSucceedsFrame ==
    ASSUME FrameInv, NEW s \in Sessions, WriteSucceeds(s)
    PROVE  FrameInv'
<1>1. /\ Goto(s, "next") /\ pc[s] = "write"
      /\ UNCHANGED <<service, subscriber, wakeup, frame, locals, log, delivered, cut>>
  BY DEF WriteSucceeds, history
<1>2. outcome' \in [Sessions -> {"open", "ended", "aborted"}]
  BY DEF WriteSucceeds, FrameInv, TypeOK, history
<1>3. QED  BY <1>1, <1>2, ConsumerMove

(* The blocks under ServiceState::mutex.                                   *)
LEMMA SubscribeFrame ==
    ASSUME FrameInv, NEW s \in Sessions, NEW t \in Tasks, NEW st, Subscribe(s, t, st)
    PROVE  FrameInv'
<1>0. s \in Threads /\ TypeOK  BY DEF Threads, FrameInv
<1>1. Moves(s, "next", target[s])  BY <1>0, GotoMoves DEF Subscribe, locals
<1>2. "next" \in Untracked /\ pc[s] = "absent"
  BY DEF Untracked, Labels, InCancel, Signalling, Resuming, Subscribe
<1>3. TypeOK'
  <2>1. pc' \in [Threads -> Labels]  BY <1>0, <1>1, <1>2 DEF TypeOK, Moves, Untracked
  <2>2. /\ task' \in [Sessions -> Tasks \cup {NoTask}]
        /\ base' \in [Sessions -> Nat]
        /\ subs' \in [Tasks -> SUBSET Sessions]
    BY <1>0 DEF TypeOK, Subscribe
  <2>3. UNCHANGED <<shutdown, latest, publisher, events, closed, pending, cancelled,
                    wakeup, frame, locals, history>>
    BY DEF Subscribe
  <2>4. QED  BY <1>0, <2>1, <2>2, <2>3 DEF TypeOK, wakeup, frame, locals, history
<1>4. ThreadsInv'
  <2>1. /\ \A u \in Threads : pc'[u] = IF u = s THEN "next" ELSE pc[u]
        /\ UNCHANGED <<target, message>>
    BY <1>0, <1>1 DEF TypeOK, Moves, Subscribe, locals
  <2>2. QED  BY <2>1, ThreadsAssumption DEF FrameInv, ThreadsInv, Threads
<1>5. QED  BY <1>0, <1>1, <1>2, <1>3, <1>4, Unaffected DEF Subscribe

(* The block of PublishTaskUpdated under the service mutex keeps FrameInv. *)
LEMMA PublishFrame ==
    ASSUME FrameInv, NEW p \in Publishers, NEW t \in Tasks, NEW st \in States,
           Publish(p, t, st)
    PROVE  FrameInv'
<1>0. p \in Threads /\ TypeOK /\ p \notin Sessions
  BY ThreadsAssumption DEF Threads, FrameInv
<1>1. PICK label \in {"idle", "deliver"} :
          Moves(p, label, target[p]) /\ (label = "deliver" => message'[p] > Snapshot)
  <2>1. CASE subs[t] = {}
    <3>1. Moves(p, "idle", target[p])  BY <1>0, <2>1 DEF Publish, TypeOK, Moves
    <3>2. QED  BY <3>1
  <2>2. CASE subs[t] # {}
    <3>1. Moves(p, "deliver", target[p])  BY <1>0, <2>2, GotoMoves DEF Publish
    <3>2. message'[p] > Snapshot  BY <1>0, <2>2 DEF Publish, TypeOK, Snapshot
    <3>3. QED  BY <3>1, <3>2
  <2>3. QED  BY <2>1, <2>2
<1>2. label \in Untracked /\ pc[p] \in Untracked
  BY DEF Untracked, Labels, InCancel, Signalling, Resuming, Publish
<1>3. TypeOK'
  <2>1. pc' \in [Threads -> Labels]  BY <1>0, <1>1, <1>2 DEF TypeOK, Moves, Untracked
  <2>2. latest' \in [Tasks -> Nat] /\ log' \in [Tasks -> Seq(States)]
    BY <1>0 DEF TypeOK, Publish
  <2>3. subs' \in [Tasks -> SUBSET Sessions]  BY <1>0 DEF TypeOK, Publish
  <2>4. /\ publisher' \in Publishers \cup {NoThread}
        /\ todo' \in [Publishers \cup {Closer} -> SUBSET Sessions]
        /\ message' \in [Publishers -> Nat \cup {NoEvent}]
    <3>1. Len(log[t]) + 1 \in Nat /\ subs[t] \in SUBSET Sessions  BY <1>0 DEF TypeOK
    <3>2. CASE subs[t] = {}  BY <1>0, <3>2 DEF TypeOK, Publish
    <3>3. CASE subs[t] # {}
      <4>1. publisher' = p  BY <3>3 DEF Publish
      <4>2. todo' = [todo EXCEPT ![p] = subs[t]]  BY <3>3 DEF Publish
      <4>3. message' = [message EXCEPT ![p] = Len(log[t]) + 1]  BY <3>3 DEF Publish
      <4>4. QED  BY <1>0, <3>1, <4>1, <4>2, <4>3 DEF TypeOK
    <3>4. QED  BY <3>2, <3>3
  <2>5. UNCHANGED <<shutdown, subscriber, wakeup, frame, target, delivered, outcome, cut>>
    BY DEF Publish
  <2>6. QED
    BY <1>0, <2>1, <2>2, <2>3, <2>4, <2>5 DEF TypeOK, subscriber, wakeup, frame
<1>4. ThreadsInv'
  <2>1. /\ \A u \in Threads : pc'[u] = IF u = p THEN label ELSE pc[u]
        /\ \A u \in Publishers : u # p => message'[u] = message[u]
        /\ target' = target
    BY <1>0, <1>1 DEF TypeOK, Moves, Publish
  <2>2. QED  BY <2>1, <1>1, ThreadsAssumption DEF FrameInv, ThreadsInv, Threads, Signalling, Resuming
<1>5. QED  BY <1>0, <1>1, <1>2, <1>3, <1>4, Unaffected DEF Publish, subscriber

(* The return of PublishTaskUpdated keeps FrameInv.                        *)
LEMMA EndPublishFrame ==
    ASSUME FrameInv, NEW p \in Publishers, EndPublish(p)
    PROVE  FrameInv'
<1>0. p \in Threads /\ TypeOK /\ p \notin Sessions
  BY ThreadsAssumption DEF Threads, FrameInv
<1>1. Moves(p, "idle", NoThread)  BY DEF EndPublish, Goto, Moves
<1>2. "idle" \in Untracked /\ pc[p] \in Untracked
  BY DEF Untracked, Labels, InCancel, Signalling, Resuming, EndPublish
<1>3. TypeOK'
  <2>1. pc' \in [Threads -> Labels]  BY <1>0, <1>1, <1>2 DEF TypeOK, Moves, Untracked
  <2>2. /\ publisher' \in Publishers \cup {NoThread}
        /\ target' \in [Threads -> Sessions \cup {NoThread}]
        /\ message' \in [Publishers -> Nat \cup {NoEvent}]
    BY <1>0 DEF TypeOK, EndPublish
  <2>3. UNCHANGED <<shutdown, latest, subs, subscriber, wakeup, frame, todo, history>>
    BY DEF EndPublish
  <2>4. QED
    BY <1>0, <2>1, <2>2, <2>3 DEF TypeOK, subscriber, wakeup, frame, history
<1>4. ThreadsInv'
  <2>1. /\ \A u \in Threads : pc'[u] = IF u = p THEN "idle" ELSE pc[u]
        /\ \A u \in Publishers : u # p => message'[u] = message[u]
        /\ \A u \in Threads : u # p => target'[u] = target[u]
    BY <1>0, <1>1 DEF TypeOK, Moves, EndPublish
  <2>2. QED  BY <2>1, ThreadsAssumption DEF FrameInv, ThreadsInv, Threads, Signalling, Resuming
<1>5. QED  BY <1>0, <1>1, <1>2, <1>3, <1>4, Unaffected DEF EndPublish, subscriber

(* The start and the end of Shutdown keep FrameInv.                        *)
LEMMA ShutdownFrame ==
    ASSUME FrameInv, Shutdown \/ EndShutdown
    PROVE  FrameInv'
<1>0. Closer \in Threads /\ TypeOK /\ Closer \notin Sessions
  BY ThreadsAssumption DEF Threads, FrameInv
<1>1. PICK label \in {"closing", "exit"} : Moves(Closer, label, target[Closer])
  BY <1>0, GotoMoves DEF Shutdown, EndShutdown, locals
<1>2. label \in Untracked /\ pc[Closer] \in Untracked
  BY DEF Untracked, Labels, InCancel, Signalling, Resuming, Shutdown, EndShutdown
<1>3. TypeOK'
  <2>1. pc' \in [Threads -> Labels]  BY <1>0, <1>1, <1>2 DEF TypeOK, Moves, Untracked
  <2>2. /\ shutdown' \in BOOLEAN
        /\ latest' \in [Tasks -> Nat]
        /\ subs' \in [Tasks -> SUBSET Sessions]
        /\ todo' \in [Publishers \cup {Closer} -> SUBSET Sessions]
    <3>1. CASE Shutdown
      <4>1. UNION {subs[t] : t \in Tasks} \in SUBSET Sessions  BY <1>0 DEF TypeOK
      <4>2. todo' \in [Publishers \cup {Closer} -> SUBSET Sessions]
        BY <1>0, <3>1, <4>1 DEF TypeOK, Shutdown
      <4>3. shutdown' = TRUE /\ latest' = [t \in Tasks |-> 0] /\ subs' = [t \in Tasks |-> {}]
        BY <3>1 DEF Shutdown
      <4>4. QED  BY <4>2, <4>3
    <3>2. CASE EndShutdown  BY <1>0, <3>2 DEF TypeOK, EndShutdown, service, locals
    <3>3. QED  BY <3>1, <3>2
  <2>3. UNCHANGED <<publisher, subscriber, wakeup, frame, target, message, history>>
    BY DEF Shutdown, EndShutdown, service, locals
  <2>4. QED
    BY <1>0, <2>1, <2>2, <2>3 DEF TypeOK, subscriber, wakeup, frame, history
<1>4. ThreadsInv'
  <2>1. /\ \A u \in Threads : pc'[u] = IF u = Closer THEN label ELSE pc[u]
        /\ UNCHANGED <<message, target>>
    BY <1>0, <1>1 DEF TypeOK, Moves, Shutdown, EndShutdown, locals
  <2>2. QED  BY <2>1, ThreadsAssumption DEF FrameInv, ThreadsInv, Threads, Signalling, Resuming
<1>5. QED  BY <1>0, <1>1, <1>2, <1>3, <1>4, Unaffected DEF Shutdown, EndShutdown, subscriber

(* handle.resume() keeps FrameInv: the signaller that took the handle is   *)
(* the only thread that executes the frame.                                *)
LEMMA ResumeFrame ==
    ASSUME FrameInv, NEW t \in Threads, Resume(t)
    PROVE  FrameInv'
<1>0. PICK s \in Sessions : s = target[t]
  BY SignalTarget DEF FrameInv, Resume, Signalling, Resuming
<1>t. TypeOK  BY DEF FrameInv
<1>1. Moves(t, "run", s)  BY <1>0, <1>t, GotoMoves DEF Resume, locals
<1>2. /\ pc[t] = "resume" /\ t \in Uses(s, {"resume"})
      /\ resumeMutex[s] = NoThread
      /\ resumeMutex' = [resumeMutex EXCEPT ![s] = t]
  BY <1>0 DEF Resume, Uses
<1>3. at[s] = "await" /\ ~continuation[s] /\ Uses(s, {"resume"}) = {t}
  BY <1>2 DEF FrameInv, PermitInv
<1>4. at' = [at EXCEPT ![s] = "fetch"]
  BY <1>0, <1>3 DEF Resume, ResumePoint
<1>5. UNCHANGED <<service, subscriber, wakeup, event, isTerminal, value, started,
                  resumeAfterYield, locals, history>>
  BY DEF Resume
<1>6. TypeOK'
  <2>1. pc' \in [Threads -> Labels]  BY <1>1, <1>t DEF TypeOK, Moves, Labels
  <2>2. at' \in [Sessions -> Points]  BY <1>4, <1>t DEF TypeOK, Points
  <2>3. resumeMutex' \in [Sessions -> Threads \cup {NoThread}]  BY <1>2, <1>t DEF TypeOK
  <2>4. QED
    BY <2>1, <2>2, <2>3, <1>5, <1>t DEF TypeOK, service, subscriber, wakeup, locals, history
<1>7. \A v \in Threads : /\ pc'[v] = IF v = t THEN "run" ELSE pc[v]
                         /\ target'[v] = target[v]
  BY <1>t, <1>0, <1>1 DEF TypeOK, Moves
<1>8. ThreadsInv'
  <2>1. pc[t] \in Signalling /\ "run" \in Resuming /\ message' = message
    BY <1>2, <1>5 DEF Signalling, Resuming, locals
  <2>2. QED  BY <2>1, <1>7, SignalThreads DEF FrameInv
<1>9. \A u \in Sessions :
          /\ Uses(u, Holding)' = Uses(u, Holding) \cup (IF u = s THEN {t} ELSE {})
          /\ Uses(u, Running)' = Uses(u, Running) \cup (IF u = s THEN {t} ELSE {})
  BY <1>t, <1>1, <1>2, UsesGained DEF Holding, Running
<1>10. \A u \in Sessions :
          /\ Uses(u, {"resume"})' = Uses(u, {"resume"}) \ (IF u = s THEN {t} ELSE {})
          /\ Uses(u, Waking)' = Uses(u, Waking) \ (IF u = s THEN {t} ELSE {})
  BY <1>t, <1>0, <1>1, <1>2, UsesLost DEF Waking
<1>11. \A u \in Sessions :
          Uses(u, Resuming)' = Uses(u, Resuming) /\ Uses(u, InCancel)' = Uses(u, InCancel)
  BY <1>t, <1>0, <1>1, <1>2, UsesKept DEF Resuming, InCancel, Signalling
<1>12. MutexInv'
  BY <1>2, <1>9, <1>t, MutexTaken DEF FrameInv
<1>13. RunInv'  BY <1>4, <1>9, <1>t DEF FrameInv, RunInv, TypeOK, Executing
<1>14. PermitInv'
  <2>1. ASSUME NEW u \in Sessions
        PROVE  /\ continuation'[u] => at'[u] = "await" /\ Uses(u, {"resume"})' = {}
               /\ at'[u] = "await" /\ ~continuation'[u] => Uses(u, {"resume"})' # {}
               /\ \A x, y \in Uses(u, {"resume"})' : at'[u] = "await" /\ x = y
    <3>1. continuation' = continuation /\ at'[u] = IF u = s THEN "fetch" ELSE at[u]
      BY <1>4, <1>5, <1>t DEF TypeOK, wakeup
    <3>2. CASE u = s
      <4>1. Uses(u, {"resume"})' = {}  BY <3>2, <1>3, <1>10
      <4>2. QED  BY <3>1, <3>2, <4>1, <1>3
    <3>3. CASE u # s
      <4>1. Uses(u, {"resume"})' = Uses(u, {"resume"})  BY <3>3, <1>10
      <4>2. QED  BY <3>1, <3>3, <4>1 DEF FrameInv, PermitInv
    <3>4. QED  BY <3>2, <3>3
  <2>2. QED  BY <2>1 DEF PermitInv
<1>15. YieldInv'
  <2>1. \A u \in Sessions : at'[u] = IF u = s THEN "fetch" ELSE at[u]  BY <1>4, <1>t DEF TypeOK
  <2>2. UNCHANGED <<started, resumeAfterYield, value>>  BY <1>5
  <2>3. \A u \in Sessions : pc'[u] = IF u = t THEN "run" ELSE pc[u]  BY <1>7 DEF Threads
  <2>4. ASSUME NEW u \in Sessions, u # s
        PROVE  /\ at'[u] # "undefined"
               /\ at'[u] = "destroyed" <=> pc'[u] = "gone"
               /\ pc'[u] = "absent" => at'[u] = "initial"
               /\ pc'[u] \in {"pull", "pulled", "wait"} => ~resumeAfterYield'[u]
    <3>1. at'[u] = at[u] /\ resumeAfterYield'[u] = resumeAfterYield[u]  BY <2>1, <2>2, <2>4
    <3>2. CASE u = t  BY <3>1, <3>2, <2>3, <1>2 DEF FrameInv, YieldInv
    <3>3. CASE u # t  BY <3>1, <3>3, <2>3 DEF FrameInv, YieldInv
    <3>4. QED  BY <3>2, <3>3
  <2>5. /\ pc'[s] # "gone" /\ pc'[s] # "absent"
        /\ started[s] /\ ~resumeAfterYield[s] /\ value[s] = NoEvent
    <3>1. pc[s] # "gone" /\ pc[s] # "absent"  BY <1>3 DEF FrameInv, YieldInv
    <3>2. started[s] /\ ~resumeAfterYield[s] /\ value[s] = NoEvent
      BY <1>3 DEF FrameInv, YieldInv
    <3>3. QED  BY <3>1, <3>2, <2>3
  <2>6. ASSUME NEW u \in Sessions, u # s
        PROVE  /\ at'[u] = "initial" => ~started'[u]
               /\ ~started'[u] => at'[u] \in {"initial", "destroyed"}
               /\ resumeAfterYield'[u] => at'[u] \in {"yield", "destroyed"} /\ value'[u] = NoEvent
               /\ value'[u] # NoEvent => at'[u] \in {"yield", "destroyed"}
    BY <2>1, <2>2, <2>6 DEF FrameInv, YieldInv
  <2>7. QED  BY <2>1, <2>2, <2>4, <2>5, <2>6 DEF YieldInv
<1>16. CloseInv'
  <2>1. pc[t] \in InCancel \ {"close", "signal"}  BY <1>2 DEF InCancel, Signalling, Resuming
  <2>2. QED
    BY <2>1, <1>5, <1>7, CancelTarget DEF FrameInv, CloseInv, wakeup, subscriber
<1>17. QuietInv'
  BY <1>2, <1>5, <1>7, <1>11 DEF FrameInv, QuietInv, Quiet, Cancels, wakeup, subscriber, Threads
<1>18. WakeupInv'
  BY <1>4, <1>5, <1>10, <1>t DEF FrameInv, WakeupInv, Ready, subscriber, TypeOK
<1>19. StagedInv' /\ PendingCount'
  BY <1>3, <1>4, <1>5, <1>t DEF FrameInv, StagedInv, PendingCount, Counted, subscriber, TypeOK
<1>20. ActiveResumes'
  BY <1>5, <1>11 DEF FrameInv, ActiveResumes, Resuming, wakeup
<1>q. QED
  BY <1>6, <1>8, <1>12, <1>13, <1>14, <1>15, <1>16, <1>17, <1>18, <1>19, <1>20 DEF FrameInv

(* Unlocking resume_mutex after the resume keeps FrameInv.                 *)
LEMMA UnlockResumeFrame ==
    ASSUME FrameInv, NEW t \in Threads, UnlockResume(t)
    PROVE  FrameInv'
<1>0. PICK s \in Sessions : s = target[t]
  BY SignalTarget DEF FrameInv, UnlockResume, Signalling, Resuming
<1>t. TypeOK  BY DEF FrameInv
<1>1. Moves(t, "drop", s)  BY <1>0, <1>t, GotoMoves DEF UnlockResume, locals
<1>2. /\ pc[t] = "unlock" /\ t \in Uses(s, Holding)
      /\ resumeMutex' = [resumeMutex EXCEPT ![s] = NoThread]
  BY <1>0 DEF UnlockResume, Uses, Holding
<1>3. UNCHANGED <<service, subscriber, wakeup, at, event, isTerminal, value, started,
                  resumeAfterYield, locals, history>>
  BY DEF UnlockResume
<1>4. TypeOK'
  <2>1. pc' \in [Threads -> Labels]  BY <1>1, <1>t DEF TypeOK, Moves, Labels
  <2>2. resumeMutex' \in [Sessions -> Threads \cup {NoThread}]  BY <1>2, <1>t DEF TypeOK
  <2>3. QED
    BY <2>1, <2>2, <1>3, <1>t DEF TypeOK, service, subscriber, wakeup, locals, history
<1>5. \A v \in Threads : /\ pc'[v] = IF v = t THEN "drop" ELSE pc[v]
                         /\ target'[v] = target[v]
  BY <1>t, <1>0, <1>1 DEF TypeOK, Moves
<1>6. ThreadsInv'
  <2>1. pc[t] \in Signalling /\ "drop" \in Resuming /\ message' = message
    BY <1>2, <1>3 DEF Signalling, Resuming, locals
  <2>2. QED  BY <2>1, <1>5, SignalThreads DEF FrameInv
<1>7. \A u \in Sessions :
          Uses(u, Holding)' = Uses(u, Holding) \ (IF u = s THEN {t} ELSE {})
  <2>1. pc[t] \in Holding /\ "drop" \notin Holding  BY <1>2 DEF Holding
  <2>2. \A u : /\ u = s => Uses(u, Holding)' = Uses(u, Holding) \ {t}
               /\ u # s => Uses(u, Holding)' = Uses(u, Holding)
    BY <2>1, <1>t, <1>0, <1>1, UsesLost
  <2>3. QED  BY <2>2
<1>8. \A u \in Sessions :
          /\ Uses(u, Running)' = Uses(u, Running)
          /\ Uses(u, {"resume"})' = Uses(u, {"resume"})
          /\ Uses(u, Waking)' = Uses(u, Waking)
          /\ Uses(u, Resuming)' = Uses(u, Resuming)
          /\ Uses(u, InCancel)' = Uses(u, InCancel)
  <2>1. /\ pc[t] \notin Running /\ pc[t] # "resume" /\ pc[t] \notin Waking
        /\ "drop" \notin Running /\ "drop" \notin Waking
        /\ pc[t] \in Resuming /\ "drop" \in Resuming
        /\ pc[t] \in InCancel /\ "drop" \in InCancel
    BY <1>2 DEF Running, Waking, Resuming, InCancel, Signalling
  <2>2. \A u : Uses(u, Running)' = Uses(u, Running)  BY <2>1, <1>t, <1>1, UsesKept
  <2>3. \A u : Uses(u, {"resume"})' = Uses(u, {"resume"})
    <3>1. pc[t] \notin {"resume"} /\ "drop" \notin {"resume"}  BY <2>1
    <3>2. QED  BY <3>1, <1>t, <1>1, UsesKept
  <2>4. \A u : Uses(u, Waking)' = Uses(u, Waking)  BY <2>1, <1>t, <1>1, UsesKept
  <2>5. \A u : Uses(u, Resuming)' = Uses(u, Resuming)  BY <2>1, <1>t, <1>0, <1>1, UsesKept
  <2>6. \A u : Uses(u, InCancel)' = Uses(u, InCancel)  BY <2>1, <1>t, <1>0, <1>1, UsesKept
  <2>7. QED  BY <2>2, <2>3, <2>4, <2>5, <2>6
<1>9. MutexInv'
  BY <1>2, <1>7, <1>t, MutexReleased DEF FrameInv
<1>10. RunInv' /\ PermitInv'
  <2>1. RunInv'  BY <1>3, <1>8 DEF FrameInv, RunInv
  <2>2. PermitInv'
    <3>1. at' = at /\ continuation' = continuation  BY <1>3 DEF wakeup
    <3>2. \A u \in Sessions : Uses(u, {"resume"})' = Uses(u, {"resume"})  BY <1>8
    <3>3. QED  BY <3>1, <3>2 DEF FrameInv, PermitInv
  <2>3. QED  BY <2>1, <2>2
<1>11. YieldInv'
  <2>1. UNCHANGED <<at, started, resumeAfterYield, value>>  BY <1>3
  <2>2. \A u \in Sessions : pc'[u] = IF u = t THEN "drop" ELSE pc[u]  BY <1>5 DEF Threads
  <2>3. ASSUME NEW u \in Sessions  PROVE Yields(u)'
    <3>1. Yields(u)  BY YieldsAll DEF FrameInv
    <3>2. CASE u = t
      <4>1. pc'[u] = "drop" /\ pc[u] # "gone"  BY <2>2, <3>2, <1>2
      <4>2. QED  BY <2>1, <3>1, <4>1, YieldsMoved
    <3>3. CASE u # t
      <4>1. pc'[u] = pc[u]  BY <2>2, <3>3
      <4>2. QED  BY <2>1, <3>1, <4>1, YieldsKept
    <3>4. QED  BY <3>2, <3>3
  <2>4. QED  BY <2>3, YieldsAll
<1>12. CloseInv'
  <2>1. pc[t] \in InCancel \ {"close", "signal"}  BY <1>2 DEF InCancel, Signalling, Resuming
  <2>2. QED
    BY <2>1, <1>3, <1>5, CancelTarget DEF FrameInv, CloseInv, wakeup, subscriber
<1>13. QuietInv'
  BY <1>2, <1>3, <1>5, <1>8 DEF FrameInv, QuietInv, Quiet, Cancels, wakeup, subscriber, Threads
<1>14. WakeupInv' /\ StagedInv' /\ PendingCount'
  BY <1>3, <1>8 DEF FrameInv, WakeupInv, Ready, StagedInv, PendingCount, Counted, subscriber
<1>15. ActiveResumes'
  BY <1>3, <1>8 DEF FrameInv, ActiveResumes, Resuming, wakeup
<1>q. QED
  BY <1>4, <1>6, <1>9, <1>10, <1>11, <1>12, <1>13, <1>14, <1>15 DEF FrameInv

-----------------------------------------------------------------------------
(* The coroutine.                                                          *)

(* What is known of a frame while a thread executes it.                    *)
LEMMA ExecutingFrame ==
    ASSUME FrameInv, NEW t \in Threads, NEW s \in Sessions, Runs(t, s), at[s] \in Executing
    PROVE  /\ Uses(s, Running) = {t}
           /\ ~continuation[s] /\ Uses(s, {"resume"}) = {}
           /\ started[s] /\ ~resumeAfterYield[s] /\ value[s] = NoEvent
           /\ pc[s] \notin {"gone", "absent"}
<1>1. t \in Uses(s, Running)  BY DEF Runs, Uses, Running
<1>2. \A v \in Uses(s, Running) : v \in Uses(s, Holding)  BY DEF Uses, Running, Holding
<1>3. Uses(s, Running) \subseteq Threads /\ Uses(s, Holding) \subseteq Threads  BY DEF Uses
<1>4. Uses(s, Running) = {t}  BY <1>1, <1>2, <1>3 DEF FrameInv, MutexInv
<1>5. ~continuation[s] /\ Uses(s, {"resume"}) = {}
  BY DEF FrameInv, PermitInv, Executing
<1>6. /\ started[s] /\ ~resumeAfterYield[s] /\ value[s] = NoEvent
      /\ pc[s] \notin {"gone", "absent"}
  BY DEF FrameInv, YieldInv, Executing
<1>7. QED  BY <1>4, <1>5, <1>6

(* A step of the coroutine that stays inside it.                           *)
LEMMA InnerStep ==
    ASSUME FrameInv, NEW t \in Threads, NEW s \in Sessions, Runs(t, s),
           at[s] \in Executing \ {"emit"}, NEW point \in Executing,
           at' = [at EXCEPT ![s] = point],
           TypeOK', StagedInv', PendingCount',
           UNCHANGED <<pc, target, message, wakeup, closed, cancelled, resumeMutex,
                       started, resumeAfterYield, value>>,
           \A u \in Sessions : u # s => events'[u] = events[u]
    PROVE  FrameInv'
<1>1. \A u, L : Uses(u, L)' = Uses(u, L)  BY DEF Uses
<1>2. at'[s] = point /\ \A u \in Sessions : u # s => at'[u] = at[u]
  BY DEF FrameInv, TypeOK
<1>3. ThreadsInv' /\ MutexInv' /\ CloseInv'
  BY <1>1 DEF FrameInv, ThreadsInv, MutexInv, CloseInv, wakeup
<1>4. QuietInv' /\ ActiveResumes'
  BY <1>1 DEF FrameInv, QuietInv, Quiet, Cancels, ActiveResumes, wakeup
<1>5. RunInv'  BY <1>1, <1>2 DEF FrameInv, RunInv
<1>6. PermitInv'
  BY <1>1, <1>2, ExecutingFrame DEF FrameInv, PermitInv, wakeup, Executing
<1>7. YieldInv'  BY <1>2, ExecutingFrame DEF FrameInv, YieldInv, Executing
<1>8. WakeupInv'  BY <1>1, <1>2 DEF FrameInv, WakeupInv, Ready, Executing
<1>q. QED  BY <1>3, <1>4, <1>5, <1>6, <1>7, <1>8 DEF FrameInv

(* await_ready keeps FrameInv.                                             *)
LEMMA AwaitReadyFrame ==
    ASSUME FrameInv, NEW t \in Threads, NEW s \in Sessions, AwaitReady(t, s)
    PROVE  FrameInv'
<1>0. TypeOK /\ Runs(t, s) /\ at[s] = "ready"  BY DEF FrameInv, AwaitReady
<1>1. PICK point \in {"fetch", "suspend"} : at' = [at EXCEPT ![s] = point]
  BY DEF AwaitReady
<1>2. UNCHANGED <<service, subscriber, wakeup, event, isTerminal, value, resumeMutex,
                  started, resumeAfterYield, pc, locals, history>>
  BY DEF AwaitReady
<1>3. TypeOK'
  <2>1. at' \in [Sessions -> Points]  BY <1>0, <1>1 DEF TypeOK, Points
  <2>2. QED
    BY <2>1, <1>0, <1>2 DEF TypeOK, service, subscriber, wakeup, locals, history
<1>4. StagedInv' /\ PendingCount'
  BY <1>0, <1>1, <1>2 DEF FrameInv, TypeOK, StagedInv, PendingCount, Counted, subscriber
<1>5. at[s] \in Executing \ {"emit"} /\ point \in Executing  BY <1>0 DEF Executing
<1>6. UNCHANGED <<pc, target, message, wakeup, closed, cancelled, resumeMutex,
                  started, resumeAfterYield, value, events>>
  BY <1>2 DEF subscriber, locals
<1>q. QED  BY <1>0, <1>1, <1>3, <1>4, <1>5, <1>6, InnerStep

(* await_resume keeps FrameInv.                                            *)
LEMMA AwaitResumeFrame ==
    ASSUME FrameInv, NEW t \in Threads, NEW s \in Sessions, AwaitResume(t, s)
    PROVE  FrameInv'
<1>0. /\ TypeOK /\ Runs(t, s) /\ at[s] = "fetch" /\ event[s] = NoEvent
      /\ events[s] \in Seq(Nat \ {0})
  BY DEF FrameInv, AwaitResume, StagedInv, TypeOK
<1>1. PICK point \in {"finish", "emit"} :
          /\ at' = [at EXCEPT ![s] = point]
          /\ point = IF events[s] = <<>> THEN "finish" ELSE "emit"
  BY DEF AwaitResume
<1>2. /\ event' = [event EXCEPT ![s] = IF events[s] = <<>> THEN NoEvent ELSE Head(events[s])]
      /\ events' = [events EXCEPT ![s] = IF events[s] = <<>> THEN @ ELSE Tail(@)]
      /\ cut' \subseteq cut \cup {s}
  BY <1>0 DEF AwaitResume, TypeOK
<1>3. UNCHANGED <<service, task, base, closed, pending, cancelled, wakeup, isTerminal,
                  value, resumeMutex, started, resumeAfterYield, pc, locals, log,
                  delivered, outcome>>
  BY DEF AwaitResume
<1>4. events[s] # <<>> => /\ Head(events[s]) \in Nat \ {0}
                          /\ Tail(events[s]) \in Seq(Nat \ {0})
                          /\ Len(Tail(events[s])) = Len(events[s]) - 1
  BY <1>0
<1>5. TypeOK'
  <2>1. at' \in [Sessions -> Points]  BY <1>0, <1>1 DEF TypeOK, Points
  <2>2. event' \in [Sessions -> Nat \cup {NoEvent}]  BY <1>0, <1>2, <1>4 DEF TypeOK
  <2>3. events' \in [Sessions -> Seq(Nat \ {0})]  BY <1>0, <1>2, <1>4 DEF TypeOK
  <2>4. cut' \subseteq Sessions  BY <1>0, <1>2 DEF TypeOK
  <2>5. QED
    BY <2>1, <2>2, <2>3, <2>4, <1>0, <1>3 DEF TypeOK, service, wakeup, locals
<1>6. StagedInv'
  BY <1>0, <1>1, <1>2, <1>4 DEF FrameInv, TypeOK, StagedInv, Snapshot
<1>7. PendingCount'
  <2>1. ASSUME NEW u \in Sessions
        PROVE  Len(events'[u]) + Counted(event'[u]) = Len(events[u]) + Counted(event[u])
    <3>1. CASE u # s  BY <3>1, <1>0, <1>2 DEF TypeOK, Counted
    <3>2. CASE u = s /\ events[s] = <<>>  BY <3>2, <1>0, <1>2 DEF TypeOK, Counted
    <3>3. CASE u = s /\ events[s] # <<>>
      <4>1. events'[u] = Tail(events[s]) /\ event'[u] = Head(events[s])
        BY <3>3, <1>0, <1>2 DEF TypeOK
      <4>2. Counted(event'[u]) = 1 /\ Counted(event[u]) = 0
        BY <4>1, <3>3, <1>0, <1>4 DEF Counted, Snapshot, NoEvent
      <4>3. Len(events'[u]) = Len(events[u]) - 1 /\ Len(events[u]) \in Nat
        BY <4>1, <3>3, <1>0, <1>4
      <4>4. QED  BY <4>2, <4>3
    <3>4. QED  BY <3>1, <3>2, <3>3
  <2>2. QED  BY <2>1, <1>3 DEF FrameInv, PendingCount
<1>8. at[s] \in Executing \ {"emit"} /\ point \in Executing  BY <1>0 DEF Executing
<1>9. /\ UNCHANGED <<pc, target, message, wakeup, closed, cancelled, resumeMutex,
                     started, resumeAfterYield, value>>
      /\ \A u \in Sessions : u # s => events'[u] = events[u]
  BY <1>0, <1>2, <1>3 DEF TypeOK, locals
<1>q. QED  BY <1>0, <1>1, <1>5, <1>6, <1>7, <1>8, <1>9, InnerStep

(* A step with which the coroutine suspends or ends, so that resume()      *)
(* returns to its caller.                                                  *)
LEMMA ReturnStep ==
    ASSUME FrameInv, NEW t \in Threads, NEW s \in Sessions, Runs(t, s),
           at[s] \in Executing, NEW point \in {"yield", "await", "done"},
           at' = [at EXCEPT ![s] = point], ReturnFromResume(t),
           TypeOK', StagedInv', PendingCount',
           point = "await" => ~Ready(s),
           \A u \in Sessions : continuation'[u] <=> continuation[u] \/ (u = s /\ point = "await"),
           \A u \in Sessions : value'[u] # value[u] => u = s /\ point = "yield",
           UNCHANGED <<target, message, subscriber, activeResumes, resumeMutex, started,
                       resumeAfterYield>>
    PROVE  FrameInv'
<1>t. TypeOK  BY DEF FrameInv
<1>1. PICK label \in {"unlock", "pulled"} :
          Moves(t, label, s) /\ (label = "unlock" <=> pc[t] = "run")
  BY <1>t, GotoMoves DEF ReturnFromResume, Runs
<1>2. pc[t] \in {"run", "pull"} /\ target[t] = s  BY DEF Runs
<1>3. \A v \in Threads : /\ pc'[v] = IF v = t THEN label ELSE pc[v]
                         /\ target'[v] = target[v]
  BY <1>t, <1>1 DEF TypeOK, Moves
<1>4. at'[s] = point /\ \A u \in Sessions : u # s => at'[u] = at[u]
  BY <1>t DEF TypeOK
<1>5. /\ Uses(s, Running) = {t}
      /\ ~continuation[s] /\ Uses(s, {"resume"}) = {}
      /\ started[s] /\ ~resumeAfterYield[s] /\ value[s] = NoEvent
      /\ pc[s] \notin {"gone", "absent"}
  BY ExecutingFrame
<1>6. \A u \in Sessions :
          /\ Uses(u, Holding)' = Uses(u, Holding)
          /\ Uses(u, {"resume"})' = Uses(u, {"resume"})
          /\ Uses(u, Waking)' = Uses(u, Waking)
          /\ Uses(u, Resuming)' = Uses(u, Resuming)
          /\ Uses(u, InCancel)' = Uses(u, InCancel)
  <2>1. /\ pc[t] \in Holding /\ label \in Holding
        /\ pc[t] \notin {"resume"} /\ label \notin {"resume"}
        /\ pc[t] \notin Waking /\ label \notin Waking
        /\ pc[t] \in Resuming <=> label \in Resuming
        /\ pc[t] \in InCancel <=> label \in InCancel
    BY <1>1, <1>2 DEF Waking, Resuming, InCancel, Signalling, Holding
  <2>2. \A u : Uses(u, Holding)' = Uses(u, Holding)  BY <2>1, <1>t, <1>1, <1>2, UsesKept
  <2>3. \A u : Uses(u, {"resume"})' = Uses(u, {"resume"})  BY <2>1, <1>3 DEF Uses
  <2>4. \A u : Uses(u, Waking)' = Uses(u, Waking)  BY <2>1, <1>t, <1>1, <1>2, UsesKept
  <2>5. \A u : Uses(u, Resuming)' = Uses(u, Resuming)  BY <2>1, <1>t, <1>1, <1>2, UsesKept
  <2>6. \A u : Uses(u, InCancel)' = Uses(u, InCancel)  BY <2>1, <1>t, <1>1, <1>2, UsesKept
  <2>7. QED  BY <2>2, <2>3, <2>4, <2>5, <2>6
<1>7. \A u \in Sessions : Uses(u, Running)' = IF u = s THEN {} ELSE Uses(u, Running)
  <2>1. pc[t] \in Running /\ label \notin Running  BY <1>1, <1>2 DEF Running
  <2>2. QED  BY <2>1, <1>t, <1>1, <1>2, <1>5, UsesLost
<1>8. ThreadsInv'
  <2>1. pc[t] \in InCancel => label \in InCancel \cap Signalling
    BY <1>1, <1>2 DEF InCancel, Signalling, Resuming
  <2>2. QED
    BY <1>1, <1>2, <1>3 DEF FrameInv, ThreadsInv, Signalling, Resuming, InCancel, Threads
<1>9. MutexInv'  BY <1>6 DEF FrameInv, MutexInv
<1>10. RunInv'  BY <1>4, <1>7 DEF FrameInv, RunInv, Executing
<1>11. PermitInv'
  <2>1. ASSUME NEW u \in Sessions
        PROVE  /\ continuation'[u] => at'[u] = "await" /\ Uses(u, {"resume"}) = {}
               /\ at'[u] = "await" /\ ~continuation'[u] => Uses(u, {"resume"}) # {}
               /\ \A x, y \in Uses(u, {"resume"}) : at'[u] = "await" /\ x = y
    BY <1>4, <1>5 DEF FrameInv, PermitInv
  <2>2. QED  BY <2>1, <1>6 DEF PermitInv
<1>12. YieldInv'
  BY <1>1, <1>2, <1>3, <1>4, <1>5 DEF FrameInv, YieldInv, Threads
<1>13. CloseInv'
  <2>1. pc[t] \in InCancel <=> label \in InCancel
    BY <1>1, <1>2 DEF InCancel, Signalling, Resuming
  <2>2. pc[t] \in InCancel => pc[t] \in InCancel \ {"close", "signal"}
    BY <1>2
  <2>3. \A v \in Cancellers \cup Sessions :
            v \in Threads /\ (pc[v] \in InCancel => target[v] \in Sessions)
    BY CancelTarget DEF FrameInv
  <2>4. \A u \in Sessions : continuation'[u] => continuation[u] \/ ~closed[u]
    BY DEF Ready
  <2>5. closed' = closed /\ cancelled' = cancelled  BY DEF subscriber
  <2>6. QED
    BY <2>1, <2>2, <2>3, <2>4, <2>5, <1>3 DEF FrameInv, CloseInv
<1>14. QuietInv'
  <2>1. \A u \in Sessions : closed[u] => (continuation'[u] <=> continuation[u])
    BY DEF Ready
  <2>2. \A u \in Sessions : pc'[u] \in {"destroy", "gone"} => pc'[u] = pc[u]
    BY <1>1, <1>3 DEF Threads
  <2>3. closed' = closed /\ cancelled' = cancelled  BY DEF subscriber
  <2>4. QED
    BY <2>1, <2>2, <2>3, <1>6 DEF FrameInv, QuietInv, Quiet, Cancels
<1>15. WakeupInv'
  <2>1. \A u \in Sessions : Ready(u)' <=> Ready(u)  BY DEF Ready, subscriber
  <2>2. QED  BY <2>1, <1>4, <1>6 DEF FrameInv, WakeupInv
<1>16. ActiveResumes'  BY <1>6 DEF FrameInv, ActiveResumes, Resuming
<1>q. QED
  BY <1>8, <1>9, <1>10, <1>11, <1>12, <1>13, <1>14, <1>15, <1>16 DEF FrameInv

(* await_suspend keeps FrameInv: it stores the continuation only when no   *)
(* event is queued and the subscriber is open.                             *)
LEMMA AwaitSuspendFrame ==
    ASSUME FrameInv, NEW t \in Threads, NEW s \in Sessions, AwaitSuspend(t, s)
    PROVE  FrameInv'
<1>0. TypeOK /\ Runs(t, s) /\ at[s] = "suspend"  BY DEF FrameInv, AwaitSuspend
<1>1. at[s] \in Executing \ {"emit"} /\ "fetch" \in Executing  BY <1>0 DEF Executing
<1>2. UNCHANGED <<service, subscriber, activeResumes, event, isTerminal, value,
                  resumeMutex, started, resumeAfterYield, locals, history>>
  BY DEF AwaitSuspend
<1>3. CASE Ready(s)
  <2>1. at' = [at EXCEPT ![s] = "fetch"] /\ UNCHANGED <<continuation, pc>>
    BY <1>3 DEF AwaitSuspend
  <2>2. TypeOK'
    <3>1. at' \in [Sessions -> Points]  BY <1>0, <2>1 DEF TypeOK, Points
    <3>2. QED
      BY <3>1, <1>0, <1>2, <2>1 DEF TypeOK, service, subscriber, locals, history
  <2>3. StagedInv' /\ PendingCount'
    BY <1>0, <1>2, <2>1 DEF FrameInv, TypeOK, StagedInv, PendingCount, Counted, subscriber
  <2>4. UNCHANGED <<pc, target, message, wakeup, closed, cancelled, resumeMutex,
                    started, resumeAfterYield, value, events>>
    BY <1>2, <2>1 DEF subscriber, locals, wakeup
  <2>5. QED  BY <1>0, <1>1, <2>1, <2>2, <2>3, <2>4, InnerStep
<1>4. CASE ~Ready(s)
  <2>1. /\ at' = [at EXCEPT ![s] = "await"]
        /\ continuation' = [continuation EXCEPT ![s] = TRUE]
        /\ ReturnFromResume(t)
    BY <1>4 DEF AwaitSuspend
  <2>2. TypeOK'
    <3>1. at' \in [Sessions -> Points]  BY <1>0, <2>1 DEF TypeOK, Points
    <3>2. continuation' \in [Sessions -> BOOLEAN]  BY <1>0, <2>1 DEF TypeOK
    <3>3. pc' \in [Threads -> Labels]
      BY <1>0, <2>1 DEF TypeOK, ReturnFromResume, Goto, Labels
    <3>4. QED
      BY <3>1, <3>2, <3>3, <1>0, <1>2 DEF TypeOK, service, subscriber, locals, history
  <2>3. StagedInv' /\ PendingCount'
    BY <1>0, <1>2, <2>1 DEF FrameInv, TypeOK, StagedInv, PendingCount, Counted, subscriber
  <2>4. \A u \in Sessions : continuation'[u] <=> continuation[u] \/ (u = s /\ "await" = "await")
    BY <1>0, <2>1 DEF TypeOK
  <2>5. UNCHANGED <<target, message, subscriber, activeResumes, resumeMutex, started,
                    resumeAfterYield, value>>
    BY <1>2 DEF locals
  <2>6. QED
    BY <1>0, <1>1, <1>4, <2>1, <2>2, <2>3, <2>4, <2>5, ReturnStep
<1>5. QED  BY <1>3, <1>4

(* co_yield of the current task, co_yield of an update, and co_return.     *)
LEMMA YieldCurrentTaskFrame ==
    ASSUME FrameInv, NEW t \in Threads, NEW s \in Sessions, YieldCurrentTask(t, s)
    PROVE  FrameInv'
<1>0. TypeOK /\ Runs(t, s) /\ at[s] = "current" /\ ReturnFromResume(t)
  BY DEF FrameInv, YieldCurrentTask
<1>1. at[s] \in Executing /\ value[s] = NoEvent  BY <1>0, ExecutingFrame DEF Executing
<1>2. at' = [at EXCEPT ![s] = "yield"] /\ value' = [value EXCEPT ![s] = Snapshot]
  BY DEF YieldCurrentTask
<1>3. UNCHANGED <<service, subscriber, wakeup, event, isTerminal, resumeMutex, started,
                  resumeAfterYield, locals, history>>
  BY DEF YieldCurrentTask
<1>4. TypeOK'
  <2>1. at' \in [Sessions -> Points]  BY <1>0, <1>2 DEF TypeOK, Points
  <2>2. value' \in [Sessions -> Nat \cup {NoEvent}]  BY <1>0, <1>2 DEF TypeOK, Snapshot
  <2>3. pc' \in [Threads -> Labels]  BY <1>0 DEF TypeOK, ReturnFromResume, Goto, Labels
  <2>4. QED
    BY <2>1, <2>2, <2>3, <1>0, <1>3 DEF TypeOK, service, subscriber, wakeup, locals, history
<1>5. StagedInv'  BY <1>0, <1>2, <1>3 DEF FrameInv, TypeOK, StagedInv
<1>6. PendingCount'
  <2>1. \A u \in Sessions : Counted(value'[u]) = Counted(value[u])
    BY <1>0, <1>1, <1>2 DEF TypeOK, Counted, Snapshot, NoEvent
  <2>2. QED  BY <2>1, <1>3 DEF FrameInv, PendingCount, subscriber
<1>7. /\ at' = [at EXCEPT ![s] = "yield"]
      /\ \A u \in Sessions : value'[u] # value[u] => u = s /\ "yield" = "yield"
      /\ \A u \in Sessions : continuation'[u] <=> continuation[u] \/ (u = s /\ "yield" = "await")
      /\ UNCHANGED <<target, message, subscriber, activeResumes, resumeMutex, started,
                     resumeAfterYield>>
  BY <1>0, <1>2, <1>3 DEF TypeOK, locals, wakeup
<1>q. QED  BY <1>0, <1>1, <1>4, <1>5, <1>6, <1>7, ReturnStep

(* co_yield of an update keeps FrameInv.                                   *)
LEMMA YieldEventFrame ==
    ASSUME FrameInv, NEW t \in Threads, NEW s \in Sessions, YieldEvent(t, s)
    PROVE  FrameInv'
<1>0. /\ TypeOK /\ Runs(t, s) /\ at[s] = "emit" /\ ReturnFromResume(t)
      /\ event[s] > Snapshot
  BY DEF FrameInv, YieldEvent, StagedInv
<1>1. at[s] \in Executing /\ value[s] = NoEvent  BY <1>0, ExecutingFrame DEF Executing
<1>2. /\ at' = [at EXCEPT ![s] = "yield"]
      /\ value' = [value EXCEPT ![s] = event[s]]
      /\ event' = [event EXCEPT ![s] = NoEvent]
  BY DEF YieldEvent
<1>3. UNCHANGED <<service, subscriber, wakeup, resumeMutex, started, resumeAfterYield,
                  locals, history>>
  BY DEF YieldEvent
<1>4. TypeOK'
  <2>1. at' \in [Sessions -> Points]  BY <1>0, <1>2 DEF TypeOK, Points
  <2>2. /\ value' \in [Sessions -> Nat \cup {NoEvent}]
        /\ event' \in [Sessions -> Nat \cup {NoEvent}]
    BY <1>0, <1>2 DEF TypeOK
  <2>3. isTerminal' \in [Sessions -> BOOLEAN]  BY <1>0 DEF TypeOK, YieldEvent
  <2>4. pc' \in [Threads -> Labels]  BY <1>0 DEF TypeOK, ReturnFromResume, Goto, Labels
  <2>5. QED
    BY <2>1, <2>2, <2>3, <2>4, <1>0, <1>3
       DEF TypeOK, service, subscriber, wakeup, locals, history
<1>5. StagedInv'  BY <1>0, <1>2 DEF FrameInv, TypeOK, StagedInv
<1>6. PendingCount'
  <2>1. pending' = pending /\ events' = events  BY <1>3 DEF subscriber
  <2>2. ASSUME NEW u \in Sessions
        PROVE  pending[u] = Len(events[u]) + Counted(event'[u]) + Counted(value'[u])
    <3>1. pending[u] = Len(events[u]) + Counted(event[u]) + Counted(value[u])
      BY DEF FrameInv, PendingCount
    <3>2. CASE u = s
      <4>1. event'[u] = value[u] /\ value'[u] = event[u]  BY <3>2, <1>0, <1>1, <1>2 DEF TypeOK
      <4>2. Len(events[u]) \in Nat /\ Counted(event[u]) \in Nat /\ Counted(value[u]) \in Nat
        BY <1>0 DEF TypeOK, Counted
      <4>3. QED  BY <3>1, <4>1, <4>2
    <3>3. CASE u # s
      <4>1. event'[u] = event[u] /\ value'[u] = value[u]  BY <3>3, <1>0, <1>2 DEF TypeOK
      <4>2. QED  BY <3>1, <4>1
    <3>4. QED  BY <3>2, <3>3
  <2>3. QED  BY <2>1, <2>2 DEF PendingCount
<1>7. /\ at' = [at EXCEPT ![s] = "yield"]
      /\ \A u \in Sessions : value'[u] # value[u] => u = s /\ "yield" = "yield"
      /\ \A u \in Sessions : continuation'[u] <=> continuation[u] \/ (u = s /\ "yield" = "await")
      /\ UNCHANGED <<target, message, subscriber, activeResumes, resumeMutex, started,
                     resumeAfterYield>>
  BY <1>0, <1>2, <1>3 DEF TypeOK, locals, wakeup
<1>q. QED  BY <1>0, <1>1, <1>4, <1>5, <1>6, <1>7, ReturnStep

(* The final suspension keeps FrameInv.                                    *)
LEMMA FinalSuspendFrame ==
    ASSUME FrameInv, NEW t \in Threads, NEW s \in Sessions, FinalSuspend(t, s)
    PROVE  FrameInv'
<1>0. TypeOK /\ Runs(t, s) /\ at[s] = "finish" /\ ReturnFromResume(t)
  BY DEF FrameInv, FinalSuspend
<1>1. at[s] \in Executing /\ at' = [at EXCEPT ![s] = "done"]
  BY <1>0 DEF Executing, FinalSuspend
<1>2. UNCHANGED <<service, subscriber, wakeup, event, isTerminal, value, resumeMutex,
                  started, resumeAfterYield, locals, history>>
  BY DEF FinalSuspend
<1>3. TypeOK'
  <2>1. at' \in [Sessions -> Points]  BY <1>0, <1>1 DEF TypeOK, Points
  <2>2. pc' \in [Threads -> Labels]  BY <1>0 DEF TypeOK, ReturnFromResume, Goto, Labels
  <2>3. QED
    BY <2>1, <2>2, <1>0, <1>2 DEF TypeOK, service, subscriber, wakeup, locals, history
<1>4. StagedInv' /\ PendingCount'
  BY <1>0, <1>1, <1>2 DEF FrameInv, TypeOK, StagedInv, PendingCount, Counted, subscriber
<1>5. UNCHANGED <<target, message, subscriber, activeResumes, resumeMutex, started,
                  resumeAfterYield, continuation, value>>
  BY <1>2 DEF locals, wakeup
<1>q. QED  BY <1>0, <1>1, <1>3, <1>4, <1>5, ReturnStep

-----------------------------------------------------------------------------
(* The consumer inside NextFor.                                            *)

(* The start of Next, which resumes the frame if it is not waiting, keeps  *)
(* FrameInv.                                                               *)
LEMMA PullFrame ==
    ASSUME FrameInv, NEW s \in Sessions, Pull(s)
    PROVE  FrameInv'
<1>0. /\ TypeOK /\ s \in Threads /\ target[s] = s /\ pc[s] = "next"
      /\ UNCHANGED <<service, subscriber, wakeup, event, isTerminal, value, locals, history>>
  BY DEF FrameInv, Threads, ThreadsInv, Pull
<1>1. CASE ~(~started[s] \/ resumeAfterYield[s])
  <2>1. /\ Goto(s, "wait") /\ ~resumeAfterYield[s]
        /\ UNCHANGED <<service, subscriber, wakeup, frame, locals, log, delivered, cut>>
    BY <1>0, <1>1 DEF Pull, frame, history
  <2>2. outcome' \in [Sessions -> {"open", "ended", "aborted"}]
    BY <1>0 DEF TypeOK, history
  <2>3. QED  BY <1>0, <2>1, <2>2, ConsumerMove
<1>2. CASE ~started[s] \/ resumeAfterYield[s]
  <2>1. /\ resumeMutex[s] = NoThread
        /\ resumeMutex' = [resumeMutex EXCEPT ![s] = s]
        /\ started' = [started EXCEPT ![s] = TRUE]
        /\ resumeAfterYield' = [resumeAfterYield EXCEPT ![s] = FALSE]
    BY <1>2 DEF Pull
  <2>2. Moves(s, "pull", s)  BY <1>0, <1>2, GotoMoves DEF Pull, locals
  <2>3. at[s] \in {"initial", "yield"} /\ value[s] = NoEvent
    BY <1>0, <1>2 DEF FrameInv, YieldInv
  <2>4. PICK point \in {"current", "ready", "finish"} : at' = [at EXCEPT ![s] = point]
    BY <1>2, <2>3 DEF Pull, ResumePoint
  <2>5. TypeOK'
    <3>1. at' \in [Sessions -> Points]  BY <1>0, <2>4 DEF TypeOK, Points
    <3>2. pc' \in [Threads -> Labels]  BY <1>0, <2>2 DEF TypeOK, Moves, Labels
    <3>3. resumeMutex' \in [Sessions -> Threads \cup {NoThread}]  BY <1>0, <2>1 DEF TypeOK
    <3>4. started' \in [Sessions -> BOOLEAN] /\ resumeAfterYield' \in [Sessions -> BOOLEAN]
      BY <1>0, <2>1 DEF TypeOK
    <3>5. QED
      BY <3>1, <3>2, <3>3, <3>4, <1>0 DEF TypeOK, service, subscriber, wakeup, locals, history
  <2>6. \A v \in Threads : /\ pc'[v] = IF v = s THEN "pull" ELSE pc[v]
                           /\ target'[v] = target[v]
    BY <1>0, <2>2 DEF TypeOK, Moves
  <2>7. ThreadsInv'
    <3>1. "pull" \in Labels \ {"idle", "exit", "deliver", "closing"} /\ message' = message
      BY <1>0 DEF Labels, locals
    <3>2. QED  BY <3>1, <2>6, ConsumerThreads DEF FrameInv
  <2>8. \A u \in Sessions :
            /\ Uses(u, Holding)' = Uses(u, Holding) \cup (IF u = s THEN {s} ELSE {})
            /\ Uses(u, Running)' = Uses(u, Running) \cup (IF u = s THEN {s} ELSE {})
    <3>1. /\ pc[s] \notin Holding /\ pc[s] \notin Running
          /\ "pull" \in Holding /\ "pull" \in Running
      BY <1>0 DEF Holding, Running
    <3>2. \A u \in Sessions : Uses(u, Holding)' = Uses(u, Holding) \cup (IF u = s THEN {s} ELSE {})
      BY <3>1, <1>0, <2>2, UsesGained
    <3>3. \A u \in Sessions : Uses(u, Running)' = Uses(u, Running) \cup (IF u = s THEN {s} ELSE {})
      BY <3>1, <1>0, <2>2, UsesGained
    <3>4. QED  BY <3>2, <3>3
  <2>9. \A u \in Sessions :
            /\ Uses(u, {"resume"})' = Uses(u, {"resume"})
            /\ Uses(u, Waking)' = Uses(u, Waking)
            /\ Uses(u, Resuming)' = Uses(u, Resuming)
            /\ Uses(u, InCancel)' = Uses(u, InCancel)
    <3>1. /\ pc[s] \notin {"resume"} /\ pc[s] \notin Waking
          /\ pc[s] \notin Resuming /\ pc[s] \notin InCancel
          /\ "pull" \notin {"resume"} /\ "pull" \notin Waking
          /\ "pull" \notin Resuming /\ "pull" \notin InCancel
      BY <1>0 DEF Waking, Resuming, InCancel, Signalling
    <3>2. QED  BY <3>1, <1>0, <2>2, UsesKept
  <2>10. /\ at'[s] = point /\ started'[s] /\ ~resumeAfterYield'[s] /\ value'[s] = NoEvent
         /\ \A u \in Sessions :
                u # s => /\ at'[u] = at[u] /\ started'[u] = started[u]
                         /\ resumeAfterYield'[u] = resumeAfterYield[u]
    <3>1. /\ at \in [Sessions -> Points] /\ started \in [Sessions -> BOOLEAN]
          /\ resumeAfterYield \in [Sessions -> BOOLEAN] /\ DOMAIN value = Sessions
      BY <1>0 DEF TypeOK
    <3>2. at'[s] = point /\ \A u \in Sessions : u # s => at'[u] = at[u]
      BY <3>1, <1>0, <2>1, <2>3, <2>4
    <3>3. started'[s] /\ \A u \in Sessions : u # s => started'[u] = started[u]
      BY <3>1, <1>0, <2>1, <2>3, <2>4
    <3>4. /\ ~resumeAfterYield'[s] /\ value'[s] = NoEvent
          /\ \A u \in Sessions : u # s => resumeAfterYield'[u] = resumeAfterYield[u]
      BY <3>1, <1>0, <2>1, <2>3, <2>4
    <3>5. QED  BY <3>2, <3>3, <3>4
  <2>11. MutexInv'
    <3>1. MutexInv /\ TypeOK  BY DEF FrameInv
    <3>2. \A u \in Sessions :
            Uses(u, Holding)' = Uses(u, Holding) \cup (IF u = s THEN {s} ELSE {})
      BY <2>8
    <3>3. QED  BY <3>1, <3>2, <2>1, <1>0, MutexTaken
  <2>12. RunInv'  BY <2>10, <2>8 DEF FrameInv, RunInv, Executing
  <2>13. PermitInv'
    <3>1. ASSUME NEW u \in Sessions
          PROVE  /\ continuation'[u] => at'[u] = "await" /\ Uses(u, {"resume"})' = {}
                 /\ at'[u] = "await" /\ ~continuation'[u] => Uses(u, {"resume"})' # {}
                 /\ \A x, y \in Uses(u, {"resume"})' : at'[u] = "await" /\ x = y
      <4>1. continuation'[u] = continuation[u] /\ Uses(u, {"resume"})' = Uses(u, {"resume"})
        BY <1>0, <2>9 DEF wakeup
      <4>2. CASE u = s
        <5>1. at[s] # "await" /\ at'[s] # "await"  BY <2>3, <2>10
        <5>2. ~continuation[s] /\ Uses(s, {"resume"}) = {}  BY <5>1 DEF FrameInv, PermitInv
        <5>3. QED  BY <4>1, <4>2, <5>1, <5>2
      <4>3. CASE u # s
        <5>1. at'[u] = at[u]  BY <4>3, <2>10
        <5>2. QED  BY <4>1, <5>1 DEF FrameInv, PermitInv
      <4>4. QED  BY <4>2, <4>3
    <3>2. QED  BY <3>1 DEF PermitInv
  <2>14. YieldInv'
    <3>1. \A u \in Sessions : u \in Threads  BY DEF Threads
    <3>2. ASSUME NEW u \in Sessions, u # s
          PROVE  /\ at'[u] = at[u] /\ started'[u] = started[u] /\ value'[u] = value[u]
                 /\ resumeAfterYield'[u] = resumeAfterYield[u] /\ pc'[u] = pc[u]
      BY <3>1, <3>2, <2>6, <2>10, <1>0
    <3>3. pc'[s] = "pull"  BY <1>0, <2>6
    <3>4. Yields(s)'  BY <2>10, <2>3, <3>3 DEF Yields
    <3>5. \A u \in Sessions \ {s} : Yields(u)'  BY <3>2, YieldsAll, YieldsKept DEF FrameInv
    <3>6. QED  BY <3>4, <3>5, YieldsAll
  <2>15. CloseInv'
    <3>1. pc[s] \notin InCancel /\ "pull" \notin InCancel
      BY <1>0 DEF InCancel, Signalling, Resuming
    <3>2. QED
      BY <3>1, <2>6, <1>0 DEF FrameInv, CloseInv, Threads, wakeup, subscriber
  <2>16. QuietInv'
    BY <2>6, <2>9, <1>0 DEF FrameInv, QuietInv, Quiet, Cancels, Threads, wakeup, subscriber
  <2>17. WakeupInv'
    BY <2>9, <2>10, <1>0 DEF FrameInv, WakeupInv, Ready, subscriber
  <2>18. StagedInv' /\ PendingCount'
    <3>1. StagedInv'  BY <2>3, <2>10, <1>0 DEF FrameInv, StagedInv, subscriber
    <3>2. PendingCount'  BY <2>10, <1>0 DEF FrameInv, PendingCount, Counted, subscriber
    <3>3. QED  BY <3>1, <3>2
  <2>19. ActiveResumes'
    BY <2>9, <1>0 DEF FrameInv, ActiveResumes, Resuming, wakeup
  <2>20. QED
    BY <2>5, <2>7, <2>11, <2>12, <2>13, <2>14, <2>15, <2>16, <2>17, <2>18, <2>19 DEF FrameInv
<1>3. QED  BY <1>1, <1>2

(* The end of the resume in Next keeps FrameInv.                           *)
LEMMA EndPullFrame ==
    ASSUME FrameInv, NEW s \in Sessions, EndPull(s)
    PROVE  FrameInv'
<1>0. TypeOK /\ s \in Threads /\ target[s] = s /\ pc[s] = "pulled" /\ s \in Uses(s, Holding)
  BY DEF FrameInv, Threads, ThreadsInv, EndPull, Uses, Holding
<1>1. Moves(s, "wait", s)  BY <1>0, GotoMoves DEF EndPull, locals
<1>2. resumeMutex' = [resumeMutex EXCEPT ![s] = NoThread]  BY DEF EndPull
<1>3. UNCHANGED <<service, subscriber, wakeup, at, event, isTerminal, value, started,
                  resumeAfterYield, locals, history>>
  BY DEF EndPull
<1>4. TypeOK'
  <2>1. pc' \in [Threads -> Labels]  BY <1>0, <1>1 DEF TypeOK, Moves, Labels
  <2>2. resumeMutex' \in [Sessions -> Threads \cup {NoThread}]  BY <1>0, <1>2 DEF TypeOK
  <2>3. QED
    BY <2>1, <2>2, <1>0, <1>3 DEF TypeOK, service, subscriber, wakeup, locals, history
<1>5. \A v \in Threads : /\ pc'[v] = IF v = s THEN "wait" ELSE pc[v]
                         /\ target'[v] = target[v]
  BY <1>0, <1>1 DEF TypeOK, Moves
<1>6. ThreadsInv'
  <2>1. "wait" \in Labels \ {"idle", "exit", "deliver", "closing"} /\ message' = message
    BY <1>3 DEF Labels, locals
  <2>2. QED  BY <2>1, <1>5, ConsumerThreads DEF FrameInv
<1>7. \A u \in Sessions :
          Uses(u, Holding)' = Uses(u, Holding) \ (IF u = s THEN {s} ELSE {})
  <2>1. pc[s] \in Holding /\ "wait" \notin Holding  BY <1>0 DEF Holding
  <2>2. QED  BY <2>1, <1>0, <1>1, UsesLost
<1>8. \A u \in Sessions :
          /\ Uses(u, Running)' = Uses(u, Running)
          /\ Uses(u, {"resume"})' = Uses(u, {"resume"})
          /\ Uses(u, Waking)' = Uses(u, Waking)
          /\ Uses(u, Resuming)' = Uses(u, Resuming)
          /\ Uses(u, InCancel)' = Uses(u, InCancel)
  <2>1. /\ pc[s] \notin Running /\ pc[s] \notin {"resume"} /\ pc[s] \notin Waking
        /\ pc[s] \notin Resuming /\ pc[s] \notin InCancel
        /\ "wait" \notin Running /\ "wait" \notin {"resume"} /\ "wait" \notin Waking
        /\ "wait" \notin Resuming /\ "wait" \notin InCancel
    BY <1>0 DEF Running, Waking, Resuming, InCancel, Signalling
  <2>2. QED  BY <2>1, <1>0, <1>1, UsesKept
<1>9. MutexInv'
  BY <1>0, <1>2, <1>7, MutexReleased DEF FrameInv
<1>10. RunInv' /\ PermitInv'
  <2>1. RunInv'  BY <1>3, <1>8 DEF FrameInv, RunInv
  <2>2. PermitInv'
    <3>1. at' = at /\ continuation' = continuation  BY <1>3 DEF wakeup
    <3>2. \A u \in Sessions : Uses(u, {"resume"})' = Uses(u, {"resume"})  BY <1>8
    <3>3. QED  BY <3>1, <3>2 DEF FrameInv, PermitInv
  <2>3. QED  BY <2>1, <2>2
<1>11. YieldInv'
  <2>1. UNCHANGED <<at, started, resumeAfterYield, value>>  BY <1>3
  <2>2. \A u \in Sessions : pc'[u] = IF u = s THEN "wait" ELSE pc[u]  BY <1>5 DEF Threads
  <2>3. Yields(s)'
    <3>1. Yields(s)  BY <1>0, YieldsAll DEF FrameInv
    <3>2. pc'[s] = "wait" /\ pc[s] = "pulled"  BY <1>0, <2>2
    <3>3. QED  BY <1>0, <2>1, <3>1, <3>2, YieldsMoved
  <2>4. \A u \in Sessions \ {s} : Yields(u)'
    BY <2>1, <2>2, YieldsAll, YieldsKept DEF FrameInv
  <2>5. QED  BY <2>3, <2>4, YieldsAll
<1>12. CloseInv'
  <2>1. pc[s] \notin InCancel /\ "wait" \notin InCancel
    BY <1>0 DEF InCancel, Signalling, Resuming
  <2>2. QED
    BY <2>1, <1>3, <1>5 DEF FrameInv, CloseInv, Threads, wakeup, subscriber
<1>13. QuietInv'
  BY <1>3, <1>5, <1>8 DEF FrameInv, QuietInv, Quiet, Cancels, Threads, wakeup, subscriber
<1>14. WakeupInv' /\ StagedInv' /\ PendingCount'
  BY <1>3, <1>8 DEF FrameInv, WakeupInv, Ready, StagedInv, PendingCount, Counted, subscriber
<1>15. ActiveResumes'
  BY <1>3, <1>8 DEF FrameInv, ActiveResumes, Resuming, wakeup
<1>q. QED
  BY <1>4, <1>6, <1>9, <1>10, <1>11, <1>12, <1>13, <1>14, <1>15 DEF FrameInv

(* Taking the yielded value keeps FrameInv.                                *)
LEMMA TakeValueFrame ==
    ASSUME FrameInv, NEW s \in Sessions, TakeValue(s)
    PROVE  FrameInv'
<1>0. /\ TypeOK /\ s \in Threads /\ target[s] = s /\ pc[s] = "wait"
      /\ value[s] \in Nat /\ at[s] = "yield"
  <2>1. TypeOK /\ s \in Threads /\ target[s] = s  BY DEF FrameInv, Threads, ThreadsInv
  <2>2. pc[s] = "wait" /\ value[s] # NoEvent  BY DEF TakeValue
  <2>3. value[s] \in Nat  BY <2>1, <2>2 DEF TypeOK
  <2>4. at[s] = "yield"  BY <2>2 DEF FrameInv, YieldInv
  <2>5. QED  BY <2>1, <2>2, <2>3, <2>4
<1>1. Moves(s, "write", s)  BY <1>0, GotoMoves DEF TakeValue, locals
<1>2. /\ value' = [value EXCEPT ![s] = NoEvent]
      /\ resumeAfterYield' = [resumeAfterYield EXCEPT ![s] = TRUE]
      /\ pending' = [pending EXCEPT ![s] = IF value[s] = Snapshot THEN @ ELSE @ - 1]
      /\ delivered' = [delivered EXCEPT ![s] = Append(@, value[s])]
  BY DEF TakeValue, RecordDeliveredEvent
<1>3. UNCHANGED <<service, task, base, events, closed, cancelled, wakeup, at, event,
                  isTerminal, resumeMutex, started, locals, log, outcome, cut>>
  BY DEF TakeValue
<1>4. \A u \in Sessions : /\ pending'[u] = Len(events[u]) + Counted(event[u]) + Counted(value'[u])
                          /\ pending'[u] \in Nat
  <2>0. TAKE u \in Sessions
  <2>1. pending[u] = Len(events[u]) + Counted(event[u]) + Counted(value[u])
    BY DEF FrameInv, PendingCount
  <2>2. /\ Len(events[u]) \in Nat /\ Counted(event[u]) \in Nat /\ Counted(value[u]) \in Nat
        /\ pending[u] \in Nat
    BY <1>0 DEF TypeOK, Counted
  <2>3. CASE u # s
    <3>1. pending'[u] = pending[u] /\ value'[u] = value[u]  BY <2>3, <1>0, <1>2 DEF TypeOK
    <3>2. QED  BY <3>1, <2>1, <2>2
  <2>4. CASE u = s /\ value[s] = Snapshot
    <3>1. pending'[u] = pending[u] /\ value'[u] = NoEvent  BY <2>4, <1>0, <1>2 DEF TypeOK
    <3>2. Counted(value[u]) = 0 /\ Counted(NoEvent) = 0  BY <2>4 DEF Counted, NoEvent, Snapshot
    <3>3. QED  BY <3>1, <3>2, <2>1, <2>2
  <2>5. CASE u = s /\ value[s] # Snapshot
    <3>1. pending'[u] = pending[u] - 1 /\ value'[u] = NoEvent  BY <2>5, <1>0, <1>2 DEF TypeOK
    <3>2. Counted(value[u]) = 1 /\ Counted(NoEvent) = 0
      BY <1>0, <2>5 DEF Counted, NoEvent, Snapshot
    <3>3. Counted(value'[u]) = 0  BY <3>1, <3>2
    <3>4. pending[u] = (Len(events[u]) + Counted(event[u])) + 1  BY <3>2, <2>1
    <3>5. Len(events[u]) + Counted(event[u]) \in Nat  BY <2>2
    <3>6. pending'[u] = Len(events[u]) + Counted(event[u])  BY <3>1, <3>4, <3>5
    <3>7. QED  BY <3>3, <3>5, <3>6
  <2>6. QED  BY <2>3, <2>4, <2>5
<1>5. TypeOK'
  <2>1. pc' \in [Threads -> Labels]  BY <1>0, <1>1 DEF TypeOK, Moves, Labels
  <2>2. value' \in [Sessions -> Nat \cup {NoEvent}]  BY <1>0, <1>2 DEF TypeOK
  <2>3. resumeAfterYield' \in [Sessions -> BOOLEAN]  BY <1>0, <1>2 DEF TypeOK
  <2>4. pending' \in [Sessions -> Nat]  BY <1>0, <1>2, <1>4 DEF TypeOK
  <2>5. delivered' \in [Sessions -> Seq(Nat)]  BY <1>0, <1>2 DEF TypeOK
  <2>6. QED
    BY <2>1, <2>2, <2>3, <2>4, <2>5, <1>0, <1>3 DEF TypeOK, service, wakeup, locals
<1>6. \A v \in Threads : /\ pc'[v] = IF v = s THEN "write" ELSE pc[v]
                         /\ target'[v] = target[v]
  BY <1>0, <1>1 DEF TypeOK, Moves
<1>7. ThreadsInv'
  <2>1. "write" \in Labels \ {"idle", "exit", "deliver", "closing"} /\ message' = message
    BY <1>3 DEF Labels, locals
  <2>2. QED  BY <2>1, <1>6, ConsumerThreads DEF FrameInv
<1>8. \A u \in Sessions :
          /\ Uses(u, Holding)' = Uses(u, Holding)
          /\ Uses(u, Running)' = Uses(u, Running)
          /\ Uses(u, {"resume"})' = Uses(u, {"resume"})
          /\ Uses(u, Waking)' = Uses(u, Waking)
          /\ Uses(u, Resuming)' = Uses(u, Resuming)
          /\ Uses(u, InCancel)' = Uses(u, InCancel)
  <2>1. /\ pc[s] \notin Holding /\ pc[s] \notin Running /\ pc[s] \notin {"resume"}
        /\ pc[s] \notin Waking /\ pc[s] \notin Resuming /\ pc[s] \notin InCancel
        /\ "write" \notin Holding /\ "write" \notin Running /\ "write" \notin {"resume"}
        /\ "write" \notin Waking /\ "write" \notin Resuming /\ "write" \notin InCancel
    BY <1>0 DEF Holding, Running, Waking, Resuming, InCancel, Signalling
  <2>2. QED  BY <2>1, <1>0, <1>1, UsesKept
<1>9. MutexInv' /\ RunInv' /\ PermitInv'
  BY <1>3, <1>8, UsersKept DEF FrameInv, wakeup
<1>10. YieldInv'
  <2>1. UNCHANGED <<at, started>>  BY <1>3
  <2>2. \A u \in Sessions : pc'[u] = IF u = s THEN "write" ELSE pc[u]  BY <1>6 DEF Threads
  <2>3. /\ value'[s] = NoEvent
        /\ \A u \in Sessions : u # s => /\ value'[u] = value[u]
                                        /\ resumeAfterYield'[u] = resumeAfterYield[u]
    BY <1>0, <1>2 DEF TypeOK
  <2>4. Yields(s)'
    <3>1. Yields(s)  BY <1>0, YieldsAll DEF FrameInv
    <3>2. at[s] \in {"yield", "destroyed"}  BY <3>1, <1>0 DEF Yields
    <3>3. QED  BY <1>0, <2>1, <2>2, <2>3, <3>1, <3>2 DEF Yields
  <2>5. \A u \in Sessions \ {s} : Yields(u)'
    BY <2>1, <2>2, <2>3, YieldsAll, YieldsKept DEF FrameInv
  <2>6. QED  BY <2>4, <2>5, YieldsAll
<1>11. CloseInv'
  <2>1. pc[s] \notin InCancel /\ "write" \notin InCancel
    BY <1>0 DEF InCancel, Signalling, Resuming
  <2>2. QED
    BY <2>1, <1>3, <1>6 DEF FrameInv, CloseInv, Threads, wakeup
<1>12. QuietInv'
  BY <1>3, <1>6, <1>8 DEF FrameInv, QuietInv, Quiet, Cancels, Threads, wakeup
<1>13. WakeupInv' /\ StagedInv'
  BY <1>3, <1>8 DEF FrameInv, WakeupInv, Ready, StagedInv
<1>14. PendingCount'  BY <1>3, <1>4 DEF PendingCount
<1>15. ActiveResumes'
  BY <1>3, <1>8 DEF FrameInv, ActiveResumes, Resuming, wakeup
<1>q. QED
  BY <1>5, <1>7, <1>9, <1>10, <1>11, <1>12, <1>13, <1>14, <1>15 DEF FrameInv

-----------------------------------------------------------------------------
(* Closing and queueing: the subscriber of s may only become ready while   *)
(* a signaller is put on its way.                                          *)

(* A step that queues an update, or closes a subscriber, and turns to      *)
(* SignalSubscriber keeps FrameInv.                                        *)
LEMMA NotifyStep ==
    ASSUME FrameInv, NEW t \in Threads, NEW s \in Sessions, Moves(t, "signal", s),
           \/ t \in Publishers /\ pc[t] = "deliver"
           \/ t = Closer /\ pc[t] = "closing"
           \/ t \in Cancellers \cup Sessions /\ pc[t] = "close" /\ target[t] = s,
           TypeOK', PendingCount',
           \A u \in Sessions : closed[u] => closed'[u],
           t \in Cancellers \cup Sessions => closed'[s],
           \A u \in Sessions : u # s => closed'[u] = closed[u] /\ events'[u] = events[u],
           UNCHANGED <<message, cancelled, wakeup, frame>>
    PROVE  FrameInv'
<1>t. TypeOK  BY DEF FrameInv
<1>1. pc[t] \in {"deliver", "closing", "close"}  OBVIOUS
<1>2. \A v \in Threads : /\ pc'[v] = IF v = t THEN "signal" ELSE pc[v]
                         /\ target'[v] = IF v = t THEN s ELSE target[v]
  BY <1>t DEF TypeOK, Moves
<1>3. ThreadsInv'
  BY <1>2, ThreadsAssumption DEF FrameInv, ThreadsInv, Threads, Signalling, InCancel
<1>4. \A u \in Sessions :
          /\ Uses(u, Holding)' = Uses(u, Holding)
          /\ Uses(u, Running)' = Uses(u, Running)
          /\ Uses(u, {"resume"})' = Uses(u, {"resume"})
          /\ Uses(u, Resuming)' = Uses(u, Resuming)
  <2>1. /\ pc[t] \notin Holding /\ pc[t] \notin Running /\ pc[t] \notin {"resume"}
        /\ pc[t] \notin Resuming
        /\ "signal" \notin Holding /\ "signal" \notin Running /\ "signal" \notin {"resume"}
        /\ "signal" \notin Resuming
    BY <1>1 DEF Holding, Running, Resuming
  <2>2. QED  BY <2>1, <1>t, UsesKept
<1>5. \A u \in Sessions : Uses(u, Waking)' = Uses(u, Waking) \cup (IF u = s THEN {t} ELSE {})
  BY <1>1, <1>t, UsesGained DEF Waking
<1>6. \A u \in Sessions : Cancels(u)' = Cancels(u)
  <2>0. TAKE u \in Sessions
  <2>1. \A v \in Cancellers \cup {u} : v \in Uses(u, InCancel)' <=> v \in Uses(u, InCancel)
    <3>1. "signal" \in InCancel /\ "close" \in InCancel  BY DEF InCancel, Signalling
    <3>2. \A v \in Cancellers \cup {u} : v \in Threads /\ v \notin Publishers /\ v # Closer
      BY ThreadsAssumption DEF Threads
    <3>3. QED  BY <1>2, <3>1, <3>2 DEF Uses
  <2>2. QED  BY <2>1 DEF Cancels
<1>7. MutexInv' /\ RunInv' /\ PermitInv'
  BY <1>4, UsersKept DEF FrameInv, frame, wakeup
<1>8. YieldInv'
  BY <1>1, <1>2 DEF FrameInv, YieldInv, Threads, frame
<1>9. CloseInv'
  <2>1. \A v \in Cancellers \cup Sessions :
            v \in Threads /\ (pc[v] \in InCancel => target[v] \in Sessions)
    BY CancelTarget DEF FrameInv
  <2>2. "signal" \in InCancel /\ "close" \in InCancel  BY DEF InCancel, Signalling
  <2>3. t \in Cancellers \cup Sessions => pc[t] = "close" /\ target[t] = s /\ closed'[s]
    BY ThreadsAssumption
  <2>4. QED  BY <1>2, <2>1, <2>2, <2>3 DEF FrameInv, CloseInv, wakeup
<1>10. QuietInv'
  BY <1>1, <1>2, <1>4, <1>6 DEF FrameInv, QuietInv, Quiet, Threads, wakeup
<1>11. WakeupInv'
  BY <1>5 DEF FrameInv, WakeupInv, Ready, frame
<1>12. StagedInv'  BY DEF FrameInv, StagedInv, frame
<1>13. ActiveResumes'
  <2>1. activeResumes' = activeResumes  BY DEF wakeup
  <2>2. \A u \in Sessions : activeResumes[u] = Cardinality(Uses(u, Resuming))
    BY DEF FrameInv, ActiveResumes, Resuming
  <2>3. \A u \in Sessions : activeResumes'[u] = Cardinality(Uses(u, Resuming)')
    BY <1>4, <2>1, <2>2
  <2>4. QED  BY <2>3 DEF ActiveResumes, Resuming
<1>q. QED
  BY <1>3, <1>7, <1>8, <1>9, <1>10, <1>11, <1>12, <1>13 DEF FrameInv

(* Queueing an update for one subscriber keeps FrameInv.                   *)
LEMMA DeliverFrame ==
    ASSUME FrameInv, NEW p \in Publishers, NEW s \in Sessions, Deliver(p, s)
    PROVE  FrameInv'
<1>0. TypeOK /\ p \in Threads /\ pc[p] = "deliver" /\ message[p] \in Nat \ {0}
  <2>1. TypeOK /\ p \in Threads /\ pc[p] = "deliver"  BY DEF FrameInv, Threads, Deliver
  <2>2. message[p] > Snapshot  BY <2>1 DEF FrameInv, ThreadsInv
  <2>3. message[p] \in Nat \cup {NoEvent}  BY <2>1 DEF TypeOK
  <2>4. QED  BY <2>1, <2>2, <2>3 DEF Snapshot, NoEvent
<1>1. Moves(p, "signal", s)  BY DEF Deliver, Goto, Moves
<1>2. /\ events' = [events EXCEPT ![s] = IF closed[s] THEN @ ELSE Append(@, message[p])]
      /\ pending' = [pending EXCEPT ![s] = IF closed[s] THEN @ ELSE @ + 1]
  <2>1. CASE closed[s]
    <3>1. events' = events /\ pending' = pending  BY <2>1 DEF Deliver
    <3>2. QED  BY <2>1, <3>1, <1>0 DEF TypeOK
  <2>2. CASE ~closed[s]
    <3>1. /\ events' = [events EXCEPT ![s] = Append(@, message[p])]
          /\ pending' = [pending EXCEPT ![s] = @ + 1]
      BY <2>2 DEF Deliver
    <3>2. QED  BY <2>2, <3>1
  <2>3. QED  BY <2>1, <2>2
<1>3. UNCHANGED <<service, task, base, cancelled, wakeup, frame, message, history>>
  BY DEF Deliver
<1>4. closed' \in [Sessions -> BOOLEAN] /\ \A u \in Sessions : closed[u] => closed'[u]
  <2>1. CASE closed[s]  BY <2>1, <1>0 DEF Deliver, TypeOK
  <2>2. CASE ~closed[s]
    <3>1. closed' = [closed EXCEPT ![s] = log[task[s]][message[p]] \in Terminal]
      BY <2>2 DEF Deliver
    <3>2. closed' \in [Sessions -> BOOLEAN]  BY <3>1, <1>0 DEF TypeOK
    <3>3. \A u \in Sessions : u # s => closed'[u] = closed[u]  BY <3>1, <1>0 DEF TypeOK
    <3>4. QED  BY <2>2, <3>2, <3>3
  <2>3. QED  BY <2>1, <2>2
<1>5. \A u \in Sessions : u # s => closed'[u] = closed[u] /\ events'[u] = events[u]
  <2>1. \A u \in Sessions : u # s => closed'[u] = closed[u]  BY <1>0 DEF Deliver, TypeOK
  <2>2. QED  BY <2>1, <1>0, <1>2 DEF TypeOK
<1>6. TypeOK'
  <2>1. pc' \in [Threads -> Labels]  BY <1>0, <1>1 DEF TypeOK, Moves, Labels
  <2>2. target' \in [Threads -> Sessions \cup {NoThread}]  BY <1>0, <1>1 DEF TypeOK, Moves
  <2>3. events' \in [Sessions -> Seq(Nat \ {0})]  BY <1>0, <1>2 DEF TypeOK
  <2>4. pending' \in [Sessions -> Nat]  BY <1>0, <1>2 DEF TypeOK
  <2>5. todo' \in [Publishers \cup {Closer} -> SUBSET Sessions]  BY <1>0 DEF TypeOK, Deliver
  <2>6. QED
    BY <2>1, <2>2, <2>3, <2>4, <2>5, <1>0, <1>3, <1>4 DEF TypeOK, service, wakeup, frame, history
<1>7. PendingCount'
  <2>1. ASSUME NEW u \in Sessions
        PROVE  pending'[u] = Len(events'[u]) + Counted(event[u]) + Counted(value[u])
    <3>1. pending[u] = Len(events[u]) + Counted(event[u]) + Counted(value[u])
      BY DEF FrameInv, PendingCount
    <3>2. /\ events[u] \in Seq(Nat \ {0}) /\ Len(events[u]) \in Nat
          /\ Counted(event[u]) \in Nat /\ Counted(value[u]) \in Nat
      BY <1>0 DEF TypeOK, Counted
    <3>3. CASE u # s \/ closed[s]
      <4>1. events'[u] = events[u] /\ pending'[u] = pending[u]
        BY <3>3, <1>0, <1>2 DEF TypeOK
      <4>2. QED  BY <3>1, <4>1
    <3>4. CASE u = s /\ ~closed[s]
      <4>1. events'[u] = Append(events[u], message[p]) /\ pending'[u] = pending[u] + 1
        BY <3>4, <1>0, <1>2 DEF TypeOK
      <4>2. Len(events'[u]) = Len(events[u]) + 1  BY <4>1, <3>2
      <4>3. QED  BY <3>1, <3>2, <4>1, <4>2
    <3>5. QED  BY <3>3, <3>4
  <2>2. event' = event /\ value' = value  BY <1>3 DEF frame
  <2>3. QED  BY <2>1, <2>2 DEF PendingCount
<1>8. p \notin Cancellers \cup Sessions  BY ThreadsAssumption
<1>q. QED  BY <1>0, <1>1, <1>3, <1>4, <1>5, <1>6, <1>7, <1>8, NotifyStep

(* Closing one subscriber in Shutdown keeps FrameInv.                      *)
LEMMA ShutdownCloseFrame ==
    ASSUME FrameInv, NEW s \in Sessions, ShutdownClose(s)
    PROVE  FrameInv'
<1>0. TypeOK /\ Closer \in Threads /\ pc[Closer] = "closing"
  BY DEF FrameInv, Threads, ShutdownClose
<1>1. Moves(Closer, "signal", s)  BY DEF ShutdownClose, Goto, Moves
<1>2. closed' = [closed EXCEPT ![s] = TRUE]  BY DEF ShutdownClose
<1>3. UNCHANGED <<service, task, base, events, pending, cancelled, wakeup, frame,
                  message, history>>
  BY DEF ShutdownClose
<1>4. \A u \in Sessions : closed[u] => closed'[u]  BY <1>0, <1>2 DEF TypeOK
<1>5. \A u \in Sessions : u # s => closed'[u] = closed[u] /\ events'[u] = events[u]
  BY <1>0, <1>2, <1>3 DEF TypeOK
<1>6. TypeOK'
  <2>1. pc' \in [Threads -> Labels]  BY <1>0, <1>1 DEF TypeOK, Moves, Labels
  <2>2. target' \in [Threads -> Sessions \cup {NoThread}]  BY <1>0, <1>1 DEF TypeOK, Moves
  <2>3. closed' \in [Sessions -> BOOLEAN]  BY <1>0, <1>2 DEF TypeOK
  <2>4. todo' \in [Publishers \cup {Closer} -> SUBSET Sessions]
    BY <1>0 DEF TypeOK, ShutdownClose
  <2>5. QED
    BY <2>1, <2>2, <2>3, <2>4, <1>0, <1>3 DEF TypeOK, service, wakeup, frame, history
<1>7. PendingCount'
  BY <1>3 DEF FrameInv, PendingCount, Counted, frame
<1>8. Closer \notin Cancellers \cup Sessions  BY ThreadsAssumption
<1>q. QED  BY <1>0, <1>1, <1>3, <1>4, <1>5, <1>6, <1>7, <1>8, NotifyStep

-----------------------------------------------------------------------------
(* SubscriptionSession::Cancel and the destructor.                         *)

(* Closing the subscriber in RemoveSubscriber keeps FrameInv.              *)
LEMMA RemoveSubscriberCloseFrame ==
    ASSUME FrameInv, NEW t \in Sessions \cup Cancellers, RemoveSubscriberClose(t)
    PROVE  FrameInv'
<1>0. TypeOK /\ t \in Threads /\ pc[t] = "close"
  BY DEF FrameInv, Threads, RemoveSubscriberClose
<1>1. PICK s \in Sessions : s = target[t]
  BY <1>0, CancelTarget DEF FrameInv, InCancel
<1>2. Moves(t, "signal", s)  BY <1>0, <1>1, GotoMoves DEF RemoveSubscriberClose, locals
<1>3. closed' = [closed EXCEPT ![s] = TRUE]  BY <1>1 DEF RemoveSubscriberClose
<1>4. UNCHANGED <<service, task, base, events, pending, cancelled, wakeup, frame,
                  locals, history>>
  BY DEF RemoveSubscriberClose
<1>5. closed'[s] /\ \A u \in Sessions : closed[u] => closed'[u]
  BY <1>0, <1>3 DEF TypeOK
<1>6. \A u \in Sessions : u # s => closed'[u] = closed[u] /\ events'[u] = events[u]
  BY <1>0, <1>3, <1>4 DEF TypeOK
<1>7. TypeOK'
  <2>1. pc' \in [Threads -> Labels]  BY <1>0, <1>2 DEF TypeOK, Moves, Labels
  <2>2. closed' \in [Sessions -> BOOLEAN]  BY <1>0, <1>3 DEF TypeOK
  <2>3. QED
    BY <2>1, <2>2, <1>0, <1>4 DEF TypeOK, service, wakeup, frame, locals, history
<1>8. PendingCount'
  BY <1>4 DEF FrameInv, PendingCount, Counted, frame
<1>9. UNCHANGED <<message, cancelled, wakeup, frame>>  BY <1>4 DEF locals
<1>q. QED  BY <1>0, <1>1, <1>2, <1>5, <1>6, <1>7, <1>8, <1>9, NotifyStep

(* Where Cancel returns to.                                                *)
LEMMA AfterCancelLabel ==
    ASSUME NEW t
    PROVE  /\ AfterCancel(t) \in {"destroy", "exit"}
           /\ AfterCancel(t) = "destroy" <=> t \in Sessions
  BY DEF AfterCancel

(* The exchange of the cancelled flag keeps FrameInv: only one caller of   *)
(* Cancel goes on.                                                         *)
LEMMA ExchangeCancelledFrame ==
    ASSUME FrameInv, NEW t \in Threads, NEW s \in Sessions, ExchangeCancelled(t, s),
           \/ t = s /\ pc[t] \in {"write", "leave"}
           \/ t \in Cancellers /\ pc[t] = "idle",
           outcome' \in [Sessions -> {"open", "ended", "aborted"}]
    PROVE  FrameInv'
<1>0. TypeOK /\ t \in Cancellers \cup Sessions /\ (t \in Sessions => t = s)
  BY ThreadsAssumption DEF FrameInv
<1>1. PICK label \in {"close", "destroy", "exit"} :
          /\ Moves(t, label, s)
          /\ label = "close" <=> ~cancelled[s]
          /\ label = "destroy" => t \in Sessions
          /\ label = "exit" => t \in Cancellers
  BY <1>0, AfterCancelLabel DEF ExchangeCancelled, Goto, Moves
<1>2. pc[t] \in {"write", "leave", "idle"}  OBVIOUS
<1>3. cancelled' = [cancelled EXCEPT ![s] = TRUE]  BY DEF ExchangeCancelled
<1>4. UNCHANGED <<service, task, base, events, closed, pending, wakeup, frame, todo,
                  message, log, delivered, cut>>
  BY DEF ExchangeCancelled
<1>5. TypeOK'
  <2>1. pc' \in [Threads -> Labels]  BY <1>0, <1>1 DEF TypeOK, Moves, Labels
  <2>2. target' \in [Threads -> Sessions \cup {NoThread}]  BY <1>0, <1>1 DEF TypeOK, Moves
  <2>3. cancelled' \in [Sessions -> BOOLEAN]  BY <1>0, <1>3 DEF TypeOK
  <2>4. QED
    BY <2>1, <2>2, <2>3, <1>0, <1>4 DEF TypeOK, service, wakeup, frame
<1>6. \A v \in Threads : /\ pc'[v] = IF v = t THEN label ELSE pc[v]
                         /\ target'[v] = IF v = t THEN s ELSE target[v]
  BY <1>0, <1>1 DEF TypeOK, Moves
<1>7. ThreadsInv'
  BY <1>0, <1>1, <1>4, <1>6, ThreadsAssumption
     DEF FrameInv, ThreadsInv, Threads, InCancel
<1>8. \A u \in Sessions :
          /\ Uses(u, Holding)' = Uses(u, Holding)
          /\ Uses(u, Running)' = Uses(u, Running)
          /\ Uses(u, {"resume"})' = Uses(u, {"resume"})
          /\ Uses(u, Waking)' = Uses(u, Waking)
          /\ Uses(u, Resuming)' = Uses(u, Resuming)
  <2>1. /\ pc[t] \notin Holding /\ pc[t] \notin Running /\ pc[t] \notin {"resume"}
        /\ pc[t] \notin Waking /\ pc[t] \notin Resuming
        /\ label \notin Holding /\ label \notin Running /\ label \notin {"resume"}
        /\ label \notin Waking /\ label \notin Resuming
    BY <1>1, <1>2 DEF Holding, Running, Waking, Resuming
  <2>2. QED  BY <2>1, <1>0, <1>1, UsesKept
<1>9. \A u \in Sessions :
          Cancels(u)' = Cancels(u) \cup (IF u = s /\ label = "close" THEN {t} ELSE {})
  <2>0. TAKE u \in Sessions
  <2>1. pc[t] \notin InCancel /\ (label \in InCancel <=> label = "close")
    BY <1>1, <1>2 DEF InCancel, Signalling, Resuming
  <2>2. Uses(u, InCancel)' =
            (Uses(u, InCancel) \ {t}) \cup (IF s = u /\ label \in InCancel THEN {t} ELSE {})
    BY <1>0, <1>1, MoveUses
  <2>3. t \notin Uses(u, InCancel)  BY <2>1, UsesMember
  <2>4. u = s => t \in Cancellers \cup {u}  BY <1>0
  <2>5. QED  BY <2>1, <2>2, <2>3, <2>4 DEF Cancels
<1>10. MutexInv' /\ RunInv' /\ PermitInv'
  BY <1>4, <1>8, UsersKept DEF FrameInv, wakeup, frame
<1>11. YieldInv'
  BY <1>1, <1>2, <1>4, <1>6 DEF FrameInv, YieldInv, Threads, frame
<1>12. \A u \in Sessions : cancelled'[u] <=> cancelled[u] \/ u = s
  BY <1>0, <1>3 DEF TypeOK
<1>13. CloseInv'
  <2>1. \A v \in Cancellers \cup Sessions :
            v \in Threads /\ (pc[v] \in InCancel => target[v] \in Sessions)
    BY CancelTarget DEF FrameInv
  <2>2. label \in InCancel => label = "close"
    BY <1>1 DEF InCancel, Signalling, Resuming
  <2>3. QED  BY <1>4, <1>6, <1>12, <2>1, <2>2 DEF FrameInv, CloseInv, wakeup
<1>14. QuietInv'
  <2>1. \A u \in Sessions : /\ pc'[u] = "gone" => pc[u] = "gone"
                            /\ pc'[u] = "destroy" => pc[u] = "destroy" \/ u = s
    BY <1>0, <1>1, <1>6 DEF Threads
  <2>2. \A u \in Sessions : Quiet(u)' <=> Quiet(u)  BY <1>4, <1>8 DEF Quiet, wakeup
  <2>3. QED  BY <1>1, <1>9, <1>12, <2>1, <2>2 DEF FrameInv, QuietInv
<1>15. WakeupInv' /\ StagedInv' /\ PendingCount'
  BY <1>4, <1>8 DEF FrameInv, WakeupInv, Ready, StagedInv, PendingCount, Counted, frame
<1>16. ActiveResumes'
  BY <1>4, <1>8 DEF FrameInv, ActiveResumes, Resuming, wakeup
<1>q. QED
  BY <1>5, <1>7, <1>10, <1>11, <1>13, <1>14, <1>15, <1>16 DEF FrameInv

(* The ways into Cancel keep FrameInv.                                     *)
LEMMA CancelFrame ==
    ASSUME FrameInv, NEW s \in Sessions,
           \/ WriteFails(s)
           \/ LeaveSession(s)
           \/ \E c \in Cancellers : CancelFromOutside(c, s)
    PROVE  FrameInv'
<1>0. s \in Threads /\ Cancellers \subseteq Threads  BY DEF Threads
<1>1. outcome' \in [Sessions -> {"open", "ended", "aborted"}]
  BY DEF WriteFails, LeaveSession, CancelFromOutside, FrameInv, TypeOK
<1>2. CASE WriteFails(s)
  <2>1. ExchangeCancelled(s, s) /\ pc[s] \in {"write", "leave"}  BY <1>2 DEF WriteFails
  <2>2. QED  BY <1>0, <1>1, <2>1, ExchangeCancelledFrame
<1>3. CASE LeaveSession(s)
  <2>1. ExchangeCancelled(s, s) /\ pc[s] \in {"write", "leave"}  BY <1>3 DEF LeaveSession
  <2>2. QED  BY <1>0, <1>1, <2>1, ExchangeCancelledFrame
<1>4. ASSUME NEW c \in Cancellers, CancelFromOutside(c, s)
      PROVE  FrameInv'
  <2>1. ExchangeCancelled(c, s) /\ pc[c] = "idle"  BY <1>4 DEF CancelFromOutside
  <2>2. QED  BY <1>0, <1>1, <2>1, ExchangeCancelledFrame
<1>5. QED  BY <1>2, <1>3, <1>4

(* Erasing the subscriber from the service keeps FrameInv.                 *)
LEMMA RemoveSubscriberEraseFrame ==
    ASSUME FrameInv, NEW t \in Sessions \cup Cancellers, RemoveSubscriberErase(t)
    PROVE  FrameInv'
<1>0. TypeOK /\ t \in Threads /\ pc[t] = "erase"
  BY DEF FrameInv, Threads, RemoveSubscriberErase
<1>1. Moves(t, "drain", target[t])  BY <1>0, GotoMoves DEF RemoveSubscriberErase, locals
<1>2. UNCHANGED <<shutdown, latest, publisher, subscriber, wakeup, frame, locals, history>>
  BY DEF RemoveSubscriberErase
<1>3. TypeOK'
  <2>1. pc' \in [Threads -> Labels]  BY <1>0, <1>1 DEF TypeOK, Moves, Labels
  <2>2. subs' \in [Tasks -> SUBSET Sessions]  BY <1>0 DEF TypeOK, RemoveSubscriberErase
  <2>3. QED
    BY <2>1, <2>2, <1>0, <1>2 DEF TypeOK, subscriber, wakeup, frame, locals, history
<1>4. \A v \in Threads : /\ pc'[v] = IF v = t THEN "drain" ELSE pc[v]
                         /\ target'[v] = target[v]
  BY <1>0, <1>1 DEF TypeOK, Moves
<1>5. ThreadsInv'
  BY <1>0, <1>2, <1>4, ThreadsAssumption DEF FrameInv, ThreadsInv, Threads, InCancel, locals
<1>6. \A u \in Sessions :
          /\ Uses(u, Holding)' = Uses(u, Holding)
          /\ Uses(u, Running)' = Uses(u, Running)
          /\ Uses(u, {"resume"})' = Uses(u, {"resume"})
          /\ Uses(u, Waking)' = Uses(u, Waking)
          /\ Uses(u, Resuming)' = Uses(u, Resuming)
          /\ Uses(u, InCancel)' = Uses(u, InCancel)
  <2>1. /\ pc[t] \notin Holding /\ pc[t] \notin Running /\ pc[t] \notin {"resume"}
        /\ pc[t] \notin Waking /\ pc[t] \notin Resuming /\ pc[t] \in InCancel
        /\ "drain" \notin Holding /\ "drain" \notin Running /\ "drain" \notin {"resume"}
        /\ "drain" \notin Waking /\ "drain" \notin Resuming /\ "drain" \in InCancel
    BY <1>0 DEF Holding, Running, Waking, Resuming, InCancel
  <2>2. QED  BY <2>1, <1>0, <1>1, UsesKept
<1>7. MutexInv' /\ RunInv' /\ PermitInv'
  BY <1>2, <1>6, UsersKept DEF FrameInv, wakeup, frame
<1>8. YieldInv'
  BY <1>0, <1>2, <1>4 DEF FrameInv, YieldInv, Threads, frame
<1>9. CloseInv'
  <2>1. pc[t] \in InCancel \ {"close", "signal"}  BY <1>0 DEF InCancel
  <2>2. QED  BY <2>1, <1>2, <1>4, CancelTarget DEF FrameInv, CloseInv, wakeup, subscriber
<1>10. QuietInv'
  BY <1>0, <1>2, <1>4, <1>6
     DEF FrameInv, QuietInv, Quiet, Cancels, Threads, wakeup, subscriber
<1>11. WakeupInv' /\ StagedInv' /\ PendingCount'
  BY <1>2, <1>6 DEF FrameInv, WakeupInv, Ready, StagedInv, PendingCount, Counted, frame, subscriber
<1>12. ActiveResumes'
  BY <1>2, <1>6 DEF FrameInv, ActiveResumes, Resuming, wakeup
<1>q. QED
  BY <1>3, <1>5, <1>7, <1>8, <1>9, <1>10, <1>11, <1>12 DEF FrameInv

(* When a session is about to be destroyed nobody uses its frame.          *)
LEMMA DestroySessionFrame ==
    ASSUME FrameInv, NEW s \in Sessions, DestroySession(s)
    PROVE  FrameInv'
<1>0. TypeOK /\ s \in Threads /\ pc[s] = "destroy" /\ target[s] = s
  BY DEF FrameInv, Threads, ThreadsInv, DestroySession
<1>1. Moves(s, "gone", s)  BY <1>0, GotoMoves DEF DestroySession, locals
<1>2. at' = [at EXCEPT ![s] = "destroyed"]  BY DEF DestroySession
<1>3. UNCHANGED <<service, subscriber, wakeup, event, isTerminal, value, resumeMutex,
                  started, resumeAfterYield, locals, history>>
  BY DEF DestroySession
<1>4. Quiet(s) /\ cancelled[s]
  <2>1. s \notin Uses(s, InCancel)
    BY <1>0 DEF Uses, InCancel, Signalling, Resuming
  <2>2. \A c \in Cancellers : c \notin Uses(s, InCancel)
    BY DEF DestroySession, Uses, InCancel, Signalling, Resuming
  <2>3. Cancels(s) = {}  BY <2>1, <2>2 DEF Cancels
  <2>4. QED  BY <1>0, <2>3 DEF FrameInv, QuietInv
<1>5. Uses(s, Running) = {} /\ Uses(s, {"resume"}) = {}
  <2>1. Uses(s, Resuming) = {}  BY <1>4 DEF Quiet
  <2>2. Uses(s, {"pull", "pulled"}) \subseteq {s}  BY PullsOwnFrame DEF FrameInv
  <2>3. QED  BY <1>0, <2>1, <2>2 DEF Uses, Running, Resuming
<1>6. at[s] \notin Executing  BY <1>5 DEF FrameInv, RunInv
<1>7. TypeOK'
  <2>1. pc' \in [Threads -> Labels]  BY <1>0, <1>1 DEF TypeOK, Moves, Labels
  <2>2. at' \in [Sessions -> Points]  BY <1>0, <1>2 DEF TypeOK, Points
  <2>3. QED
    BY <2>1, <2>2, <1>0, <1>3 DEF TypeOK, service, subscriber, wakeup, locals, history
<1>8. \A v \in Threads : /\ pc'[v] = IF v = s THEN "gone" ELSE pc[v]
                         /\ target'[v] = target[v]
  BY <1>0, <1>1 DEF TypeOK, Moves
<1>9. ThreadsInv'
  BY <1>0, <1>3, <1>8, ThreadsAssumption DEF FrameInv, ThreadsInv, Threads, locals
<1>10. \A u \in Sessions :
          /\ Uses(u, Holding)' = Uses(u, Holding)
          /\ Uses(u, Running)' = Uses(u, Running)
          /\ Uses(u, {"resume"})' = Uses(u, {"resume"})
          /\ Uses(u, Waking)' = Uses(u, Waking)
          /\ Uses(u, Resuming)' = Uses(u, Resuming)
          /\ Uses(u, InCancel)' = Uses(u, InCancel)
  <2>1. /\ pc[s] \notin Holding /\ pc[s] \notin Running /\ pc[s] \notin {"resume"}
        /\ pc[s] \notin Waking /\ pc[s] \notin Resuming /\ pc[s] \notin InCancel
        /\ "gone" \notin Holding /\ "gone" \notin Running /\ "gone" \notin {"resume"}
        /\ "gone" \notin Waking /\ "gone" \notin Resuming /\ "gone" \notin InCancel
    BY <1>0 DEF Holding, Running, Waking, Resuming, InCancel, Signalling
  <2>2. QED  BY <2>1, <1>0, <1>1, UsesKept
<1>11. at'[s] = "destroyed" /\ \A u \in Sessions : u # s => at'[u] = at[u]
  BY <1>0, <1>2 DEF TypeOK
<1>12. MutexInv'  BY <1>3, <1>10 DEF FrameInv, MutexInv
<1>13. RunInv'  BY <1>5, <1>10, <1>11 DEF FrameInv, RunInv, Executing
<1>14. PermitInv'
  <2>1. continuation' = continuation /\ ~continuation[s]  BY <1>3, <1>4 DEF wakeup, Quiet
  <2>2. \A u \in Sessions : Uses(u, {"resume"})' = Uses(u, {"resume"})  BY <1>10
  <2>3. Uses(s, {"resume"})' = {}  BY <2>2, <1>5
  <2>4. QED  BY <2>1, <2>2, <2>3, <1>11 DEF FrameInv, PermitInv
<1>15. YieldInv'
  <2>1. UNCHANGED <<started, resumeAfterYield, value>>  BY <1>3
  <2>2. \A u \in Sessions : pc'[u] = IF u = s THEN "gone" ELSE pc[u]  BY <1>8 DEF Threads
  <2>3. QED  BY <2>1, <2>2, <1>11 DEF FrameInv, YieldInv
<1>16. CloseInv'
  <2>1. "gone" \notin InCancel  BY DEF InCancel, Signalling, Resuming
  <2>2. QED
    BY <2>1, <1>3, <1>8, CancelTarget DEF FrameInv, CloseInv, wakeup, subscriber
<1>17. QuietInv'
  <2>1. \A u \in Sessions : /\ Quiet(u)' <=> Quiet(u)
                            /\ cancelled'[u] = cancelled[u] /\ Cancels(u)' = Cancels(u)
    BY <1>3, <1>10 DEF Quiet, Cancels, wakeup, subscriber
  <2>2. \A u \in Sessions : u # s => pc'[u] = pc[u]  BY <1>8 DEF Threads
  <2>3. QED  BY <1>4, <2>1, <2>2 DEF FrameInv, QuietInv
<1>18. WakeupInv'
  BY <1>3, <1>10, <1>11 DEF FrameInv, WakeupInv, Ready, subscriber
<1>19. StagedInv'
  BY <1>3, <1>6, <1>11 DEF FrameInv, StagedInv, Executing
<1>20. PendingCount'  BY <1>3 DEF FrameInv, PendingCount, Counted, subscriber
<1>21. ActiveResumes'
  BY <1>3, <1>10 DEF FrameInv, ActiveResumes, Resuming, wakeup
<1>q. QED
  BY <1>7, <1>9, <1>12, <1>13, <1>14, <1>15, <1>16, <1>17, <1>18, <1>19, <1>20, <1>21
     DEF FrameInv

-----------------------------------------------------------------------------
(* The actions that count the resumers.                                    *)

(* The threads that resume a session can be counted one by one.            *)
Counts ==
    \A s \in Sessions, t \in Threads :
        /\ t \notin Uses(s, Resuming) =>
               Cardinality(Uses(s, Resuming) \cup {t}) = Cardinality(Uses(s, Resuming)) + 1
        /\ t \in Uses(s, Resuming) =>
               /\ Cardinality(Uses(s, Resuming) \ {t}) = Cardinality(Uses(s, Resuming)) - 1
               /\ Cardinality(Uses(s, Resuming) \ {t}) \in Nat
        /\ Cardinality(Uses(s, Resuming)) = 0 => Uses(s, Resuming) = {}

(* Taking the stored continuation keeps FrameInv: the permit moves from    *)
(* the subscriber to the signaller, which is counted in active_resumes.    *)
LEMMA TakeContinuationFrame ==
    ASSUME FrameInv, Counts, NEW t \in Threads, TakeContinuation(t)
    PROVE  FrameInv'
<1>0. PICK s \in Sessions : s = target[t]
  BY SignalTarget DEF FrameInv, TakeContinuation, Signalling
<1>t. TypeOK  BY DEF FrameInv
<1>1. PICK label \in Labels :
          Moves(t, label, s) /\ label = IF continuation[s] THEN "resume" ELSE AfterSignal(t)
  BY <1>0, AfterSignalLabel DEF TakeContinuation, Goto, Labels, Moves, locals, TypeOK, FrameInv
<1>2. label = "resume" \/ label \in {"deliver", "closing", "erase"}
  BY <1>1, AfterSignalLabel
<1>3. /\ pc[t] = "signal"
      /\ \A u \in Sessions : continuation'[u] <=> continuation[u] /\ u # s
      /\ activeResumes' = [activeResumes EXCEPT ![s] = IF continuation[s] THEN @ + 1 ELSE @]
  BY <1>0 DEF TakeContinuation, wakeup, FrameInv, TypeOK
<1>4. UNCHANGED <<service, subscriber, frame, locals, history>>
  BY DEF TakeContinuation
<1>5. TypeOK'
  <2>1. pc' \in [Threads -> Labels]  BY <1>1, <1>t DEF TypeOK, Moves
  <2>2. continuation' \in [Sessions -> BOOLEAN]
    BY <1>0, <1>t DEF TakeContinuation, wakeup, TypeOK
  <2>3. activeResumes' \in [Sessions -> Nat]  BY <1>3, <1>t DEF TypeOK
  <2>4. QED
    BY <2>1, <2>2, <2>3, <1>4, <1>t DEF TypeOK, service, subscriber, frame, locals, history
<1>6. ThreadsInv'
  <2>1. \A v \in Threads : pc'[v] = IF v = t THEN label ELSE pc[v]  BY <1>1, <1>t DEF TypeOK, Moves
  <2>2. \A v \in Threads : target'[v] = target[v]  BY <1>0, <1>1, <1>t DEF TypeOK, Moves
  <2>3. /\ pc[t] \in Signalling /\ label \in Resuming \cup {AfterSignal(t)}
        /\ message' = message
    BY <1>1, <1>3, <1>4 DEF Signalling, Resuming, locals
  <2>4. QED  BY <2>1, <2>2, <2>3, SignalThreads DEF FrameInv
<1>7. \A u \in Sessions :
          Uses(u, Holding)' = Uses(u, Holding) /\ Uses(u, Running)' = Uses(u, Running)
  <2>1. pc[t] \notin Holding /\ label \notin Holding  BY <1>2, <1>3 DEF Holding
  <2>2. pc[t] \notin Running /\ label \notin Running  BY <1>2, <1>3 DEF Running
  <2>3. \A u : Uses(u, Holding)' = Uses(u, Holding)  BY <2>1, <1>t, <1>1, UsesKept
  <2>4. \A u : Uses(u, Running)' = Uses(u, Running)  BY <2>2, <1>t, <1>1, UsesKept
  <2>5. QED  BY <2>3, <2>4
<1>8. \A u \in Sessions :
          /\ Uses(u, {"resume"})' =
                 Uses(u, {"resume"}) \cup (IF u = s /\ continuation[s] THEN {t} ELSE {})
          /\ Uses(u, Resuming)' =
                 Uses(u, Resuming) \cup (IF u = s /\ continuation[s] THEN {t} ELSE {})
          /\ t \notin Uses(u, Resuming)
          /\ Uses(u, Waking)' =
                 IF u = s /\ ~continuation[s] THEN Uses(u, Waking) \ {t} ELSE Uses(u, Waking)
          /\ Cancels(u)' = Cancels(u)
  <2>0. TAKE u \in Sessions
  <2>1. \A L : Uses(u, L)' = (Uses(u, L) \ {t}) \cup (IF s = u /\ label \in L THEN {t} ELSE {})
    BY <1>t, <1>1, MoveUses
  <2>2. \A L : t \in Uses(u, L) <=> s = u /\ "signal" \in L
    BY <1>0, <1>3, UsesMember
  <2>3. Uses(u, {"resume"})' =
            Uses(u, {"resume"}) \cup (IF u = s /\ continuation[s] THEN {t} ELSE {})
    BY <2>1, <2>2, <1>2, <1>1, AfterSignalLabel
  <2>4. Uses(u, Resuming)' =
            Uses(u, Resuming) \cup (IF u = s /\ continuation[s] THEN {t} ELSE {})
    BY <2>1, <2>2, <1>2, <1>1, AfterSignalLabel DEF Resuming
  <2>5. Uses(u, Waking)' =
            IF u = s /\ ~continuation[s] THEN Uses(u, Waking) \ {t} ELSE Uses(u, Waking)
    <3>1. "signal" \in Waking /\ (label \in Waking <=> continuation[s])
      BY <1>1, <1>2, AfterSignalLabel DEF Waking
    <3>2. QED  BY <2>1, <2>2, <3>1
  <2>6. Cancels(u)' = Cancels(u)
    BY <2>1, <2>2, <1>2, <1>1, AfterSignalLabel, ThreadsAssumption
       DEF Cancels, InCancel, Signalling, Resuming, Threads
  <2>7. QED  BY <2>2, <2>3, <2>4, <2>5, <2>6 DEF Resuming
<1>9. MutexInv' /\ RunInv'
  BY <1>4, <1>7 DEF FrameInv, MutexInv, RunInv, frame
<1>10. PermitInv'
  <2>1. at' = at  BY <1>4 DEF frame
  <2>2. ASSUME NEW u \in Sessions
        PROVE  /\ continuation'[u] => at[u] = "await" /\ Uses(u, {"resume"})' = {}
               /\ at[u] = "await" /\ ~continuation'[u] => Uses(u, {"resume"})' # {}
               /\ \A x, y \in Uses(u, {"resume"})' : at[u] = "await" /\ x = y
    <3>1. Uses(u, {"resume"})' =
              Uses(u, {"resume"}) \cup (IF u = s /\ continuation[s] THEN {t} ELSE {})
      BY <1>8
    <3>2. QED  BY <1>3, <3>1 DEF FrameInv, PermitInv
  <2>3. QED  BY <2>1, <2>2 DEF PermitInv
<1>11. YieldInv'
  BY <1>1, <1>2, <1>3, <1>4 DEF FrameInv, YieldInv, TypeOK, Threads, Moves, frame
<1>12. CloseInv'
  <2>1. \A v \in Threads :
            /\ pc'[v] = IF v = t THEN label ELSE pc[v]
            /\ target'[v] = target[v]
    BY <1>t, <1>0, <1>1 DEF TypeOK, Moves
  <2>2. \A v \in Cancellers \cup Sessions :
            v \in Threads /\ (pc[v] \in InCancel => target[v] \in Sessions)
    BY CancelTarget DEF FrameInv
  <2>3. UNCHANGED <<closed, cancelled>>  BY <1>4 DEF subscriber
  <2>4. pc[t] \in InCancel \ {"close"}  BY <1>3 DEF InCancel, Signalling
  <2>5. QED  BY <2>1, <2>2, <2>3, <2>4, <1>0, <1>3 DEF FrameInv, CloseInv
<1>13. QuietInv'
  <2>1. \A u \in Sessions : closed'[u] = closed[u] /\ cancelled'[u] = cancelled[u]
    BY <1>4 DEF subscriber
  <2>2. \A u \in Sessions :
            pc'[u] = pc[u] \/ {pc[u], pc'[u]} \cap {"destroy", "gone"} = {}
    BY <1>t, <1>1, <1>2, <1>3 DEF TypeOK, Moves, Threads
  <2>3. QED  BY <2>1, <2>2, <1>3, <1>8 DEF FrameInv, QuietInv, Quiet
<1>14. WakeupInv'
  <2>1. UNCHANGED <<at, closed, events>>  BY <1>4 DEF frame, subscriber
  <2>2. \A u \in Sessions : Uses(u, {"resume"}) \subseteq Uses(u, Waking) \ {t}
    BY <1>3 DEF Uses, Waking
  <2>3. ASSUME NEW u \in Sessions, at'[u] = "await", Ready(u)'
        PROVE  Uses(u, Waking)' # {}
    <3>1. at[u] = "await" /\ Ready(u)  BY <2>1, <2>3 DEF Ready
    <3>2. CASE u = s /\ ~continuation[s]
      <4>1. Uses(u, {"resume"}) # {}  BY <3>1, <3>2 DEF FrameInv, PermitInv
      <4>2. QED  BY <4>1, <2>2, <3>2, <1>8
    <3>3. CASE ~(u = s /\ ~continuation[s])
      BY <3>1, <3>3, <1>8 DEF FrameInv, WakeupInv
    <3>4. QED  BY <3>2, <3>3
  <2>4. QED  BY <2>3 DEF WakeupInv
<1>15. StagedInv' /\ PendingCount'
  BY <1>4 DEF FrameInv, StagedInv, PendingCount, Counted, frame, subscriber
<1>16. ActiveResumes'
  <2>1. ASSUME NEW u \in Sessions
        PROVE  activeResumes'[u] = Cardinality(Uses(u, Resuming)')
    <3>1. activeResumes[u] = Cardinality(Uses(u, Resuming))
      BY DEF FrameInv, ActiveResumes, Resuming
    <3>2. Cardinality(Uses(u, Resuming) \cup {t}) = Cardinality(Uses(u, Resuming)) + 1
      BY <1>8 DEF Counts
    <3>3. CASE u = s /\ continuation[s]
      <4>1. activeResumes'[u] = activeResumes[u] + 1  BY <1>t, <1>3, <3>3 DEF TypeOK
      <4>2. Uses(u, Resuming)' = Uses(u, Resuming) \cup {t}  BY <1>8, <3>3
      <4>3. QED  BY <4>1, <4>2, <3>1, <3>2
    <3>4. CASE ~(u = s /\ continuation[s])
      <4>1. activeResumes'[u] = activeResumes[u]  BY <1>t, <1>3, <3>4 DEF TypeOK
      <4>2. Uses(u, Resuming)' = Uses(u, Resuming)  BY <1>8, <3>4
      <4>3. QED  BY <4>1, <4>2, <3>1
    <3>5. QED  BY <3>3, <3>4
  <2>2. QED  BY <2>1 DEF ActiveResumes, Resuming
<1>q. QED
  BY <1>5, <1>6, <1>9, <1>10, <1>11, <1>12, <1>13, <1>14, <1>15, <1>16 DEF FrameInv

(* Counting active_resumes down keeps FrameInv.                            *)
LEMMA DropResumeFrame ==
    ASSUME FrameInv, Counts, NEW t \in Threads, DropResume(t)
    PROVE  FrameInv'
<1>0. PICK s \in Sessions : s = target[t]
  BY SignalTarget DEF FrameInv, DropResume, Signalling, Resuming
<1>t. TypeOK  BY DEF FrameInv
<1>1. PICK label \in {"deliver", "closing", "erase"} :
          Moves(t, label, s) /\ label = AfterSignal(t)
  BY <1>0, <1>t, GotoMoves, AfterSignalLabel DEF DropResume, locals
<1>2. /\ pc[t] = "drop" /\ t \in Uses(s, Resuming)
      /\ activeResumes' = [activeResumes EXCEPT ![s] = @ - 1]
  BY <1>0 DEF DropResume, Uses, Resuming
<1>3. UNCHANGED <<service, subscriber, continuation, frame, locals, history>>
  BY DEF DropResume
<1>4. \A u \in Sessions :
          Uses(u, Resuming)' = Uses(u, Resuming) \ (IF u = s THEN {t} ELSE {})
  BY <1>t, <1>0, <1>1, <1>2, UsesLost DEF Resuming
<1>5. \A u \in Sessions :
          /\ activeResumes'[u] = Cardinality(Uses(u, Resuming)')
          /\ activeResumes'[u] \in Nat
  <2>0. TAKE u \in Sessions
  <2>1. /\ activeResumes[u] = Cardinality(Uses(u, Resuming))
        /\ activeResumes[u] \in Nat
    BY <1>t DEF FrameInv, ActiveResumes, Resuming, TypeOK
  <2>2. CASE u = s
    <3>1. /\ Cardinality(Uses(u, Resuming) \ {t}) = Cardinality(Uses(u, Resuming)) - 1
          /\ Cardinality(Uses(u, Resuming) \ {t}) \in Nat
      BY <1>2, <2>2 DEF Counts
    <3>2. QED  BY <1>2, <1>4, <1>t, <2>1, <2>2, <3>1 DEF TypeOK
  <2>3. CASE u # s  BY <1>2, <1>4, <1>t, <2>1, <2>3 DEF TypeOK
  <2>4. QED  BY <2>2, <2>3
<1>6. TypeOK'
  <2>1. pc' \in [Threads -> Labels]  BY <1>1, <1>t DEF TypeOK, Moves, Labels
  <2>2. activeResumes' \in [Sessions -> Nat]  BY <1>2, <1>5, <1>t DEF TypeOK
  <2>3. QED
    BY <2>1, <2>2, <1>3, <1>t DEF TypeOK, service, subscriber, frame, locals, history
<1>7. \A v \in Threads : /\ pc'[v] = IF v = t THEN label ELSE pc[v]
                         /\ target'[v] = target[v]
  BY <1>t, <1>0, <1>1 DEF TypeOK, Moves
<1>8. ThreadsInv'
  <2>1. /\ pc[t] \in Signalling /\ label \in Resuming \cup {AfterSignal(t)}
        /\ message' = message
    BY <1>1, <1>2, <1>3 DEF Signalling, Resuming, locals
  <2>2. QED  BY <2>1, <1>7, SignalThreads DEF FrameInv
<1>9. \A u \in Sessions :
          /\ Uses(u, Holding)' = Uses(u, Holding)
          /\ Uses(u, Running)' = Uses(u, Running)
          /\ Uses(u, {"resume"})' = Uses(u, {"resume"})
          /\ Uses(u, Waking)' = Uses(u, Waking)
  <2>1. /\ pc[t] \notin Running /\ pc[t] # "resume" /\ pc[t] \notin Waking /\ pc[t] \notin Holding
        /\ label \notin Running /\ label # "resume" /\ label \notin Waking /\ label \notin Holding
    BY <1>1, <1>2 DEF Running, Waking, Holding
  <2>2. QED  BY <2>1, <1>t, <1>0, <1>1, UsesKept
<1>10. \A u \in Sessions : Cancels(u)' = Cancels(u)
  <2>0. TAKE u \in Sessions
  <2>1. CASE t \in Cancellers \cup Sessions
    <3>1. label = "erase"  BY <1>1, <2>1, AfterSignalLabel, ThreadsAssumption
    <3>2. pc[t] \in InCancel /\ label \in InCancel  BY <3>1, <1>2 DEF InCancel, Signalling, Resuming
    <3>3. Uses(u, InCancel)' = Uses(u, InCancel)  BY <3>2, <1>t, <1>0, <1>1, UsesKept
    <3>4. QED  BY <3>3 DEF Cancels
  <2>2. CASE t \notin Cancellers \cup Sessions
    <3>1. \A v \in Cancellers \cup {u} : v \in Uses(u, InCancel)' <=> v \in Uses(u, InCancel)
      BY <1>7, <2>2 DEF Uses, Threads
    <3>2. QED  BY <3>1 DEF Cancels
  <2>3. QED  BY <2>1, <2>2
<1>11. MutexInv' /\ RunInv' /\ PermitInv'
  BY <1>3, <1>9, UsersKept DEF FrameInv, frame
<1>12. YieldInv'
  BY <1>1, <1>2, <1>3, <1>7 DEF FrameInv, YieldInv, Threads, frame
<1>13. CloseInv'
  <2>1. pc[t] \in InCancel \ {"close", "signal"}  BY <1>2 DEF InCancel, Signalling, Resuming
  <2>2. QED
    BY <2>1, <1>3, <1>7, CancelTarget DEF FrameInv, CloseInv, subscriber
<1>14. QuietInv'
  BY <1>1, <1>2, <1>3, <1>4, <1>7, <1>10 DEF FrameInv, QuietInv, Quiet, subscriber, Threads
<1>15. WakeupInv' /\ StagedInv' /\ PendingCount'
  BY <1>3, <1>9 DEF FrameInv, WakeupInv, Ready, StagedInv, PendingCount, Counted, frame, subscriber
<1>16. ActiveResumes'
  BY <1>5 DEF ActiveResumes, Resuming
<1>q. QED
  BY <1>6, <1>8, <1>11, <1>12, <1>13, <1>14, <1>15, <1>16 DEF FrameInv

(* active_resumes = 0 is what makes the session quiet.                     *)
LEMMA WaitForResumesFrame ==
    ASSUME FrameInv, Counts, NEW t \in Sessions \cup Cancellers, WaitForResumes(t)
    PROVE  FrameInv'
<1>0. TypeOK /\ t \in Threads /\ pc[t] = "drain"
  BY DEF FrameInv, Threads, WaitForResumes
<1>1. PICK s \in Sessions : s = target[t]
  BY <1>0, CancelTarget DEF FrameInv, InCancel
<1>2. PICK label \in {"destroy", "exit"} :
          Moves(t, label, s) /\ (label = "destroy" <=> t \in Sessions)
  BY <1>0, <1>1, GotoMoves, AfterCancelLabel DEF WaitForResumes, locals
<1>3. UNCHANGED <<service, subscriber, wakeup, frame, locals, history>>
  BY DEF WaitForResumes
<1>4. TypeOK'
  <2>1. pc' \in [Threads -> Labels]  BY <1>0, <1>2 DEF TypeOK, Moves, Labels
  <2>2. QED
    BY <2>1, <1>0, <1>3 DEF TypeOK, service, subscriber, wakeup, frame, locals, history
<1>5. \A v \in Threads : /\ pc'[v] = IF v = t THEN label ELSE pc[v]
                         /\ target'[v] = target[v]
  BY <1>0, <1>1, <1>2 DEF TypeOK, Moves
<1>6. ThreadsInv'
  BY <1>0, <1>2, <1>3, <1>5, ThreadsAssumption DEF FrameInv, ThreadsInv, Threads, InCancel, locals
<1>7. \A u \in Sessions :
          /\ Uses(u, Holding)' = Uses(u, Holding)
          /\ Uses(u, Running)' = Uses(u, Running)
          /\ Uses(u, {"resume"})' = Uses(u, {"resume"})
          /\ Uses(u, Waking)' = Uses(u, Waking)
          /\ Uses(u, Resuming)' = Uses(u, Resuming)
  <2>1. /\ pc[t] \notin Holding /\ pc[t] \notin Running /\ pc[t] \notin {"resume"}
        /\ pc[t] \notin Waking /\ pc[t] \notin Resuming
        /\ label \notin Holding /\ label \notin Running /\ label \notin {"resume"}
        /\ label \notin Waking /\ label \notin Resuming
    BY <1>0, <1>2 DEF Holding, Running, Waking, Resuming
  <2>2. QED  BY <2>1, <1>0, <1>1, <1>2, UsesKept
<1>8. Quiet(s) /\ cancelled[s]
  <2>1. closed[s] /\ ~continuation[s] /\ cancelled[s]
    BY <1>0, <1>1 DEF FrameInv, CloseInv, InCancel
  <2>2. Cardinality(Uses(s, Resuming)) = 0
    BY <1>1 DEF WaitForResumes, FrameInv, ActiveResumes, Resuming
  <2>3. Uses(s, Resuming) = {}  BY <2>2, <1>0, <1>1 DEF Counts
  <2>4. QED  BY <2>1, <2>3 DEF Quiet
<1>9. MutexInv' /\ RunInv' /\ PermitInv'
  BY <1>3, <1>7, UsersKept DEF FrameInv, wakeup, frame
<1>10. YieldInv'
  BY <1>0, <1>2, <1>3, <1>5 DEF FrameInv, YieldInv, Threads, frame
<1>11. CloseInv'
  <2>1. label \notin InCancel  BY <1>2 DEF InCancel, Signalling, Resuming
  <2>2. QED
    BY <2>1, <1>3, <1>5, CancelTarget DEF FrameInv, CloseInv, wakeup, subscriber
<1>12. QuietInv'
  <2>1. \A u \in Sessions : /\ Quiet(u)' <=> Quiet(u)
                            /\ cancelled'[u] = cancelled[u]
    BY <1>3, <1>7 DEF Quiet, wakeup, subscriber
  <2>2. \A u \in Sessions : /\ pc'[u] = "gone" => pc[u] = "gone"
                            /\ pc'[u] = "destroy" => pc[u] = "destroy" \/ u = s
    BY <1>0, <1>1, <1>2, <1>5 DEF FrameInv, ThreadsInv, Threads
  <2>3. \A u \in Sessions : u # s => Cancels(u)' = Cancels(u)
    <3>0. TAKE u \in Sessions
    <3>1. \A v \in Threads : u # s => (v \in Uses(u, InCancel)' <=> v \in Uses(u, InCancel))
      BY <1>1, <1>5 DEF Uses
    <3>2. QED  BY <3>1 DEF Cancels, Uses
  <2>4. QED  BY <1>8, <2>1, <2>2, <2>3 DEF FrameInv, QuietInv
<1>13. WakeupInv' /\ StagedInv' /\ PendingCount'
  BY <1>3, <1>7 DEF FrameInv, WakeupInv, Ready, StagedInv, PendingCount, Counted, frame, subscriber
<1>14. ActiveResumes'
  BY <1>3, <1>7 DEF FrameInv, ActiveResumes, Resuming, wakeup
<1>q. QED
  BY <1>4, <1>6, <1>9, <1>10, <1>11, <1>12, <1>13, <1>14 DEF FrameInv

(* A stuttering step keeps FrameInv.                                       *)
LEMMA StutterFrame ==
    ASSUME FrameInv, UNCHANGED vars
    PROVE  FrameInv'
<1>1. UNCHANGED <<pc, service, subscriber, wakeup, frame, locals, history>>  BY DEF vars
<1>2. \A u, L : Uses(u, L)' = Uses(u, L)  BY <1>1 DEF Uses, locals
<1>3. TypeOK'
  BY <1>1 DEF FrameInv, TypeOK, service, subscriber, wakeup, frame, locals, history
<1>4. ThreadsInv' /\ MutexInv' /\ RunInv' /\ PermitInv'
  BY <1>1, <1>2 DEF FrameInv, ThreadsInv, MutexInv, RunInv, PermitInv, wakeup, frame, locals
<1>5. YieldInv' /\ StagedInv'  BY <1>1 DEF FrameInv, YieldInv, StagedInv, frame
<1>6. CloseInv' /\ QuietInv'
  BY <1>1, <1>2 DEF FrameInv, CloseInv, QuietInv, Quiet, Cancels, wakeup, locals, subscriber
<1>7. WakeupInv' /\ ActiveResumes'
  BY <1>1, <1>2 DEF FrameInv, WakeupInv, Ready, ActiveResumes, wakeup, frame, subscriber
<1>8. PendingCount'  BY <1>1 DEF FrameInv, PendingCount, Counted, frame, subscriber
<1>q. QED  BY <1>3, <1>4, <1>5, <1>6, <1>7, <1>8 DEF FrameInv
=============================================================================
