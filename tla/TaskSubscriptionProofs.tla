----------------------- MODULE TaskSubscriptionProofs -----------------------
(***************************************************************************)
(* Proofs about TaskSubscription, for any number of publishers, sessions,  *)
(* cancellers and published updates: FrameInv is inductive, and so the     *)
(* type invariant, FrameSafety, NoLostWakeup, ActiveResumes and            *)
(* PendingCount hold in every reachable state; and the service implements  *)
(* SubscriptionStream.                                                     *)
(***************************************************************************)
EXTENDS TaskSubscriptionSteps, TaskSubscriptionStream, FiniteSetTheorems

USE ZenonT(5), SMTT(20)

-----------------------------------------------------------------------------
(* Counting the resumers.                                                  *)

(* The threads that use a session are finitely many.                       *)
LEMMA UsesFinite ==
    ASSUME NEW s, NEW L
    PROVE  IsFiniteSet(Uses(s, L))
<1>1. IsFiniteSet(Publishers \cup Sessions \cup Cancellers \cup {Closer})
  BY ThreadsAssumption, FS_Union, FS_AddElement, FS_EmptySet
<1>2. QED  BY <1>1, FS_Subset DEF Uses, Threads

(* So they can be counted one by one.                                      *)
LEMMA UsesCounted == Counts
<1> SUFFICES ASSUME NEW s \in Sessions, NEW t \in Threads, NEW R, R = Uses(s, Resuming)
             PROVE  /\ t \notin R => Cardinality(R \cup {t}) = Cardinality(R) + 1
                    /\ t \in R => /\ Cardinality(R \ {t}) = Cardinality(R) - 1
                                  /\ Cardinality(R \ {t}) \in Nat
                    /\ Cardinality(R) = 0 => R = {}
  BY DEF Counts
<1>1. IsFiniteSet(R)  BY UsesFinite
<1>2. QED
  BY <1>1, FS_AddElement, FS_RemoveElement, FS_CardinalityType, FS_EmptySet

-----------------------------------------------------------------------------
(* The theorems.                                                           *)

(* FrameInv holds initially.                                               *)
LEMMA InitFrame == Init => FrameInv
<1> SUFFICES ASSUME Init PROVE FrameInv  OBVIOUS
<1>1. \A s, L : L \cap {"absent", "idle"} = {} => Uses(s, L) = {}  BY DEF Init, Uses
<1>2. /\ \A s : Uses(s, Holding) = {} /\ Uses(s, Running) = {} /\ Uses(s, {"resume"}) = {}
      /\ \A s : Uses(s, Resuming) = {}
  <2>1. /\ Holding \cap {"absent", "idle"} = {} /\ Running \cap {"absent", "idle"} = {}
        /\ {"resume"} \cap {"absent", "idle"} = {} /\ Resuming \cap {"absent", "idle"} = {}
    BY DEF Holding, Running, Resuming
  <2>2. QED  BY <1>1, <2>1
<1>3. TypeOK
  <2>1. pc \in [Threads -> Labels] /\ target \in [Threads -> Sessions \cup {NoThread}]
    BY DEF Init, Labels
  <2>2. at \in [Sessions -> Points]  BY DEF Init, Points
  <2>3. events \in [Sessions -> Seq(Nat \ {0})] /\ log \in [Tasks -> Seq(States)]
    BY DEF Init
  <2>4. delivered \in [Sessions -> Seq(Nat)]  BY DEF Init
  <2>5. QED  BY <2>1, <2>2, <2>3, <2>4 DEF Init, TypeOK
<1>4. ThreadsInv
  BY ThreadsAssumption DEF Init, ThreadsInv, Threads, Signalling, Resuming, InCancel
<1>5. MutexInv
  BY <1>2, ThreadsAssumption DEF Init, MutexInv, Threads
<1>6. RunInv /\ PermitInv  BY <1>2 DEF Init, RunInv, PermitInv, Executing
<1>7. YieldInv /\ StagedInv  BY DEF Init, YieldInv, StagedInv, Threads
<1>8. CloseInv
  BY ThreadsAssumption DEF Init, CloseInv, Threads, InCancel, Signalling, Resuming
<1>9. QuietInv /\ WakeupInv  BY DEF Init, QuietInv, WakeupInv, Threads
<1>10. ActiveResumes  BY <1>2, FS_EmptySet DEF Init, ActiveResumes, Resuming
<1>11. PendingCount  BY DEF Init, PendingCount, Counted, NoEvent, Snapshot
<1>q. QED
  BY <1>3, <1>4, <1>5, <1>6, <1>7, <1>8, <1>9, <1>10, <1>11 DEF FrameInv

(* Every step of a call in progress keeps FrameInv.                        *)
LEMMA StepFrame ==
    ASSUME FrameInv, NEW t \in Threads, Step(t)
    PROVE  FrameInv'
<1>1. ASSUME NEW s \in Sessions, Coroutine(t, s) PROVE FrameInv'
  BY <1>1, YieldCurrentTaskFrame, AwaitReadyFrame, AwaitSuspendFrame, AwaitResumeFrame,
     YieldEventFrame, FinalSuspendFrame DEF Coroutine
<1>2. CASE Signal(t)
  BY <1>2, UsesCounted, TakeContinuationFrame, ResumeFrame, UnlockResumeFrame, DropResumeFrame
     DEF Signal
<1>3. CASE t \in Sessions \cup Cancellers /\ Cancelling(t)
  BY <1>3, UsesCounted, RemoveSubscriberCloseFrame, RemoveSubscriberEraseFrame, WaitForResumesFrame
     DEF Cancelling
<1>4. CASE t \in Sessions /\ Pump(t)
  BY <1>4, PullFrame, EndPullFrame, TakeValueFrame, WaitReturnsEmptyFrame, IsLiveFrame,
     WriteSucceedsFrame, CancelFrame, DestroySessionFrame DEF Pump, NextAtEnd
<1>5. CASE t \in Publishers /\ (EndPublish(t) \/ \E s \in Sessions : Deliver(t, s))
  BY <1>5, EndPublishFrame, DeliverFrame
<1>6. CASE t = Closer /\ (EndShutdown \/ \E s \in Sessions : ShutdownClose(s))
  BY <1>6, ShutdownFrame, ShutdownCloseFrame
<1>7. QED  BY <1>1, <1>2, <1>3, <1>4, <1>5, <1>6 DEF Step

(* Every step keeps FrameInv.                                              *)
LEMMA NextFrame ==
    ASSUME FrameInv, [Next]_vars
    PROVE  FrameInv'
<1>1. CASE Call
  <2>1. ASSUME NEW s \in Sessions, NEW t \in Tasks, NEW st \in States, Subscribe(s, t, st)
        PROVE  FrameInv'
    BY <2>1, SubscribeFrame
  <2>2. ASSUME NEW p \in Publishers, NEW t \in Tasks, NEW st \in States, Publish(p, t, st)
        PROVE  FrameInv'
    BY <2>2, PublishFrame
  <2>3. ASSUME NEW c \in Cancellers, NEW s \in Sessions, CancelFromOutside(c, s)
        PROVE  FrameInv'
    BY <2>3, CancelFrame
  <2>4. ASSUME NEW s \in Sessions, NextTimesOut(s) \/ WriteFails(s)
        PROVE  FrameInv'
    BY <2>4, CancelFrame, WaitReturnsEmptyFrame DEF NextTimesOut
  <2>5. CASE Shutdown  BY <2>5, ShutdownFrame
  <2>6. QED  BY <1>1, <2>1, <2>2, <2>3, <2>4, <2>5 DEF Call
<1>2. CASE \E t \in Threads : Step(t)  BY <1>2, StepFrame
<1>3. CASE AtRest \/ UNCHANGED vars  BY <1>3, StutterFrame DEF AtRest
<1>4. QED  BY <1>1, <1>2, <1>3 DEF Next

(* What the invariant says of a state, in the words of the properties.     *)
LEMMA FrameInvSafe ==
    ASSUME FrameInv
    PROVE  FrameSafety /\ NoLostWakeup
<1>1. FrameSafety
  <2>0. SUFFICES ASSUME NEW s \in Sessions
                 PROVE  /\ \A t \in Uses(s, {"run", "pull", "unlock", "pulled"}) :
                               resumeMutex[s] = t
                        /\ at[s] # "undefined"
                        /\ at[s] = "destroyed" =>
                               Uses(s, {"resume", "run", "unlock", "pull", "pulled"}) = {}
    BY DEF FrameSafety
  <2>1. ASSUME NEW t \in Uses(s, {"run", "pull", "unlock", "pulled"})
        PROVE  resumeMutex[s] = t
    <3>1. t \in Threads /\ t \in Uses(s, Holding)  BY DEF Uses, Holding
    <3>2. QED  BY <3>1 DEF FrameInv, MutexInv
  <2>2. at[s] # "undefined"  BY DEF FrameInv, YieldInv
  <2>3. ASSUME at[s] = "destroyed"
        PROVE  Uses(s, {"resume", "run", "unlock", "pull", "pulled"}) = {}
    <3>1. pc[s] = "gone"  BY <2>3 DEF FrameInv, YieldInv
    <3>2. Uses(s, Resuming) = {}  BY <3>1 DEF FrameInv, QuietInv, Quiet
    <3>3. Uses(s, {"pull", "pulled"}) \subseteq {s}  BY PullsOwnFrame DEF FrameInv
    <3>4. QED  BY <3>1, <3>2, <3>3 DEF Uses, Resuming
  <2>4. QED  BY <2>1, <2>2, <2>3
<1>2. NoLostWakeup
  <2>0. SUFFICES ASSUME NEW s \in Sessions
                 PROVE  /\ at[s] = "await" /\ Ready(s) => Uses(s, {"signal", "resume"}) # {}
                        /\ continuation[s] => at[s] = "await" /\ Uses(s, {"resume"}) = {}
                        /\ at[s] = "await" /\ ~continuation[s] =>
                               Cardinality(Uses(s, {"resume"})) = 1
    BY DEF NoLostWakeup
  <2>1. at[s] = "await" /\ Ready(s) => Uses(s, {"signal", "resume"}) # {}
    BY DEF FrameInv, WakeupInv, Waking
  <2>2. continuation[s] => at[s] = "await" /\ Uses(s, {"resume"}) = {}
    BY DEF FrameInv, PermitInv
  <2>3. ASSUME at[s] = "await", ~continuation[s]
        PROVE  Cardinality(Uses(s, {"resume"})) = 1
    <3>1. PICK t : t \in Uses(s, {"resume"})  BY <2>3 DEF FrameInv, PermitInv
    <3>2. Uses(s, {"resume"}) = {t}  BY <3>1 DEF FrameInv, PermitInv
    <3>3. QED  BY <3>2, FS_Singleton
  <2>4. QED  BY <2>1, <2>2, <2>3
<1>3. QED  BY <1>1, <1>2

(* The frames are safe in every reachable state: FrameInv is an invariant. *)
THEOREM FrameInvariance == Spec => []FrameInv
<1>1. Init => FrameInv  BY InitFrame
<1>2. FrameInv /\ [Next]_vars => FrameInv'  BY NextFrame
<1>3. QED  BY <1>1, <1>2, PTL DEF Spec

(* Every variable keeps its type; in particular pending_delivery_count and *)
(* active_resumes never underflow.                                         *)
THEOREM TypeCorrect == Spec => []TypeOK
<1>1. FrameInv => TypeOK  BY DEF FrameInv
<1>2. QED  BY <1>1, FrameInvariance, PTL

(* Whatever the number of publishers, sessions and cancellers: a coroutine *)
(* frame is executed by one thread at a time, resumed only while it is     *)
(* suspended, and never touched by a signaller after its session is gone.  *)
THEOREM FrameSafe == Spec => []FrameSafety
<1>1. FrameInv => FrameSafety  BY FrameInvSafe
<1>2. QED  BY <1>1, FrameInvariance, PTL

(* await_suspend and SignalSubscriber lose no wake-up and resume a stored  *)
(* handle exactly once.                                                    *)
THEOREM WakeupSafe == Spec => []NoLostWakeup
<1>1. FrameInv => NoLostWakeup  BY FrameInvSafe
<1>2. QED  BY <1>1, FrameInvariance, PTL

(* active_resumes and pending_delivery_count count what they are meant to. *)
THEOREM CountersExact == Spec => [](ActiveResumes /\ PendingCount)
<1>1. FrameInv => ActiveResumes /\ PendingCount  BY DEF FrameInv
<1>2. QED  BY <1>1, FrameInvariance, PTL

(* The service implements the stream its clients are promised: whatever    *)
(* the interleaving of Subscribe, PublishTaskUpdated, Cancel, Shutdown and *)
(* the transport loops, every step is a step of SubscriptionStream or      *)
(* invisible to the clients.                                               *)
THEOREM ServiceImplementsStream == Spec => ImplementsStream
<1>1. Init => DeliveryInv /\ Stream!Init  BY InitStream
<1>2. FrameInv /\ DeliveryInv /\ [Next]_vars => DeliveryInv' /\ [Stream!Next]_(Stream!vars)
  BY NextStream
<1>3. Spec => Stream!Spec  BY <1>1, <1>2, FrameInvariance, PTL DEF Spec, Stream!Spec
<1>4. QED  BY <1>3 DEF ImplementsStream

(* A client sees the current task and then every update published since,   *)
(* in order; an open subscriber misses none; and a stream ends only behind *)
(* a terminal update, after Cancel or Shutdown, or when a stale signal has *)
(* cut its coroutine.                                                      *)
THEOREM ClientsServed == Spec => [](OrderedDelivery /\ NoUpdateMissed /\ ClosedUnlessCut)
<1>1. Init => DeliveryInv /\ PromisesInv  BY InitStream, InitPromises
<1>2. FrameInv /\ DeliveryInv /\ PromisesInv /\ [Next]_vars => DeliveryInv' /\ PromisesInv'
  <2>1. SUFFICES ASSUME FrameInv, DeliveryInv, PromisesInv, [Next]_vars
                 PROVE  DeliveryInv' /\ PromisesInv'
    OBVIOUS
  <2>2. DeliveryInv' /\ [Stream!Next]_(Stream!vars)  BY <2>1, NextStream
  <2>3. TypeOK  BY <2>1 DEF FrameInv
  <2>4. OrderedDelivery'  BY <2>1, <2>2, <2>3, OrderStep DEF PromisesInv
  <2>5. EndJustified'  BY <2>1, <2>2, JustifiedStep DEF PromisesInv
  <2>6. QED  BY <2>2, <2>4, <2>5 DEF PromisesInv
<1>3. FrameInv /\ DeliveryInv /\ PromisesInv =>
         OrderedDelivery /\ NoUpdateMissed /\ ClosedUnlessCut
  BY PromisesSafe DEF PromisesInv
<1>4. QED  BY <1>1, <1>2, <1>3, FrameInvariance, PTL DEF Spec
=============================================================================
