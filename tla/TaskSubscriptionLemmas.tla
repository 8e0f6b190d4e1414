----------------------- MODULE TaskSubscriptionLemmas -----------------------
(***************************************************************************)
(* The inductive invariant behind the safety of the coroutine frames of    *)
(* TaskSubscription, and the facts that the proofs about it share: how a   *)
(* step of one thread changes the sets of threads that use a session, and  *)
(* the steps that touch nothing FrameInv speaks of.                        *)
(*                                                                         *)
(* FrameSafety is not inductive by itself: it needs to be known who may    *)
(* resume a frame, and from which suspension point, in every state, and    *)
(* why nobody is left when a session is destroyed.                         *)
(***************************************************************************)
EXTENDS TaskSubscription, TLAPS

Resuming == {"resume", "run", "unlock", "drop"}
Signalling == {"signal"} \cup Resuming
Waking == {"signal", "resume"}
InCancel == {"close", "erase", "drain"} \cup Signalling
Holding == {"run", "unlock", "pull", "pulled"}
Running == {"run", "pull"}
Executing == {"current", "ready", "suspend", "fetch", "emit", "finish"}

(* The code each kind of thread executes, and on which session.            *)
ThreadsInv ==
    /\ \A p \in Publishers :
          /\ pc[p] \in {"idle", "deliver"} \cup Signalling
          /\ pc[p] \in Signalling => target[p] \in Sessions
          /\ pc[p] # "idle" => message[p] > Snapshot
    /\ pc[Closer] \in {"idle", "closing", "exit"} \cup Signalling
    /\ pc[Closer] \in Signalling => target[Closer] \in Sessions
    /\ \A c \in Cancellers :
          /\ pc[c] \in {"idle", "exit"} \cup InCancel
          /\ pc[c] # "idle" => target[c] \in Sessions
    /\ \A s \in Sessions :
          /\ pc[s] \notin {"idle", "exit", "deliver", "closing"}
          /\ target[s] = s

(* The resume mutex is held exactly by the thread inside the frame, or on  *)
(* its way out of it.                                                      *)
MutexInv ==
    \A s \in Sessions, t \in Threads : t \in Uses(s, Holding) <=> resumeMutex[s] = t

(* A frame is at an executing point exactly while a thread runs it.        *)
RunInv ==
    \A s \in Sessions : at[s] \in Executing <=> Uses(s, Running) # {}

(* The permit to resume a frame suspended in the awaitable: either the     *)
(* handle is stored, or exactly one signaller has taken it.                *)
PermitInv ==
    \A s \in Sessions :
        /\ continuation[s] => at[s] = "await" /\ Uses(s, {"resume"}) = {}
        /\ at[s] = "await" /\ ~continuation[s] => Uses(s, {"resume"}) # {}
        /\ \A t, u \in Uses(s, {"resume"}) : at[s] = "await" /\ t = u

(* The consumer resumes only an unstarted frame or one whose yielded value *)
(* it has taken.                                                           *)
YieldInv ==
    \A s \in Sessions :
        /\ at[s] # "undefined"
        /\ at[s] = "destroyed" <=> pc[s] = "gone"
        /\ pc[s] = "absent" => at[s] = "initial"
        /\ at[s] = "initial" => ~started[s]
        /\ ~started[s] => at[s] \in {"initial", "destroyed"}
        /\ resumeAfterYield[s] => at[s] \in {"yield", "destroyed"} /\ value[s] = NoEvent
        /\ value[s] # NoEvent => at[s] \in {"yield", "destroyed"}
        /\ pc[s] \in {"pull", "pulled", "wait"} => ~resumeAfterYield[s]

(* A thread cancelling a session has closed it before it signals, and has  *)
(* taken its handle afterwards; nobody stores another one.                 *)
CloseInv ==
    \A t \in Cancellers \cup Sessions :
        /\ pc[t] \in InCancel => cancelled[target[t]]
        /\ pc[t] \in InCancel \ {"close"} => closed[target[t]]
        /\ pc[t] \in InCancel \ {"close", "signal"} => ~continuation[target[t]]

(* After the one effective Cancel() of a session: closed, handle taken and *)
(* nobody resuming.                                                        *)
Cancels(s) == Uses(s, InCancel) \cap (Cancellers \cup {s})

Quiet(s) == closed[s] /\ ~continuation[s] /\ Uses(s, Resuming) = {}

QuietInv ==
    \A s \in Sessions :
        /\ pc[s] \in {"destroy", "gone"} => cancelled[s]
        /\ cancelled[s] => Quiet(s) \/ Cancels(s) # {}
        /\ pc[s] = "gone" => Quiet(s)

(* A woken-up coroutine always has a signaller on its way to it.           *)
WakeupInv ==
    \A s \in Sessions : at[s] = "await" /\ Ready(s) => Uses(s, Waking) # {}

(* Which updates are staged: the coroutine's local event only between      *)
(* await_resume and co_yield.                                              *)
StagedInv ==
    \A s \in Sessions :
        /\ at[s] # "emit" => event[s] = NoEvent
        /\ at[s] = "emit" => event[s] > Snapshot

(* All of it together: inductive, and implies FrameSafety and NoLostWakeup. *)
FrameInv ==
    /\ TypeOK /\ ThreadsInv /\ MutexInv /\ RunInv /\ PermitInv /\ YieldInv /\ CloseInv
    /\ QuietInv /\ WakeupInv /\ StagedInv /\ ActiveResumes /\ PendingCount

USE ZenonT(5), SMTT(20)

-----------------------------------------------------------------------------
(* How a step of one thread changes the sets Uses(s, L).                   *)

(* Thread t goes to a label, and works on session g from then on.          *)
Moves(t, label, g) ==
    pc' = [pc EXCEPT ![t] = label] /\ target' = [target EXCEPT ![t] = g]
(* Goto without a change of the session the thread works on.               *)
LEMMA GotoMoves ==
    ASSUME TypeOK, NEW t \in Threads, NEW label, Goto(t, label), target' = target
    PROVE  Moves(t, label, target[t])
  BY DEF TypeOK, Moves, Goto

(* The threads at the labels L that use s, after a move of t.              *)
LEMMA MoveUses ==
    ASSUME TypeOK, NEW t \in Threads, NEW label, NEW g, Moves(t, label, g),
           NEW u, NEW L
    PROVE  Uses(u, L)' = (Uses(u, L) \ {t}) \cup (IF g = u /\ label \in L THEN {t} ELSE {})
  BY DEF TypeOK, Uses, Moves

(* Uses(s, L), read pointwise.                                             *)
LEMMA UsesMember ==
    ASSUME NEW t \in Threads, NEW u, NEW L
    PROVE  t \in Uses(u, L) <=> target[t] = u /\ pc[t] \in L
  BY DEF Uses

(* A move within L, or outside L, on the same session.                     *)
LEMMA UsesKept ==
    ASSUME TypeOK, NEW t \in Threads, NEW label, NEW g, Moves(t, label, g), NEW L,
           pc[t] \in L <=> label \in L, label \in L => g = target[t]
    PROVE  \A u : Uses(u, L)' = Uses(u, L)
<1>1. TAKE u
<1>2. Uses(u, L)' = (Uses(u, L) \ {t}) \cup (IF g = u /\ label \in L THEN {t} ELSE {})
  BY MoveUses
<1>3. t \in Uses(u, L) <=> g = u /\ label \in L
  BY UsesMember
<1>4. QED  BY <1>2, <1>3

(* A move into L.                                                          *)
LEMMA UsesGained ==
    ASSUME TypeOK, NEW t \in Threads, NEW label, NEW g, Moves(t, label, g), NEW L,
           pc[t] \notin L, label \in L
    PROVE  \A u : /\ t \notin Uses(u, L)
                  /\ u = g => Uses(u, L)' = Uses(u, L) \cup {t}
                  /\ u # g => Uses(u, L)' = Uses(u, L)
  BY MoveUses, UsesMember

(* A move out of L.                                                        *)
LEMMA UsesLost ==
    ASSUME TypeOK, NEW t \in Threads, NEW label, NEW g, Moves(t, label, g), NEW L,
           pc[t] \in L, label \notin L
    PROVE  \A u : /\ u = target[t] => t \in Uses(u, L) /\ Uses(u, L)' = Uses(u, L) \ {t}
                  /\ u # target[t] => Uses(u, L)' = Uses(u, L)
  BY MoveUses, UsesMember

(* Where SignalSubscriber returns to.                                      *)
LEMMA AfterSignalLabel ==
    ASSUME NEW t \in Threads
    PROVE  /\ AfterSignal(t) \in {"deliver", "closing", "erase"}
           /\ AfterSignal(t) = "deliver" <=> t \in Publishers
           /\ AfterSignal(t) = "closing" <=> t = Closer
  BY ThreadsAssumption DEF AfterSignal, Threads

-----------------------------------------------------------------------------
(* Steps that only move a thread between labels the invariant does not     *)
(* speak of.                                                               *)

Untracked == Labels \ (InCancel \cup {"pull", "pulled", "destroy", "gone", "absent"})

(* A step that moves one thread outside the critical labels and leaves the *)
(* frames, the continuations and the counters alone keeps FrameInv.        *)
LEMMA Unaffected ==
    ASSUME FrameInv, TypeOK', ThreadsInv',
           NEW t \in Threads, NEW label \in Untracked, NEW g, Moves(t, label, g),
           pc[t] \in Untracked \cup {"absent"},
           t \in Sessions /\ label = "wait" => ~resumeAfterYield[t],
           UNCHANGED <<frame, wakeup, events, closed, pending, cancelled>>
    PROVE  FrameInv'
<1>1. \A u : /\ Uses(u, Holding)' = Uses(u, Holding)
             /\ Uses(u, Running)' = Uses(u, Running)
             /\ Uses(u, {"resume"})' = Uses(u, {"resume"})
             /\ Uses(u, Resuming)' = Uses(u, Resuming)
             /\ Uses(u, Waking)' = Uses(u, Waking)
             /\ Uses(u, InCancel)' = Uses(u, InCancel)
  <2>1. TypeOK  BY DEF FrameInv
  <2>2. /\ pc[t] \notin Holding /\ pc[t] \notin Running /\ pc[t] # "resume"
        /\ pc[t] \notin Resuming /\ pc[t] \notin Waking /\ pc[t] \notin InCancel
    BY DEF Untracked, Holding, Running, Resuming, Waking, InCancel, Signalling
  <2>3. /\ label \notin Holding /\ label \notin Running /\ label # "resume"
        /\ label \notin Resuming /\ label \notin Waking /\ label \notin InCancel
    BY DEF Untracked, Holding, Running, Resuming, Waking, InCancel, Signalling
  <2>4. QED  BY <2>1, <2>2, <2>3, UsesKept
<1>2. MutexInv' /\ RunInv' /\ PermitInv'
  BY <1>1 DEF FrameInv, MutexInv, RunInv, PermitInv, frame, wakeup
<1>3. YieldInv'
  <2>1. \A u \in Sessions :
            /\ pc'[u] = "gone" <=> pc[u] = "gone"
            /\ pc'[u] = "absent" => pc[u] = "absent"
            /\ pc'[u] \in {"pull", "pulled"} <=> pc[u] \in {"pull", "pulled"}
            /\ pc'[u] = "wait" => pc[u] = "wait" \/ ~resumeAfterYield[u]
    <3>1. \A u \in Sessions : pc'[u] = IF u = t THEN label ELSE pc[u]
      BY DEF FrameInv, TypeOK, Moves, Threads
    <3>2. QED  BY <3>1 DEF Untracked
  <2>2. QED  BY <2>1 DEF FrameInv, YieldInv, frame
<1>4. CloseInv'
  <2>1. \A u \in Threads : pc'[u] \in InCancel => pc'[u] = pc[u] /\ target'[u] = target[u]
    BY DEF FrameInv, TypeOK, Moves, Untracked
  <2>2. QED  BY <2>1 DEF FrameInv, CloseInv, wakeup, Threads
<1>5. QuietInv'
  <2>1. \A u \in Sessions : pc'[u] \in {"destroy", "gone"} => pc'[u] = pc[u]
    BY DEF FrameInv, TypeOK, Moves, Untracked, Threads
  <2>2. QED  BY <2>1, <1>1 DEF FrameInv, QuietInv, Quiet, Cancels, wakeup
<1>6. WakeupInv' /\ StagedInv' /\ PendingCount'
  BY <1>1 DEF FrameInv, WakeupInv, Ready, StagedInv, PendingCount, Counted, frame
<1>7. ActiveResumes'
  BY <1>1 DEF FrameInv, ActiveResumes, Resuming, wakeup
<1>8. QED  BY <1>2, <1>3, <1>4, <1>5, <1>6, <1>7 DEF FrameInv

(* The consumer's moves between NextFor calls.                             *)
LEMMA ConsumerMove ==
    ASSUME FrameInv, NEW s \in Sessions, NEW label, Goto(s, label),
           pc[s] \in {"next", "wait", "isDone", "isClosed", "isPending", "write"},
           label \in {"next", "wait", "isDone", "isClosed", "isPending", "write", "leave"},
           label = "wait" => ~resumeAfterYield[s],
           UNCHANGED <<service, subscriber, wakeup, frame, locals, log, delivered, cut>>,
           outcome' \in [Sessions -> {"open", "ended", "aborted"}]
    PROVE  FrameInv'
<1>0. s \in Threads /\ TypeOK  BY DEF Threads, FrameInv
<1>1. Moves(s, label, target[s])  BY <1>0, GotoMoves DEF locals
<1>2. label \in Untracked /\ pc[s] \in Untracked
  BY DEF Untracked, Labels, InCancel, Signalling, Resuming
<1>3. TypeOK'
  <2>1. pc' \in [Threads -> Labels]  BY <1>0, <1>1, <1>2 DEF TypeOK, Moves, Untracked
  <2>2. QED  BY <1>0, <2>1 DEF TypeOK, service, subscriber, wakeup, frame, locals
<1>4. ThreadsInv'
  <2>1. /\ \A u \in Threads : pc'[u] = IF u = s THEN label ELSE pc[u]
        /\ UNCHANGED <<target, message>>
    BY <1>0, <1>1 DEF TypeOK, Moves, locals
  <2>2. QED  BY <2>1, ThreadsAssumption DEF FrameInv, ThreadsInv, Threads
<1>5. QED  BY <1>0, <1>1, <1>2, <1>3, <1>4, Unaffected DEF subscriber

-----------------------------------------------------------------------------
(* SignalSubscriber.                                                       *)

(* A thread inside SignalSubscriber works on a session.                    *)
LEMMA SignalTarget ==
    ASSUME ThreadsInv, NEW t \in Threads, pc[t] \in Signalling
    PROVE  target[t] \in Sessions
  BY DEF ThreadsInv, Threads, Signalling, Resuming, InCancel

(* A thread inside Cancel works on a session.                              *)
LEMMA CancelTarget ==
    ASSUME ThreadsInv
    PROVE  \A t \in Cancellers \cup Sessions :
               t \in Threads /\ (pc[t] \in InCancel => target[t] \in Sessions)
  BY DEF ThreadsInv, Threads, Signalling, Resuming, InCancel

(* Only the consumer of s executes its frame without being a signaller.    *)
LEMMA PullsOwnFrame ==
    ASSUME ThreadsInv, NEW s \in Sessions
    PROVE  Uses(s, {"pull", "pulled"}) \subseteq {s}
  BY DEF ThreadsInv, Uses, Threads, Signalling, Resuming, InCancel

(* A step of SignalSubscriber keeps ThreadsInv: the thread goes on with the *)
(* resume or returns to where SignalSubscriber was called.                 *)
LEMMA SignalThreads ==
    ASSUME ThreadsInv, NEW t \in Threads, pc[t] \in Signalling,
           NEW label \in Resuming \cup {AfterSignal(t)},
           \A v \in Threads : pc'[v] = IF v = t THEN label ELSE pc[v],
           \A v \in Threads : target'[v] = target[v],
           message' = message
    PROVE  ThreadsInv'
<1>1. ASSUME NEW p \in Publishers
      PROVE  /\ pc'[p] \in {"idle", "deliver"} \cup Signalling
             /\ pc'[p] \in Signalling => target'[p] \in Sessions
             /\ pc'[p] # "idle" => message'[p] > Snapshot
  <2>1. p \in Threads /\ (p = t => AfterSignal(t) = "deliver")
    BY AfterSignalLabel DEF Threads
  <2>2. QED  BY <2>1 DEF ThreadsInv, Signalling, Resuming
<1>2. /\ pc'[Closer] \in {"idle", "closing", "exit"} \cup Signalling
      /\ pc'[Closer] \in Signalling => target'[Closer] \in Sessions
  <2>1. Closer \in Threads /\ (Closer = t => AfterSignal(t) = "closing")
    BY AfterSignalLabel DEF Threads
  <2>2. QED  BY <2>1 DEF ThreadsInv, Signalling, Resuming
<1>3. ASSUME NEW v \in Threads, v = t, t \notin Publishers, t # Closer
      PROVE  pc'[v] \in InCancel /\ pc'[v] \notin {"idle", "exit", "deliver", "closing"}
  <2>1. AfterSignal(t) = "erase"  BY <1>3, AfterSignalLabel
  <2>2. QED  BY <1>3, <2>1 DEF InCancel, Signalling, Resuming
<1>4. ASSUME NEW c \in Cancellers
      PROVE  /\ pc'[c] \in {"idle", "exit"} \cup InCancel
             /\ pc'[c] # "idle" => target'[c] \in Sessions
  <2>1. c \in Threads /\ c \notin Publishers /\ c # Closer
    BY ThreadsAssumption DEF Threads
  <2>2. CASE c = t
    <3>1. target[c] \in Sessions  BY <2>2, SignalTarget
    <3>2. QED  BY <2>1, <2>2, <1>3, <3>1
  <2>3. CASE c # t  BY <2>1, <2>3 DEF ThreadsInv
  <2>4. QED  BY <2>2, <2>3
<1>5. ASSUME NEW s \in Sessions
      PROVE  /\ pc'[s] \notin {"idle", "exit", "deliver", "closing"}
             /\ target'[s] = s
  <2>1. s \in Threads /\ s \notin Publishers /\ s # Closer
    BY ThreadsAssumption DEF Threads
  <2>2. QED  BY <2>1, <1>3 DEF ThreadsInv
<1>6. QED  BY <1>1, <1>2, <1>4, <1>5 DEF ThreadsInv

(* Taking a free resume_mutex keeps MutexInv.                              *)
LEMMA MutexTaken ==
    ASSUME TypeOK, MutexInv, NEW t \in Threads, NEW s \in Sessions,
           resumeMutex[s] = NoThread, resumeMutex' = [resumeMutex EXCEPT ![s] = t],
           \A u \in Sessions :
               Uses(u, Holding)' = Uses(u, Holding) \cup (IF u = s THEN {t} ELSE {})
    PROVE  MutexInv'
<1>1. NoThread \notin Threads  BY ThreadsAssumption DEF Threads
<1>2. \A u \in Sessions : resumeMutex'[u] = IF u = s THEN t ELSE resumeMutex[u]
  BY DEF TypeOK
<1>3. \A v \in Threads : v \notin Uses(s, Holding)  BY <1>1 DEF MutexInv
<1>4. QED  BY <1>2, <1>3 DEF MutexInv

(* Releasing resume_mutex keeps MutexInv.                                  *)
LEMMA MutexReleased ==
    ASSUME TypeOK, MutexInv, NEW t \in Threads, NEW s \in Sessions,
           t \in Uses(s, Holding), resumeMutex' = [resumeMutex EXCEPT ![s] = NoThread],
           \A u \in Sessions :
               Uses(u, Holding)' = Uses(u, Holding) \ (IF u = s THEN {t} ELSE {})
    PROVE  MutexInv'
<1>1. NoThread \notin Threads  BY ThreadsAssumption DEF Threads
<1>2. \A u \in Sessions : resumeMutex'[u] = IF u = s THEN NoThread ELSE resumeMutex[u]
  BY DEF TypeOK
<1>3. \A v \in Threads : v \in Uses(s, Holding) => v = t  BY DEF MutexInv
<1>4. QED  BY <1>1, <1>2, <1>3 DEF MutexInv

(* A move of a consumer outside SignalSubscriber keeps ThreadsInv.         *)
LEMMA ConsumerThreads ==
    ASSUME ThreadsInv, NEW s \in Sessions,
           NEW label \in Labels \ {"idle", "exit", "deliver", "closing"},
           \A v \in Threads : pc'[v] = IF v = s THEN label ELSE pc[v],
           \A v \in Threads : target'[v] = target[v],
           message' = message
    PROVE  ThreadsInv'
<1>1. /\ s \in Threads /\ s \notin Publishers /\ s # Closer /\ s \notin Cancellers
      /\ \A v \in Publishers \cup Cancellers \cup Sessions \cup {Closer} : v \in Threads
  BY ThreadsAssumption DEF Threads
<1>2. \A v \in Publishers \cup Cancellers \cup {Closer} : pc'[v] = pc[v] /\ target'[v] = target[v]
  BY <1>1
<1>3. \A v \in Sessions : pc'[v] \notin {"idle", "exit", "deliver", "closing"} /\ target'[v] = v
  BY <1>1 DEF ThreadsInv
<1>4. QED  BY <1>2, <1>3 DEF ThreadsInv

(* A step that leaves the frames, their mutexes, the continuations and     *)
(* their users alone keeps what FrameInv says of them.                     *)
LEMMA UsersKept ==
    ASSUME MutexInv, RunInv, PermitInv,
           at' = at, resumeMutex' = resumeMutex, continuation' = continuation,
           \A u \in Sessions : Uses(u, Holding)' = Uses(u, Holding),
           \A u \in Sessions : Uses(u, Running)' = Uses(u, Running),
           \A u \in Sessions : Uses(u, {"resume"})' = Uses(u, {"resume"})
    PROVE  MutexInv' /\ RunInv' /\ PermitInv'
<1>1. MutexInv'  BY DEF MutexInv
<1>2. RunInv'  BY DEF RunInv
<1>3. PermitInv'  BY DEF PermitInv
<1>4. QED  BY <1>1, <1>2, <1>3

(* What YieldInv says of one session.                                      *)
Yields(s) ==
    /\ at[s] # "undefined"
    /\ at[s] = "destroyed" <=> pc[s] = "gone"
    /\ pc[s] = "absent" => at[s] = "initial"
    /\ at[s] = "initial" => ~started[s]
    /\ ~started[s] => at[s] \in {"initial", "destroyed"}
    /\ resumeAfterYield[s] => at[s] \in {"yield", "destroyed"} /\ value[s] = NoEvent
    /\ value[s] # NoEvent => at[s] \in {"yield", "destroyed"}
    /\ pc[s] \in {"pull", "pulled", "wait"} => ~resumeAfterYield[s]

LEMMA YieldsAll ==
    /\ YieldInv <=> \A s \in Sessions : Yields(s)
    /\ YieldInv' <=> \A s \in Sessions : Yields(s)'
  BY DEF YieldInv, Yields

(* A session whose frame and whose consumer's label stay as they were      *)
(* still satisfies YieldInv.                                               *)
LEMMA YieldsKept ==
    ASSUME NEW s \in Sessions, Yields(s),
           at'[s] = at[s], started'[s] = started[s], value'[s] = value[s],
           resumeAfterYield'[s] = resumeAfterYield[s], pc'[s] = pc[s]
    PROVE  Yields(s)'
  BY DEF Yields

(* So does one whose consumer moves between labels of a started frame.     *)
LEMMA YieldsMoved ==
    ASSUME NEW s \in Sessions, Yields(s),
           at'[s] = at[s], started'[s] = started[s], value'[s] = value[s],
           resumeAfterYield'[s] = resumeAfterYield[s],
           pc[s] # "gone", pc'[s] # "gone", pc'[s] # "absent",
           pc'[s] \in {"pull", "pulled", "wait"} => pc[s] \in {"pull", "pulled", "wait"}
    PROVE  Yields(s)'
  BY DEF Yields
=============================================================================
