---------------------------- MODULE ReactorPool ----------------------------
(***************************************************************************)
(* Who owns a CurlStreamReactor, and who destroys it.  The process-wide    *)
(* CurlStreamReactorPool pins one reactor per shard; request slots, stream *)
(* slots and running streams hold shared_ptrs to it; a ClientState keeps a *)
(* weak_ptr to its primary reactor.  The destructor of the last ClientState*)
(* owner, which may run on the application's thread, on a dispatch worker  *)
(* or on a reactor's own thread, calls ReleaseUnused: it drops every       *)
(* reactor only the pool still owns, and joins the reactor's thread while  *)
(* it holds the shard's mutex.                                             *)
(***************************************************************************)
EXTENDS Integers, FiniteSets

CONSTANTS Clients,
          PoolSize,     \* kPoolSize
          MaxReactors   \* bound on the reactors ever created

PoolAssumption == PoolSize \in Nat \ {0} /\ MaxReactors \in Nat \ {0}

None == 0
Reactors == 1 .. MaxReactors
Shards == 1 .. PoolSize

App(c) == <<"app", c>>
Worker(c) == <<"worker", c>>       \* the dispatch worker draining c's stream
ReactorThread(r) == <<"reactor", r>>
Deferred == <<"deferred", None>>   \* the worker running a deferred release
NoThread == <<"none", None>>
Threads == {App(c) : c \in Clients} \cup {Worker(c) : c \in Clients}
             \cup {ReactorThread(r) : r \in Reactors} \cup {Deferred}

VARIABLES
  refs,       \* the shared_ptrs: pairs <<holder, reactor>>
  mutex,      \* reactor_mutexes_: the thread in ReleaseUnused holding it
  next,       \* next_reactor_
  created,    \* reactors created so far
  dead,       \* reactors whose destructor has run
  primary,    \* primary_reactor: a weak_ptr
  requested,  \* the client's request slot: fresh, used (in a request), idle, none
  stream,     \* the client's stream: none, active, finishing, gone
  holders,    \* who still holds the AsyncStreamState: reactor, worker
  cancelled,  \* CancelOwner reached the reactor of the client's stream
  pc,         \* the application thread of each client
  shard,      \* the shard each thread has reached in CancelOwner / ReleaseUnused
  releasing,  \* where each thread is in ReleaseUnused
  deferrals,  \* ReleaseUnused met the reactor of its own thread
  joining,    \* reactors whose thread this thread must join
  deferred,   \* releases submitted to the executor
  selfJoin    \* history: a reactor's destructor ran on its own thread

clientVars == <<primary, requested, stream, holders, cancelled, pc>>
releaseVars == <<shard, releasing, deferrals>>
vars == <<refs, mutex, next, created, dead, clientVars, releaseVars, joining,
          deferred, selfJoin>>

UseCount(r) == Cardinality({p \in refs : p[2] = r})
Held(holder) == {p \in refs : p[1] = holder}
ReactorOf(holder) == IF Held(holder) = {} THEN None ELSE (CHOOSE p \in Held(holder) : TRUE)[2]
Pooled(i) == ReactorOf(<<"pool", i>>)

Idle(th) == releasing[th] = "no" /\ joining[th] = {}

Init ==
  /\ refs = {} /\ mutex = [i \in Shards |-> NoThread] /\ next = 0 /\ created = 0
  /\ dead = {} /\ primary = [c \in Clients |-> None]
  /\ requested = [c \in Clients |-> "fresh"]
  /\ stream = [c \in Clients |-> "none"] /\ holders = [c \in Clients |-> {}]
  /\ cancelled = [c \in Clients |-> FALSE] /\ pc = [c \in Clients |-> "open"]
  /\ shard = [t \in Threads |-> 1] /\ releasing = [t \in Threads |-> "no"]
  /\ deferrals = [t \in Threads |-> FALSE] /\ joining = [t \in Threads |-> {}]
  /\ deferred = 0 /\ selfJoin = FALSE

-----------------------------------------------------------------------------
(* Drop shared_ptrs: whoever drops the last one runs the destructor, and   *)
(* so Shutdown and the join, on its own thread.                            *)
Drop(th, gone) ==
  LET left == refs \ gone
      last == {p[2] : p \in gone} \ {p[2] : p \in left}
  IN  /\ refs' = left
      /\ joining' = [joining EXCEPT ![th] = @ \cup last]

(* The join returns when the reactor's thread has left what it was doing.  *)
(* On the reactor's own thread it throws, out of a noexcept destructor.    *)
Join(th) ==
  \E r \in joining[th] :
    /\ selfJoin' = (selfJoin \/ th = ReactorThread(r))
    /\ th # ReactorThread(r) =>
         /\ Idle(ReactorThread(r))
         /\ \A c \in Clients : "reactor" \in holders[c] => ReactorOf(<<"async", c>>) # r
    /\ joining' = [joining EXCEPT ![th] = @ \ {r}]
    /\ dead' = dead \cup {r}
    /\ UNCHANGED <<refs, mutex, next, created, clientVars, releaseVars, deferred>>

(* CurlStreamReactorPool::Acquire, round robin over the shards.            *)
Acquire(holderSet) ==
  LET i == (next % PoolSize) + 1
      r == IF Pooled(i) # None THEN Pooled(i) ELSE created + 1
  IN  /\ mutex[i] = NoThread
      /\ next' = (next + 1) % PoolSize
      /\ r \in Reactors
      /\ created' = IF Pooled(i) # None THEN created ELSE created + 1
      /\ refs' = refs \cup {<<h, r>> : h \in holderSet \cup {<<"pool", i>>}}

(* GetOrCreatePrimaryReactor locks the weak_ptr without the shard's mutex. *)
AcquirePrimaryFromPool(c, holderSet) ==
  /\ Acquire(holderSet)
  /\ primary' = [primary EXCEPT ![c] = IF Pooled((next % PoolSize) + 1) # None
                                       THEN Pooled((next % PoolSize) + 1) ELSE created + 1]

GetOrCreatePrimaryReactor(c, holderSet) ==
  \/ /\ primary[c] # None /\ UseCount(primary[c]) > 0
     /\ refs' = refs \cup {<<h, primary[c]>> : h \in holderSet}
     /\ UNCHANGED <<primary, next, created>>
  \/ /\ primary[c] = None \/ UseCount(primary[c]) = 0
     /\ AcquirePrimaryFromPool(c, holderSet)

-----------------------------------------------------------------------------
(* The application thread of a client: unary requests, one at a time, and  *)
(* one stream.  The slot the client was built with uses the primary        *)
(* reactor, an idle slot keeps its own, a new slot asks the pool.          *)
AcquireRequestSlot(c) ==
  /\ pc[c] = "open" /\ Idle(App(c))
  /\ \/ /\ requested[c] = "idle" /\ UNCHANGED <<refs, primary, next, created>>
     \/ /\ requested[c] = "fresh"
        /\ GetOrCreatePrimaryReactor(c, {<<"request", c>>})
     \/ /\ requested[c] = "none"
        /\ Acquire({<<"request", c>>}) /\ UNCHANGED primary
  /\ requested' = [requested EXCEPT ![c] = "used"]
  /\ UNCHANGED <<mutex, dead, stream, holders, cancelled, pc, releaseVars, joining,
                 deferred, selfJoin>>

(* The slot goes back to the idle pool only if the request succeeded.      *)
EndRequest(c) ==
  /\ requested[c] = "used"
  /\ \/ /\ requested' = [requested EXCEPT ![c] = "idle"]
        /\ UNCHANGED <<refs, joining>>
     \/ /\ requested' = [requested EXCEPT ![c] = "none"]
        /\ Drop(App(c), Held(<<"request", c>>))
  /\ UNCHANGED <<mutex, next, created, dead, primary, stream, holders, cancelled, pc,
                 releaseVars, deferred, selfJoin>>

(* AcquireStreamSlot and StartStreamRequest: the client's first stream     *)
(* shares the primary reactor, and its AsyncStreamState keeps a second     *)
(* shared_ptr.                                                             *)
StartStream(c) ==
  /\ pc[c] = "open" /\ Idle(App(c)) /\ requested[c] # "used" /\ stream[c] = "none"
  /\ GetOrCreatePrimaryReactor(c, {<<"slot", c>>, <<"async", c>>})
  /\ stream' = [stream EXCEPT ![c] = "active"]
  /\ UNCHANGED <<mutex, dead, requested, holders, cancelled, pc, releaseVars, joining,
                 deferred, selfJoin>>

(* The reactor completes the transfer and calls Finish: Finalize, then the *)
(* terminal task.  It holds the AsyncStreamState until it returns.         *)
FinishStream(c) ==
  LET r == ReactorOf(<<"async", c>>)
  IN  /\ stream[c] = "active" /\ Idle(ReactorThread(r))
      /\ \A d \in Clients : "reactor" \in holders[d] => ReactorOf(<<"async", d>>) # r
      /\ stream' = [stream EXCEPT ![c] = "finishing"]
      /\ holders' = [holders EXCEPT ![c] = {"reactor", "worker"}]
      /\ UNCHANGED <<refs, mutex, next, created, dead, primary, requested, cancelled,
                     pc, releaseVars, joining, deferred, selfJoin>>

(* The thread starts ~ClientState: idle slots first, then ReleaseUnused.   *)
DestroyState(th, c) ==
  releasing' = [releasing EXCEPT ![th] = "lock"] /\ shard' = [shard EXCEPT ![th] = 1]

(* Letting go of the AsyncStreamState: the last one drops the reactor and  *)
(* then the ClientState.                                                   *)
LetGo(who, th, c, also) ==
  LET left == holders[c] \ {who}
      destroys == left = {} /\ pc[c] = "closed"
  IN  /\ holders' = [holders EXCEPT ![c] = left]
      /\ stream' = [stream EXCEPT ![c] = IF left = {} THEN "gone" ELSE @]
      /\ Drop(th, UNION {also,
                         IF left = {} THEN Held(<<"async", c>>) ELSE {},
                         IF destroys THEN Held(<<"request", c>>) ELSE {}})
      /\ IF destroys THEN DestroyState(th, c) ELSE UNCHANGED <<releasing, shard>>

(* The terminal task: ReleaseStreamSlot keeps the slot unless the client   *)
(* is shutting down, completion, and the end of the task.                  *)
TerminalTask(c) ==
  /\ "worker" \in holders[c] /\ Idle(Worker(c))
  /\ LetGo("worker", Worker(c), c, IF pc[c] = "open" THEN {} ELSE Held(<<"slot", c>>))
  /\ UNCHANGED <<mutex, next, created, dead, primary, requested, cancelled, pc,
                 deferrals, deferred, selfJoin>>

ReturnFromOnComplete(c) ==
  /\ "reactor" \in holders[c]
  /\ LET r == ReactorOf(<<"async", c>>)
     IN  Idle(ReactorThread(r)) /\ LetGo("reactor", ReactorThread(r), c, {})
  /\ UNCHANGED <<mutex, next, created, dead, primary, requested, cancelled, pc,
                 deferrals, deferred, selfJoin>>

-----------------------------------------------------------------------------
(* Client::Shutdown and ReleaseOwner.                                      *)
ShutdownBegins(c) ==
  /\ pc[c] = "open" /\ Idle(App(c)) /\ requested[c] # "used"
  /\ pc' = [pc EXCEPT ![c] = IF stream[c] = "active" THEN "cancel" ELSE "wait"]
  /\ shard' = [shard EXCEPT ![App(c)] = 1]
  /\ UNCHANGED <<refs, mutex, next, created, dead, primary, requested, stream, holders,
                 cancelled, releasing, deferrals, joining, deferred, selfJoin>>

(* CancelOwner copies each shard's shared_ptr under the shard's mutex and  *)
(* calls the reactor outside it.                                           *)
CancelOwner(c) ==
  LET i == shard[App(c)]
  IN  /\ pc[c] = "cancel" /\ mutex[i] = NoThread /\ Held(<<"local", c>>) = {}
      /\ refs' = refs \cup {<<<<"local", c>>, r>> : r \in {Pooled(i)} \ {None}}
      /\ cancelled' = [cancelled EXCEPT
                         ![c] = @ \/ (Pooled(i) # None /\ Pooled(i) = ReactorOf(<<"async", c>>))]
      /\ pc' = [pc EXCEPT ![c] = "drop"]
      /\ UNCHANGED <<mutex, next, created, dead, primary, requested, stream, holders,
                     releaseVars, joining, deferred, selfJoin>>

CancelledShard(c) ==
  /\ pc[c] = "drop"
  /\ Drop(App(c), Held(<<"local", c>>))
  /\ shard' = [shard EXCEPT ![App(c)] = @ + 1]
  /\ pc' = [pc EXCEPT ![c] = IF shard[App(c)] = PoolSize THEN "wait" ELSE "cancel"]
  /\ UNCHANGED <<mutex, next, created, dead, primary, requested, stream, holders,
                 cancelled, releasing, deferrals, deferred, selfJoin>>

(* Shutdown waits for active_streams = 0 and drops the idle stream slots;  *)
(* ReleaseOwner resets state_, which destroys the state unless a stream    *)
(* that is finishing still owns it.  Idle request slots go with the state. *)
ShutdownEnds(c) ==
  /\ pc[c] = "wait" /\ Idle(App(c)) /\ stream[c] # "active"
  /\ pc' = [pc EXCEPT ![c] = "closed"]
  /\ Drop(App(c), (IF stream[c] = "finishing" THEN {} ELSE Held(<<"request", c>>)) \cup
                  (IF "worker" \in holders[c] THEN {} ELSE Held(<<"slot", c>>)))
  /\ IF stream[c] # "finishing" THEN DestroyState(App(c), c)
                               ELSE UNCHANGED <<releasing, shard>>
  /\ UNCHANGED <<mutex, next, created, dead, primary, requested, stream, holders,
                 cancelled, deferrals, deferred, selfJoin>>

-----------------------------------------------------------------------------
(* ReleaseUnused, shard by shard under the shard's mutex.                  *)
LockShard(th) ==
  /\ releasing[th] = "lock" /\ joining[th] = {}
  /\ mutex[shard[th]] = NoThread
  /\ mutex' = [mutex EXCEPT ![shard[th]] = th]
  /\ releasing' = [releasing EXCEPT ![th] = "check"]
  /\ UNCHANGED <<refs, next, created, dead, clientVars, shard, deferrals, joining,
                 deferred, selfJoin>>

CheckShard(th) ==
  LET r == Pooled(shard[th])
      unused == r # None /\ UseCount(r) = 1
      own == unused /\ th = ReactorThread(r)   \* IsCurrentThread
  IN  /\ releasing[th] = "check"
      /\ releasing' = [releasing EXCEPT ![th] = IF unused /\ ~own THEN "reset" ELSE "unlock"]
      /\ deferrals' = [deferrals EXCEPT ![th] = @ \/ own]
      /\ UNCHANGED <<refs, mutex, next, created, dead, clientVars, shard, joining,
                     deferred, selfJoin>>

ResetShard(th) ==
  /\ releasing[th] = "reset"
  /\ Drop(th, Held(<<"pool", shard[th]>>))
  /\ releasing' = [releasing EXCEPT ![th] = "unlock"]
  /\ UNCHANGED <<mutex, next, created, dead, clientVars, shard, deferrals, deferred,
                 selfJoin>>

(* The next shard, or the end of ~ClientState: a release that met its own  *)
(* thread is handed to the executor.                                       *)
UnlockForgetting(th) ==
  /\ releasing[th] = "unlock" /\ joining[th] = {}
  /\ mutex' = [mutex EXCEPT ![shard[th]] = NoThread]
  /\ releasing' = [releasing EXCEPT ![th] = IF shard[th] = PoolSize THEN "no" ELSE "lock"]
  /\ shard' = [shard EXCEPT ![th] = IF @ = PoolSize THEN 1 ELSE @ + 1]
  /\ UNCHANGED <<refs, next, created, dead, clientVars, deferrals, joining, deferred,
                 selfJoin>>

UnlockShard(th) ==
  LET done == shard[th] = PoolSize
  IN  /\ releasing[th] = "unlock" /\ joining[th] = {}
      /\ mutex' = [mutex EXCEPT ![shard[th]] = NoThread]
      /\ releasing' = [releasing EXCEPT ![th] = IF done THEN "no" ELSE "lock"]
      /\ shard' = [shard EXCEPT ![th] = IF done THEN 1 ELSE @ + 1]
      /\ deferrals' = [deferrals EXCEPT ![th] = @ /\ ~done]
      /\ deferred' = deferred + IF done /\ deferrals[th] THEN 1 ELSE 0
      /\ UNCHANGED <<refs, next, created, dead, clientVars, joining, selfJoin>>

DeferUnusedReactorRelease ==
  /\ deferred > 0 /\ Idle(Deferred)
  /\ deferred' = deferred - 1
  /\ releasing' = [releasing EXCEPT ![Deferred] = "lock"]
  /\ UNCHANGED <<refs, mutex, next, created, dead, clientVars, shard, deferrals,
                 joining, selfJoin>>

Releases(th) == \/ Join(th) \/ LockShard(th) \/ CheckShard(th) \/ ResetShard(th)
                \/ UnlockShard(th)

Teardown(c) == \/ EndRequest(c) \/ TerminalTask(c) \/ ReturnFromOnComplete(c)
               \/ CancelOwner(c) \/ CancelledShard(c) \/ ShutdownEnds(c)

Next == \/ \E c \in Clients : \/ AcquireRequestSlot(c) \/ StartStream(c)
                              \/ FinishStream(c) \/ ShutdownBegins(c) \/ Teardown(c)
        \/ \E th \in Threads : Releases(th)
        \/ DeferUnusedReactorRelease

(* Threads run; a stream the server keeps open ends once it is cancelled.  *)
Fairness == /\ \A c \in Clients : WF_vars(Teardown(c))
            /\ \A c \in Clients : WF_vars(cancelled[c] /\ FinishStream(c))
            /\ \A th \in Threads : WF_vars(Releases(th))
            /\ WF_vars(DeferUnusedReactorRelease)

Spec == Init /\ [][Next]_vars /\ Fairness

-----------------------------------------------------------------------------
Live == {r \in 1 .. created : r \notin dead}

TypeOK ==
  /\ \A p \in refs : p[2] \in Reactors
  /\ mutex \in [Shards -> Threads \cup {NoThread}]
  /\ created \in 0 .. MaxReactors /\ dead \subseteq 1 .. created
  /\ releasing \in [Threads -> {"no", "lock", "check", "reset", "unlock"}]
  /\ joining \in [Threads -> SUBSET Reactors]

(* The thread joining a reactor never holds the shard mutex the reactor's  *)
(* own thread is waiting for in its teardown.                              *)
SafeRelease ==
  ~ \E th \in Threads, r \in Reactors :
      /\ r \in joining[th]
      /\ releasing[ReactorThread(r)] = "lock"
      /\ mutex[shard[ReactorThread(r)]] = th

(* Once every client is closed its reactors are given back: the pool does  *)
(* not keep the thread of a reactor nobody uses, even when the last client *)
(* state died on that thread.                                              *)
PoolDrains == (\A c \in Clients : pc[c] = "closed") ~> (Live = {})

(* Shutdown reaches the stream wherever it runs, and returns.              *)
ShutdownReturns == \A c \in Clients : (pc[c] # "open") ~> (pc[c] = "closed")
=============================================================================
