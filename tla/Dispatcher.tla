----------------------------- MODULE Dispatcher -----------------------------
(***************************************************************************)
(* Dispatcher::Dispatch with its interceptors and DispatchSecurity.  Calls *)
(* run concurrently with AddInterceptor and SetSecurityPolicy, and with    *)
(* writes that change who may access a task.  The shared mutex is held by  *)
(* a call in its "authorize" and "before" steps and again in "after": a    *)
(* registration waits for them.  The hooks and the executor are external:  *)
(* they may write RequestContext::principal, and the executor may answer   *)
(* about any task.  executor_ is set.                                      *)
(***************************************************************************)
EXTENDS Naturals, Sequences, FiniteSets, SequencesExt

CONSTANTS Calls, Interceptors, Tasks, Principals,
          NoTask, Nobody

DispatcherAssumption == NoTask \notin Tasks /\ Nobody \notin Principals

Operations == {"get", "send", "push", "list", "stream", "card"}

VARIABLES
  interceptors,  \* interceptors_
  security,      \* security_ is set
  owner,         \* the store: whom CanAccessTask lets at a task; Nobody: not stored
  call,          \* the calls inside Dispatch
  stream,        \* the AuthorizedStream of a call: its task_id_
  reading,       \* the reader of the stream inside Read
  delivered      \* history: what the stream of a call delivered last

streamVars == <<stream, reading, delivered>>
vars == <<interceptors, security, owner, call, streamVars>>

Idle == [pc |-> "idle", op |-> "get", asks |-> NoTask, cut |-> FALSE, who |-> Nobody,
         principal |-> Nobody, secured |-> FALSE, next |-> 1, before |-> <<>>, after |-> <<>>,
         ok |-> TRUE, answered |-> FALSE, shows |-> NoTask, of |-> Nobody, kind |-> "none",
         form |-> "full", judged |-> "none"]

Init ==
  /\ interceptors = <<>> /\ security = FALSE
  /\ owner \in [Tasks -> Principals \cup {Nobody}]
  /\ call = [c \in Calls |-> Idle]
  /\ stream = [c \in Calls |-> NoTask] /\ reading = [c \in Calls |-> "none"]
  /\ delivered = [c \in Calls |-> <<>>]

Unlocked == \A c \in Calls : call[c].pc \notin {"authorize", "before", "after"}

AddInterceptor(h) ==
  /\ Unlocked /\ h \notin Range(interceptors)
  /\ interceptors' = Append(interceptors, h)
  /\ UNCHANGED <<security, owner, call, streamVars>>

SetSecurityPolicy ==
  /\ Unlocked /\ ~security /\ security' = TRUE
  /\ UNCHANGED <<interceptors, owner, call, streamVars>>

(* Another client of the store writes a task.                              *)
ChangeAccess(t) ==
  /\ \E p \in Principals \cup {Nobody} : p # owner[t] /\ owner' = [owner EXCEPT ![t] = p]
  /\ UNCHANGED <<interceptors, security, call, streamVars>>

-----------------------------------------------------------------------------
Becomes(c, r) == /\ call' = [call EXCEPT ![c] = r]
                 /\ UNCHANGED <<interceptors, security, owner, streamVars>>

(* The call leaves the lock and goes on to RunAfterInterceptors.           *)
Fails(r) == [r EXCEPT !.pc = "finish", !.ok = FALSE]

(* A request names a task where its operation may; who is the caller the   *)
(* policy will recognise, if it can.                                       *)
Dispatch(c) ==
  /\ call[c].pc = "idle"
  /\ \E op \in Operations, t \in Tasks \cup {NoTask}, p \in Principals \cup {Nobody},
        cut \in BOOLEAN :
       /\ op \in {"list", "card"} => t = NoTask
       /\ cut => op \in {"get", "send"}
       /\ Becomes(c, [Idle EXCEPT !.pc = "authorize", !.op = op, !.asks = t, !.who = p,
                                  !.cut = cut, !.secured = security])

Accessible(t, p) == p # Nobody /\ owner[t] = p

(* DispatchSecurity::Authorize: authentication, then the named task, then  *)
(* the operation.  A policy may refuse any operation.                      *)
Authorize(c) ==
  /\ call[c].pc = "authorize"
  /\ LET r == call[c]
         known == [r EXCEPT !.principal = r.who]
     IN  \/ ~r.secured /\ Becomes(c, [r EXCEPT !.pc = "before"])
         \/ r.secured /\ r.who = Nobody /\ Becomes(c, Fails(r))
         \/ r.secured /\ r.who # Nobody /\ Becomes(c, Fails(known))
         \/ /\ r.secured /\ r.who # Nobody
            /\ r.asks # NoTask => Accessible(r.asks, r.who)
            /\ Becomes(c, [known EXCEPT !.pc = "before"])

RestorePrincipal(r) == IF r.secured THEN [r EXCEPT !.principal = r.who] ELSE r

(* What external code leaves in context.principal.                         *)
Principal == Principals \cup {Nobody}

(* BeforeDispatch of the next interceptor, in registration order.          *)
BeforeDispatch(c) ==
  LET r == call[c]
      ran == [r EXCEPT !.before = Append(@, interceptors[r.next]), !.next = @ + 1]
  IN  /\ r.pc = "before" /\ r.next <= Len(interceptors)
      /\ \E p \in Principal :
           \/ Becomes(c, RestorePrincipal([ran EXCEPT !.principal = p]))
           \/ Becomes(c, Fails(RestorePrincipal([ran EXCEPT !.principal = p])))

(* The lock is released; DispatchToExecutor, or the secured listing, which *)
(* judges its tasks itself.  An answer holds a task, names one by its id   *)
(* (a push configuration, a message), or neither.                          *)
Answers(r) ==
  CASE r.op = "get"  -> {"task"} \X Tasks
    [] r.op = "push" -> ({"id"} \X Tasks) \cup {<<"none", NoTask>>}
    [] r.op = "send" -> ({"task", "id"} \X Tasks) \cup {<<"none", NoTask>>}
    [] r.op = "list" -> ({"list"} \X {t \in Tasks : r.secured => Accessible(t, r.principal)})
                          \cup {<<"none", NoTask>>}
    [] OTHER -> {<<"none", NoTask>>}

(* With a policy the executor is asked for the full task.  A payload that  *)
(* does not fit the operation fails like an executor that fails.           *)
Execute(c) ==
  LET r == call[c]
  IN  /\ r.pc = "before" /\ r.next > Len(interceptors)
      /\ \E p \in Principal :
           \/ Becomes(c, [r EXCEPT !.pc = "failed", !.principal = p, !.answered = TRUE])
           \/ \E a \in Answers(r) :
                /\ a[2] # NoTask => owner[a[2]] # Nobody
                /\ Becomes(c, [r EXCEPT !.pc = "respond", !.principal = p, !.answered = TRUE,
                        !.kind = a[1], !.shows = a[2],
                        !.of = IF a[2] = NoTask THEN Nobody ELSE owner[a[2]],
                        !.form = IF r.cut /\ ~r.secured THEN "cut" ELSE "full"])

ProjectEarly(r) ==
  LET form == IF r.cut /\ r.kind = "task" THEN "cut" ELSE r.form
  IN  [r EXCEPT !.judged = form, !.form = form]

(* AuthorizeResponse decides on the full task, ProjectTaskResponse then    *)
(* cuts its history.                                                       *)
ProjectTaskResponse(r) ==
  [r EXCEPT !.judged = r.form, !.form = IF r.cut /\ r.kind = "task" THEN "cut" ELSE @]

AuthorizeResponseTasks(r) == ~r.secured \/ r.kind # "task" \/ r.of = r.principal

(* A task is judged as it was answered; for an id the store is asked now.  *)
AuthorizeResponse(r) ==
  r.secured => /\ r.kind = "task" => r.of = r.principal
               /\ r.kind = "id" => Accessible(r.shows, r.principal)

Respond(c) ==
  LET r == RestorePrincipal(call[c])
      now == IF r.kind = "id" THEN [r EXCEPT !.of = owner[r.shows]] ELSE r
  IN  /\ r.pc = "respond"
      /\ \/ /\ AuthorizeResponse(r)
            /\ call' = [call EXCEPT ![c] = [ProjectTaskResponse(now) EXCEPT !.pc = "finish"]]
            /\ IF r.op = "stream" /\ r.secured
               THEN /\ stream' = [stream EXCEPT ![c] = r.asks]
                    /\ reading' = [reading EXCEPT ![c] = "open"]
               ELSE UNCHANGED <<stream, reading>>
            /\ UNCHANGED <<interceptors, security, owner, delivered>>
         \/ ~AuthorizeResponse(r) /\ Becomes(c, Fails(r))

NoResponse(c) ==
  /\ call[c].pc = "failed"
  /\ Becomes(c, Fails(RestorePrincipal(call[c])))

(* RunAfterInterceptors takes the lock again and walks, backwards, the     *)
(* interceptors registered by now.                                         *)
RunAfterInterceptors(c) ==
  /\ call[c].pc = "finish"
  /\ Becomes(c, [call[c] EXCEPT !.pc = "after", !.next = Len(interceptors)])

AfterInOrder(c) ==
  LET r == call[c]
      i == Len(interceptors) + 1 - r.next
  IN  /\ r.pc = "after" /\ r.next > 0
      /\ \E p \in Principal :
           Becomes(c, RestorePrincipal([r EXCEPT !.principal = p, !.next = @ - 1,
                                                 !.after = Append(@, interceptors[i])]))

AfterDispatch(c) ==
  LET r == call[c]
  IN  /\ r.pc = "after" /\ r.next > 0
      /\ \E p \in Principal :
           Becomes(c, RestorePrincipal([r EXCEPT !.principal = p, !.next = @ - 1,
                                                 !.after = Append(@, interceptors[r.next])]))

Return(c) == /\ call[c].pc = "after" /\ call[c].next = 0
             /\ Becomes(c, [call[c] EXCEPT !.pc = "done"])

-----------------------------------------------------------------------------
(* AuthorizedStream::Read.  Its first check and the inner Next, then the   *)
(* check of the event, which associates the stream with its task.  A       *)
(* message without a task belongs to the task of the stream, if any.  A    *)
(* timed Next may bring no event.  An error, and the end of the inner      *)
(* stream, end the reading.                                                *)
Reads(c, step) == /\ reading' = [reading EXCEPT ![c] = step]
                  /\ UNCHANGED <<interceptors, security, owner, call>>

Check(c) ==
  /\ call[c].pc = "done" /\ reading[c] = "open"
  /\ Reads(c, IF stream[c] = NoTask \/ Accessible(stream[c], call[c].who)
              THEN "checked" ELSE "ended")
  /\ UNCHANGED <<stream, delivered>>

Deliver(c, t) ==
  /\ stream' = [stream EXCEPT ![c] = t]
  /\ delivered' = [delivered EXCEPT ![c] = <<t, IF t = NoTask THEN Nobody ELSE owner[t]>>]
  /\ Reads(c, "open")

Read(c) ==
  /\ reading[c] = "checked"
  /\ \/ \E step \in {"open", "ended"} : Reads(c, step) /\ UNCHANGED <<stream, delivered>>
     \/ \E id \in Tasks \cup {NoTask} :
          LET t == IF id = NoTask THEN stream[c] ELSE id
          IN  /\ t # NoTask => Accessible(t, call[c].who)
              /\ Deliver(c, t)

Next ==
  \/ \E h \in Interceptors : AddInterceptor(h)
  \/ SetSecurityPolicy
  \/ \E t \in Tasks : ChangeAccess(t)
  \/ \E c \in Calls : \/ Dispatch(c) \/ Authorize(c) \/ BeforeDispatch(c) \/ Execute(c)
                      \/ Respond(c) \/ NoResponse(c) \/ RunAfterInterceptors(c)
                      \/ AfterDispatch(c) \/ Return(c) \/ Check(c) \/ Read(c)

Spec == Init /\ [][Next]_vars

-----------------------------------------------------------------------------
(* Every interceptor whose BeforeDispatch ran gets its AfterDispatch, once *)
(* and in reverse order, whether the call succeeds, is refused or fails,   *)
(* although the lock is not held in between.                               *)
HooksPaired ==
  \A c \in Calls : call[c].pc = "done" => IsPrefix(call[c].before, Reverse(call[c].after))

(* With a policy every hook is called with the authenticated principal,    *)
(* and so is the executor, whatever an earlier one wrote there.            *)
PrincipalKept ==
  \A c \in Calls :
    LET r == call[c]
    IN  r.secured /\ r.pc \in {"before", "finish", "after", "done"} => r.principal = r.who

(* Under a policy a call answers only about tasks its caller may access,   *)
(* whatever the executor answered and whoever wrote the task meanwhile.    *)
AnswersOwn ==
  \A c \in Calls :
    LET r == call[c]
    IN  r.pc = "done" /\ r.secured /\ r.ok /\ r.shows # NoTask => r.who # Nobody /\ r.of = r.who

(* The policy judges the full task, the caller gets the history length it  *)
(* asked for.                                                              *)
JudgedInFull ==
  \A c \in Calls :
    LET r == call[c]
    IN  r.pc = "done" /\ r.ok /\ r.kind = "task" =>
          /\ r.secured => r.judged = "full"
          /\ r.form = IF r.cut THEN "cut" ELSE "full"

(* An event of a secured stream is given out only while its reader may     *)
(* access its task, also a message without a task on a stream that is      *)
(* associated with one.                                                    *)
StreamsOwn ==
  \A c \in Calls :
    delivered[c] # <<>> /\ stream[c] # NoTask => delivered[c] = <<stream[c], call[c].who>>
=============================================================================
