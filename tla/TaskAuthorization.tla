-------------------------- MODULE TaskAuthorization --------------------------
(***************************************************************************)
(* TaskAuthorizationService over the task store and the subscription       *)
(* service.  Every call holds the service's mutex to its end and works on  *)
(* a snapshot of the task: it checks the snapshot, computes the next task, *)
(* writes it if the task's revision has not moved, publishes it, and for a *)
(* streaming call registers the stream.  Other clients of the store do not *)
(* take that mutex: they cancel tasks, append messages and create tasks at *)
(* any time, the writes the documentation allows beside the service.       *)
(*                                                                         *)
(* Taking the mutex and reading the snapshot are one step: until it has    *)
(* read the store, a call has observed nothing.  A call that fails before  *)
(* its conditional write changes nothing and is a stuttering step.         *)
(***************************************************************************)
EXTENDS TaskStore

CONSTANTS
    Callers,                \* threads that call the service
    Streams,                \* streams that may be opened
    Free,                   \* nobody holds the mutex
    AuthRequired, Working, Completed,   \* task states
    Marked                  \* metadata with the service's authorization marker

StatesOfTheService ==
    /\ {AuthRequired, Working, Completed} \subseteq States
    /\ Completed \in Terminal /\ AuthRequired \notin Terminal /\ Working \notin Terminal
    /\ AuthRequired # Working /\ Canceled # Completed
FreeIsNoCaller == Free \notin Callers

VARIABLES
    mutex,          \* TaskAuthorizationService::mutex_
    pc,             \* where each caller is: "idle", "persist", "publish", "register"
    snapshot,       \* the caller's TaskSnapshot: id, task, revision it was read at
    streaming,      \* will the caller register a stream?
    latest,         \* latest_task_states_by_id: the state last published
    open,           \* the streams whose subscriber is registered and not closed
    stream,         \* per stream: its task and the revision of its first task
    received,       \* per stream: the revisions of the updates it was given
    shutdown,       \* ServiceState::shutdown
    published,      \* history: what was published, in order
    granted         \* history: a credential was accepted since authorization was requested

serviceVars == <<mutex, pc, snapshot, streaming>>
streamVars == <<latest, open, stream, received, shutdown, published>>
vars == <<storeVars, serviceVars, streamVars, granted>>

Snapshot == [id : Ids, task : Task \cup {NoTask}, revision : Nat]

IsAuthorizationTask(task) == task.metadata = Marked

Init ==
    /\ StoreInit
    /\ mutex = Free
    /\ pc = [t \in Callers |-> "idle"]
    /\ snapshot = [t \in Callers |-> [id |-> CHOOSE i \in Ids : TRUE, task |-> NoTask, revision |-> 0]]
    /\ streaming = [t \in Callers |-> FALSE]
    /\ latest = [i \in Ids |-> NoTask]
    /\ open = {}
    /\ stream = [s \in Streams |-> [id |-> CHOOSE i \in Ids : TRUE, revision |-> 0]]
    /\ received = [s \in Streams |-> <<>>]
    /\ shutdown = FALSE
    /\ published = <<>>
    /\ granted = [i \in Ids |-> FALSE]

-----------------------------------------------------------------------------
(* The step in which a call locks, reads its snapshot and decides to go on. *)
Proceed(t, label, i, task, revision_read, streams) ==
    /\ pc[t] = "idle"
    /\ mutex = Free
    /\ mutex' = t
    /\ pc' = [pc EXCEPT ![t] = label]
    /\ snapshot' = [snapshot EXCEPT ![t] = [id |-> i, task |-> task, revision |-> revision_read]]
    /\ streaming' = [streaming EXCEPT ![t] = streams]
    /\ UNCHANGED <<storeVars, streamVars>>

Return(t) ==
    /\ mutex' = Free
    /\ pc' = [pc EXCEPT ![t] = "idle"]
    /\ UNCHANGED <<snapshot, streaming>>

(* ValidateTaskForSendRequest: the task is not terminal.  (A message whose     *)
(* context differs from the task's is refused like a task that is not stored.) *)
ValidateTaskForSendRequest(task) == task.state \notin Terminal

Pending(i) ==
    /\ i \in Stored
    /\ IsAuthorizationTask(tasks[i])
    /\ tasks[i].state = AuthRequired

(* RequestAuthorization without a task id: the generator names the task, and  *)
(* revision 0 asks the store for a task that does not exist yet.              *)
RequestNew(t, i, context, message, streams) ==
    /\ Proceed(t, "persist", i,
               [state |-> AuthRequired, explained |-> TRUE, timestamp |-> 0, context_id |-> context,
                metadata |-> Marked, history |-> <<message>>], 0, streams)
    /\ UNCHANGED granted

(* RequestAuthorization for an existing task. *)
RequestAgain(t, i, message) ==
    /\ i \in Stored
    /\ ValidateTaskForSendRequest(tasks[i])
    /\ Len(tasks[i].history) < MaxHistory
    /\ Proceed(t, "persist", i,
               [tasks[i] EXCEPT !.state = AuthRequired, !.explained = TRUE, !.metadata = Marked,
                                !.history = Append(@, message)], revision[i], FALSE)
    /\ UNCHANGED granted

(* ReceiveMessage: a message that is already in the history is not written    *)
(* again; a streaming call still gets its stream.                             *)
ReceiveMessage(t, i, message, streams) ==
    /\ Pending(i)
    /\ IF Duplicate(tasks[i].history, message, "kDedupByMessageId")
       THEN streams /\ Proceed(t, "register", i, tasks[i], revision[i], streams)
       ELSE /\ Len(tasks[i].history) < MaxHistory
            /\ Proceed(t, "persist", i, [tasks[i] EXCEPT !.history = Append(@, message)], revision[i], streams)
    /\ UNCHANGED granted

(* Transition: the next task of Authorize, Complete and Cancel. *)
Transition(t, i, state) ==
    /\ IsAuthorizationTask(tasks[i])
    /\ tasks[i].state \notin Terminal
    /\ Proceed(t, "persist", i, [tasks[i] EXCEPT !.state = state, !.explained = FALSE], revision[i], FALSE)

(* The validator accepted the credential. *)
Authorize(t, i) ==
    /\ Pending(i)
    /\ Transition(t, i, Working)
    /\ granted' = [granted EXCEPT ![i] = TRUE]

(* Mutant: any task that is not terminal can be completed. *)
CompleteUnchecked(t, i) ==
    /\ i \in Stored
    /\ Transition(t, i, Completed)
    /\ UNCHANGED granted

Complete(t, i) ==
    /\ i \in Stored
    /\ tasks[i].state = Working
    /\ Transition(t, i, Completed)
    /\ UNCHANGED granted

CancelTask(t, i) ==
    /\ i \in Stored
    /\ Transition(t, i, Canceled)
    /\ UNCHANGED granted

(* Subscribe: the task is read from the store under the service's mutex. *)
Subscribe(t, i) ==
    /\ i \in Stored
    /\ Proceed(t, "register", i, tasks[i], revision[i], TRUE)
    /\ UNCHANGED granted

-----------------------------------------------------------------------------
(* Mutant: the mutex is given up before the publication. *)
PersistUnlocking(t) ==
    /\ pc[t] = "persist"
    /\ \E now \in Clock :
          CreateOrUpdateIfRevision(snapshot[t].id, snapshot[t].task, snapshot[t].revision, now)
    /\ pc' = [pc EXCEPT ![t] = "publish"]
    /\ snapshot' = [snapshot EXCEPT ![t].revision = @ + 1]
    /\ granted' = [granted EXCEPT ![snapshot[t].id] = @ /\ snapshot[t].task.state # AuthRequired]
    /\ mutex' = Free
    /\ UNCHANGED <<streaming, streamVars>>

(* Persist: the conditional write.  On success the caller holds the revision  *)
(* it wrote; a conflict, or an exhausted task, ends the call with an error.   *)
Persist(t) ==
    /\ pc[t] = "persist"
    /\ LET i == snapshot[t].id IN
       \/ /\ \E now \in Clock :
                CreateOrUpdateIfRevision(i, snapshot[t].task, snapshot[t].revision, now)
          /\ pc' = [pc EXCEPT ![t] = "publish"]
          /\ snapshot' = [snapshot EXCEPT ![t].revision = @ + 1]
          /\ granted' = [granted EXCEPT ![i] = @ /\ snapshot[t].task.state # AuthRequired]
          /\ UNCHANGED <<mutex, streaming>>
       \/ /\ Conflict(i, snapshot[t].revision) \/ Exhausted(i)
          /\ Return(t)
          /\ UNCHANGED <<storeVars, granted>>
    /\ UNCHANGED streamVars

(* PublishTaskUpdated: every open stream of the task gets the update; the     *)
(* update to a terminal state closes it.                                      *)
Notify(i, revision_written, state) ==
    /\ latest' = [latest EXCEPT ![i] = state]
    /\ received' = [s \in Streams |-> IF s \in open /\ stream[s].id = i
                                     THEN Append(received[s], revision_written) ELSE received[s]]
    /\ open' = IF state \in Terminal THEN {s \in open : stream[s].id # i} ELSE open
    /\ published' = Append(published, [id |-> i, revision |-> revision_written])
    /\ UNCHANGED <<stream, shutdown>>

(* Mutant: the mutex is given up before the stream is registered. *)
AfterPublishUnlocked(t) ==
    /\ mutex' = Free
    /\ pc' = [pc EXCEPT ![t] = IF streaming[t] THEN "register" ELSE "idle"]
    /\ UNCHANGED <<snapshot, streaming>>

AfterPublish(t) ==
    IF streaming[t] THEN pc' = [pc EXCEPT ![t] = "register"] /\ UNCHANGED <<mutex, snapshot, streaming>>
                    ELSE Return(t)

Publish(t) ==
    /\ pc[t] = "publish"
    /\ IF shutdown THEN UNCHANGED streamVars
                   ELSE Notify(snapshot[t].id, snapshot[t].revision, snapshot[t].task.state)
    /\ AfterPublish(t)
    /\ UNCHANGED <<storeVars, granted>>

(* TaskSubscriptionService::Subscribe: the state last published wins over the *)
(* one of the task it is given, and a terminal task has no stream.            *)
Register(t) ==
    LET i == snapshot[t].id
        state == IF latest[i] = NoTask THEN snapshot[t].task.state ELSE latest[i] IN
    /\ pc[t] = "register"
    /\ \/ /\ ~shutdown /\ state \notin Terminal
          /\ \E s \in Streams \ open :
                /\ open' = open \cup {s}
                /\ stream' = [stream EXCEPT ![s] = [id |-> i, revision |-> snapshot[t].revision]]
                /\ received' = [received EXCEPT ![s] = <<>>]
       \/ /\ shutdown \/ state \in Terminal
          /\ UNCHANGED <<open, stream, received>>
    /\ Return(t)
    /\ UNCHANGED <<storeVars, latest, shutdown, published, granted>>

(* Shutdown closes every stream; it does not take the service's mutex. *)
Shutdown ==
    /\ ~shutdown
    /\ shutdown' = TRUE
    /\ open' = {}
    /\ UNCHANGED <<storeVars, serviceVars, latest, stream, received, published, granted>>

(* The client of a stream goes away. *)
CloseStream(s) ==
    /\ s \in open
    /\ open' = open \ {s}
    /\ UNCHANGED <<storeVars, serviceVars, latest, stream, received, shutdown, published, granted>>

(* Writes of other clients of the store. *)
ForeignWrite ==
    /\ \E i \in Ids, now \in Clock :
          \/ Cancel(i, now)
          \/ \E m \in Messages, p \in Policies : AppendTaskHistory(i, m, p, now)
          \/ \E x \in Contexts, d \in Metadata \ {Marked} :
                CreateOrUpdateIfRevision(i, [state |-> Working, explained |-> FALSE, timestamp |-> 0,
                                             context_id |-> x, metadata |-> d, history |-> <<>>], 0, now)
    /\ UNCHANGED <<serviceVars, streamVars, granted>>

Call(t) ==
    \E i \in Ids :
       \/ \E m \in Messages, streams \in BOOLEAN :
             \/ \E x \in Contexts : RequestNew(t, i, x, m, streams)
             \/ ReceiveMessage(t, i, m, streams)
       \/ \E m \in Messages : RequestAgain(t, i, m)
       \/ Authorize(t, i)
       \/ Complete(t, i)
       \/ CancelTask(t, i)
       \/ Subscribe(t, i)

Step(t) == Persist(t) \/ Publish(t) \/ Register(t)

Next ==
    \/ \E t \in Callers : Call(t) \/ Step(t)
    \/ \E s \in Streams : CloseStream(s)
    \/ Shutdown
    \/ ForeignWrite

Spec == Init /\ [][Next]_vars

-----------------------------------------------------------------------------
TypeOK ==
    /\ StoreTypeOK
    /\ mutex \in Callers \cup {Free}
    /\ pc \in [Callers -> {"idle", "persist", "publish", "register"}]
    /\ snapshot \in [Callers -> Snapshot]
    /\ streaming \in [Callers -> BOOLEAN]
    /\ latest \in [Ids -> States \cup {NoTask}]
    /\ open \subseteq Streams
    /\ stream \in [Streams -> [id : Ids, revision : Nat]]
    /\ received \in [Streams -> Seq(Nat)]
    /\ shutdown \in BOOLEAN
    /\ published \in Seq([id : Ids, revision : Nat])
    /\ granted \in [Ids -> BOOLEAN]

(* A task of the service works, or is completed, only if a credential was     *)
(* accepted after authorization was last requested for it: whatever the other *)
(* callers and the other clients of the store do between Authorize's check    *)
(* and its write ("`Complete` rejects pending tasks", security.md).           *)
WorksOnlyIfGranted ==
    \A i \in Stored : IsAuthorizationTask(tasks[i]) /\ tasks[i].state \in {Working, Completed} => granted[i]

(* An explanation is there exactly while a task of the service waits for its  *)
(* authorization or was canceled behind the service's back while it waited    *)
(* ("Each transition clears the previous explanation", security.md).          *)
ExplainedWhilePending ==
    \A i \in Stored : IsAuthorizationTask(tasks[i]) =>
        /\ tasks[i].state = AuthRequired => tasks[i].explained
        /\ tasks[i].explained => tasks[i].state \in {AuthRequired, Canceled}

(* A terminal task stays as it is but for its history, and no write loses a   *)
(* message: "conflicts report errors instead of overwriting                   *)
(* cancellation/history" (security.md).  A property of steps.                 *)
NothingOverwritten ==
    \A i \in Stored :
        /\ tasks[i].state \in Terminal => tasks'[i].state = tasks[i].state
        /\ Len(tasks[i].history) <= Len(tasks'[i].history)
        /\ SubSeq(tasks'[i].history, 1, Len(tasks[i].history)) = tasks[i].history

(* The service publishes a task's updates in the order in which it wrote them *)
(* to the store, each once.                                                   *)
PublishedInOrder ==
    \A j, k \in DOMAIN published :
        j < k /\ published[j].id = published[k].id => published[j].revision < published[k].revision

(* An open stream is given every update that the service has published since  *)
(* the task it started from: "SendStreamingMessage registers its stream       *)
(* before continuation can run" (security.md).                                *)
StreamMissesNothing ==
    \A s \in open, k \in DOMAIN published :
        published[k].id = stream[s].id /\ published[k].revision > stream[s].revision =>
            \E n \in DOMAIN received[s] : received[s][n] = published[k].revision
=============================================================================
