---------------------------- MODULE TaskLifecycle ----------------------------
(***************************************************************************)
(* TaskLifecycleService on the task store.  Its operations are several     *)
(* store calls each and none of them is atomic: the header asks callers to *)
(* "validate an authoritative task snapshot after taking their task-level  *)
(* synchronization", and the callers here are executors that do.  A send   *)
(* resolves its task id, takes the task's lock, validates or creates the   *)
(* task, appends its message and moves the task on; a cancellation takes   *)
(* the lock and moves the task to Canceled.  The lock is the executor's.   *)
(***************************************************************************)
EXTENDS TaskStore

CONSTANTS
    Callers,
    Working, Completed,     \* the states an executor moves a task to
    Free,                   \* the holder of a lock nobody holds
    MaxCalls                \* bound: calls there are

LifecycleAssumption == {Working, Completed} \subseteq States /\ Working \notin Terminal /\ MaxCalls \in Nat

VARIABLES
    lock,           \* per task id, the executor's task-level lock
    call,           \* per caller: where it stands
    calls,          \* calls started
    outcomes        \* per task id, the terminal states calls were told they reached

vars == <<tasks, revision, updated_at, update_order, lock, call, calls, outcomes>>

Idle == [pc |-> "idle", id |-> CHOOSE i \in Ids : TRUE, next |-> Working,
         message |-> CHOOSE m \in Messages : TRUE, current |-> NoTask]

Init ==
    /\ StoreInit
    /\ lock = [i \in Ids |-> Free] /\ call = [c \in Callers |-> Idle]
    /\ calls = 0 /\ outcomes = [i \in Ids |-> <<>>]

(* The ids GenerateTaskId may return: those no one has seen. *)
FreshIds == {i \in Ids : i \notin Stored /\ \A c \in Callers : call[c].pc # "idle" => call[c].id # i}

(* ResolveTaskIdForSendRequest: the message names a task, or an id is        *)
(* generated.  The id is resolved before the lock is taken.                  *)
ResolveTaskIdForSendRequest(c, i, message, next) ==
    /\ call[c].pc = "idle" /\ calls < MaxCalls
    /\ i \in Stored \cup FreshIds
    /\ call' = [call EXCEPT ![c] = [pc |-> "lock", id |-> i, next |-> next, message |-> message, current |-> NoTask]]
    /\ calls' = calls + 1
    /\ UNCHANGED <<storeVars, lock, outcomes>>

CancelTask(c, i) ==
    /\ call[c].pc = "idle" /\ calls < MaxCalls
    /\ call' = [call EXCEPT ![c] = [Idle EXCEPT !.pc = "lock", !.id = i, !.next = Canceled]]
    /\ calls' = calls + 1
    /\ UNCHANGED <<storeVars, lock, outcomes>>

Acquire(c) ==
    LET i == call[c].id IN
    /\ call[c].pc = "lock" /\ lock[i] = Free
    /\ lock' = [lock EXCEPT ![i] = c]
    /\ call' = [call EXCEPT ![c].pc = IF call[c].next = Canceled THEN "transition" ELSE "validate"]
    /\ UNCHANGED <<storeVars, calls, outcomes>>

(* The call returns and its lock is released. *)
Return(c) ==
    /\ call' = [call EXCEPT ![c] = Idle]
    /\ lock' = [lock EXCEPT ![call[c].id] = Free]

NewTask == [state |-> Working, explained |-> FALSE, timestamp |-> 0, context_id |-> CHOOSE x \in Contexts : TRUE,
            metadata |-> CHOOSE x \in Metadata : TRUE, history |-> <<>>]

(* Mutant: a terminal task takes messages. *)
ValidateAny(c) ==
    LET i == call[c].id IN
    /\ call[c].pc = "validate" /\ i \in Stored
    /\ call' = [call EXCEPT ![c].pc = "append"]
    /\ UNCHANGED <<storeVars, lock, calls, outcomes>>

(* ValidateTaskForSendRequest on the task as it is under the lock. *)
ValidateTaskForSendRequest(c) ==
    LET i == call[c].id IN
    /\ call[c].pc = "validate" /\ i \in Stored
    /\ IF tasks[i].state \in Terminal THEN Return(c)
       ELSE call' = [call EXCEPT ![c].pc = "append"] /\ UNCHANGED lock
    /\ UNCHANGED <<storeVars, calls, outcomes>>

CreateOrUpdateTask(c, now) ==
    LET i == call[c].id IN
    /\ call[c].pc = "validate" /\ i \notin Stored
    /\ CreateOrUpdate(i, NewTask, now)
    /\ call' = [call EXCEPT ![c].pc = "append"]
    /\ UNCHANGED <<lock, calls, outcomes>>

(* AppendHistory; a duplicate is dropped. *)
AppendHistory(c, now) ==
    LET i == call[c].id IN
    /\ call[c].pc = "append"
    /\ IF Duplicate(tasks[i].history, call[c].message, "kDedupByMessageId") THEN UNCHANGED storeVars
       ELSE AppendTaskHistory(i, call[c].message, "kDedupByMessageId", now)
    /\ call' = [call EXCEPT ![c].pc = "transition", ![c].current = tasks[i]]
    /\ UNCHANGED <<lock, calls, outcomes>>

(* Mutant: the snapshot read before the message was appended is used. *)
TransitionReusesSnapshot(c) ==
    LET i == call[c].id IN
    /\ call[c].pc = "transition"
    /\ IF i \notin Stored \/ tasks[i].state \in Terminal THEN Return(c)
       ELSE /\ call' = [call EXCEPT ![c].pc = "write", ![c].current = IF @ = NoTask THEN tasks[i] ELSE @]
            /\ UNCHANGED lock
    /\ UNCHANGED <<storeVars, calls, outcomes>>

(* TransitionTaskStatus reads the task and checks it ... *)
TransitionReads(c) ==
    LET i == call[c].id IN
    /\ call[c].pc = "transition"
    /\ IF i \notin Stored \/ tasks[i].state \in Terminal THEN Return(c)
       ELSE call' = [call EXCEPT ![c].pc = "write", ![c].current = tasks[i]] /\ UNCHANGED lock
    /\ UNCHANGED <<storeVars, calls, outcomes>>

(* ... and writes the whole of what it read, whatever the revision is now.   *)
TransitionWrites(c, now) ==
    LET i == call[c].id IN
    /\ call[c].pc = "write"
    /\ CreateOrUpdate(i, [call[c].current EXCEPT !.state = call[c].next], now)
    /\ outcomes' = [outcomes EXCEPT ![i] = IF call[c].next \in Terminal THEN Append(@, call[c].next) ELSE @]
    /\ Return(c)
    /\ UNCHANGED calls

Next ==
    \E c \in Callers :
      \/ \E i \in Ids, m \in Messages, next \in {Working, Completed} : ResolveTaskIdForSendRequest(c, i, m, next)
      \/ \E i \in Ids : CancelTask(c, i)
      \/ Acquire(c) \/ ValidateTaskForSendRequest(c) \/ TransitionReads(c)
      \/ \E now \in Clock : CreateOrUpdateTask(c, now) \/ AppendHistory(c, now) \/ TransitionWrites(c, now)

Spec == Init /\ [][Next]_vars

-----------------------------------------------------------------------------
TypeOK ==
    /\ StoreTypeOK /\ IndexExact
    /\ lock \in [Ids -> Callers \cup {Free}]
    /\ \A c \in Callers : call[c].pc \notin {"idle", "lock"} => lock[call[c].id] = c

(* A task that reached a terminal state never changes again, not even its    *)
(* history: a send that resolved its id while the task was running finds out *)
(* under the lock.  A property of steps.                                     *)
TerminalIsFinal == \A i \in Stored : tasks[i].state \in Terminal => tasks'[i] = tasks[i]

(* At most one call is told it finished or cancelled the task, and the task  *)
(* is as that call was told.                                                 *)
OneOutcome ==
    \A i \in Ids : /\ Len(outcomes[i]) <= 1
                   /\ outcomes[i] # <<>> => tasks[i].state = outcomes[i][1]

(* No message of a history is lost to a status written from a snapshot.  A   *)
(* property of steps.                                                        *)
HistoryKept ==
    \A i \in Stored : \E k \in 0..Len(tasks'[i].history) : SubSeq(tasks'[i].history, 1, k) = tasks[i].history
=============================================================================
