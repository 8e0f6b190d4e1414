------------------------------ MODULE TaskStore ------------------------------
(***************************************************************************)
(* InMemoryTaskStore: the tasks, their revisions, the time of their last   *)
(* write, and the index (update_order_) that ListTasks walks.  Every       *)
(* operation takes the store's mutex for its whole body, so an operation   *)
(* is one action.  The three parallel vectors and the map from ids to      *)
(* positions are functions from ids here; an id whose revision is 0 is not *)
(* stored.  Task ids are naturals, whose order is the byte order of the    *)
(* ids.  A message is an id, possibly empty, and a fingerprint: role,      *)
(* parts, task and context, everything HasSameMessageFingerprint compares. *)
(* The counts of dropped messages (telemetry) are left out.  A call that   *)
(* returns an error, or drops a duplicate, changes nothing and is a        *)
(* stuttering step: every check of the code comes before its first write.  *)
(***************************************************************************)
EXTENDS Integers, Sequences, FiniteSets

CONSTANTS
    Ids,            \* task ids
    States,         \* the task states in use
    Terminal,       \* those IsTerminalTaskState accepts
    Canceled,       \* TASK_STATE_CANCELED
    Contexts,       \* context ids
    Timestamps,     \* values of TaskStatus.timestamp; 0: it has none
    Metadata,       \* what the metadata of a task may say
    Messages,       \* messages that may be appended to a history
    NoMessageId,    \* the empty message_id
    NoTask,         \* the value of an id that is not stored
    Clock,          \* what update_clock_ may return; it may go backwards
    MaxTime,        \* the largest int64
    MaxHistory      \* bound: the longest history

IdsAreNaturals == Ids \subseteq Nat
ClockIsInt64 == MaxTime \in Nat /\ \A now \in Clock : now \in Int /\ now <= MaxTime
CanceledIsTerminal == Canceled \in Terminal /\ Terminal \subseteq States

(* explained: status.message is present. *)
Task == [state : States, explained : BOOLEAN, timestamp : Timestamps,
         context_id : Contexts, metadata : Metadata, history : Seq(Messages)]

NoTaskIsNoTask == NoTask \notin Task

Policies == {"kNoDedup", "kDedupByMessageId", "kDedupByIdOrFingerprint"}

VARIABLES
    tasks,          \* ordered_tasks_
    revision,       \* revisions_
    updated_at,     \* updated_at_
    update_order    \* update_order_, a set of cursors ordered by ListCursorPrecedes

storeVars == <<tasks, revision, updated_at, update_order>>

Stored == {i \in Ids : revision[i] # 0}

Cursor(time, i) == [updated_at |-> time, task_id |-> i]

Max2(a, b) == IF a > b THEN a ELSE b

StoreInit ==
    /\ tasks = [i \in Ids |-> NoTask]
    /\ revision = [i \in Ids |-> 0]
    /\ updated_at = [i \in Ids |-> 0]
    /\ update_order = {}

-----------------------------------------------------------------------------
(* A task whose last write is at the largest time cannot be written again. *)
Exhausted(i) == i \in Stored /\ updated_at[i] = MaxTime

(* The time TouchTask gives a task when the clock reads now. *)
NextTime(i, now) == IF i \in Stored THEN Max2(updated_at[i] + 1, now) ELSE Max2(0, now)

(* Mutant: the old cursor stays in the index. *)
TouchTaskLeavingCursor(i, now) ==
    LET next_time == NextTime(i, now) IN
    /\ ~Exhausted(i)
    /\ updated_at' = [updated_at EXCEPT ![i] = next_time]
    /\ update_order' = update_order \cup {Cursor(next_time, i)}

TouchTask(i, now) ==
    LET next_time == NextTime(i, now) IN
    /\ ~Exhausted(i)
    /\ updated_at' = [updated_at EXCEPT ![i] = next_time]
    /\ update_order' = (update_order \ {Cursor(updated_at[i], i)}) \cup {Cursor(next_time, i)}

(* The common end of every successful write: touch, store, bump the revision. *)
Write(i, task, now) ==
    /\ TouchTask(i, now)
    /\ tasks' = [tasks EXCEPT ![i] = task]
    /\ revision' = [revision EXCEPT ![i] = @ + 1]

CreateOrUpdate(i, task, now) == Write(i, task, now)

Conflict(i, expected_revision) == revision[i] # expected_revision

(* Mutant: the revision is not compared for a task that is already stored. *)
CreateOrUpdateIfPresent(i, task, expected_revision, now) ==
    /\ i \notin Stored => expected_revision = 0
    /\ Write(i, task, now)

CreateOrUpdateIfRevision(i, task, expected_revision, now) ==
    /\ ~Conflict(i, expected_revision)
    /\ Write(i, task, now)

(* Mutant: a cancellation that leaves the revision alone. *)
CancelKeepingRevision(i, now) ==
    /\ i \in Stored
    /\ tasks[i].state \notin Terminal
    /\ TouchTask(i, now)
    /\ tasks' = [tasks EXCEPT ![i].state = Canceled]
    /\ UNCHANGED revision

Cancel(i, now) ==
    /\ i \in Stored
    /\ tasks[i].state \notin Terminal
    /\ Write(i, [tasks[i] EXCEPT !.state = Canceled], now)

(* FindHistoryDedupeReason: is message already in the history, for the policy? *)
Duplicate(history, message, policy) ==
    \E k \in DOMAIN history :
        /\ history[k].fingerprint = message.fingerprint
        /\ \/ policy # "kNoDedup" /\ message.id # NoMessageId /\ history[k].id = message.id
           \/ policy = "kDedupByIdOrFingerprint" /\ message.id = NoMessageId

AppendTaskHistory(i, message, policy, now) ==
    /\ i \in Stored
    /\ ~Duplicate(tasks[i].history, message, policy)
    /\ Len(tasks[i].history) < MaxHistory
    /\ Write(i, [tasks[i] EXCEPT !.history = Append(@, message)], now)

-----------------------------------------------------------------------------
(* The order of the listing: the latest write first, then the larger id. *)
ListCursorPrecedes(lhs, rhs) ==
    IF lhs.updated_at # rhs.updated_at THEN lhs.updated_at > rhs.updated_at
                                       ELSE lhs.task_id > rhs.task_id

(* update_order_ holds exactly one cursor per stored task, the one that       *)
(* TouchTask will extract at the task's next write and that List follows to   *)
(* the task: a stale cursor would list a task twice, and a missing one would  *)
(* make extract return an empty node, which TouchTask then dereferences.      *)
IndexExact == update_order = {Cursor(updated_at[i], i) : i \in Stored}

StoreTypeOK ==
    /\ tasks \in [Ids -> Task \cup {NoTask}]
    /\ revision \in [Ids -> Nat]
    /\ updated_at \in [Ids -> 0..MaxTime]
    /\ update_order \subseteq [updated_at : 0..MaxTime, task_id : Ids]
    /\ \A i \in Ids : tasks[i] # NoTask <=> i \in Stored

(* Every change of a task's contents, and nothing else, advances both its     *)
(* revision, by one, and its time: a rejected write, a conflict or a dropped  *)
(* duplicate leave both alone, and a task at the largest time cannot change.  *)
(* A property of steps.                                                       *)
WritesAdvance ==
    \A i \in Ids :
        /\ tasks'[i] # tasks[i] => revision'[i] # revision[i]
        /\ revision'[i] # revision[i] =>
              /\ revision'[i] = revision[i] + 1
              /\ revision[i] # 0 => updated_at'[i] > updated_at[i]
        /\ revision'[i] = revision[i] => updated_at'[i] = updated_at[i]
=============================================================================
