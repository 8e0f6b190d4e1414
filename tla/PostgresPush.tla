---------------------------- MODULE PostgresPush ----------------------------
(***************************************************************************)
(* The push configurations of a PostgreSQL deployment: the task-aware      *)
(* create of PostgresPushNotificationStore, the SQL helper and triggers    *)
(* that InitializeSchema installs, and the operators' statements (DELETE   *)
(* and TRUNCATE of a2a_tasks) those triggers run in.  A session is a       *)
(* database transaction in progress; every step that can wait for a lock   *)
(* is an action of its own.                                                *)
(*                                                                         *)
(* Of PostgreSQL itself the model keeps what the code relies on: a         *)
(* transaction's locks are held to its end, its writes appear at once when *)
(* it commits, a read-committed statement of a VOLATILE function sees what *)
(* is committed when it starts, a repeatable-read one sees the snapshot    *)
(* its transaction began with.                                             *)
(***************************************************************************)
EXTENDS Integers, FiniteSets

CONSTANTS Creators,     \* sessions running CreateOrUpdateForTask
          Removers,     \* sessions deleting or truncating tasks
          Tasks,        \* task ids
          Configs,      \* push configuration ids
          OwnIdentity,  \* storage_identity_ of the push store
          TaskStores,   \* identities of the task stores it is paired with
          Isolations,   \* isolation levels of the removers' transactions
          PageSize,     \* rows of a listed page
          MaxCalls      \* bound on the statements begun

None == "none"
NotPostgres == [endpoint |-> None, database |-> None, schema |-> None, authority |-> None]  \* any other kind
ReadCommitted == "read committed"
RepeatableRead == "repeatable read" \* serializable takes the same snapshots

ASSUME PushAssumption ==
    /\ Creators \cap Removers = {}
    /\ Isolations \subseteq {ReadCommitted, RepeatableRead}
    /\ PageSize \in Nat \ {0}
    /\ MaxCalls \in Nat

Sessions == Creators \cup Removers
Modes == {"advisory shared", "advisory exclusive", "table share", "table exclusive", "task row", "config row"}
Table == <<"a2a_tasks">>

VARIABLES tasks,          \* committed rows of a2a_tasks
          rows,           \* committed rows of a2a_push_notification_configs
          sequence,       \* a2a_push_configs_created_sequence
          held,           \* locks: <<session, mode, object>>
          session,        \* the statement each session is in
          taskAware,      \* task_aware_schema_available_
          granted,        \* the store's role may execute the lock helper
          executeCached,  \* task_lock_execute_available_
          listing,        \* one client's listing of a task's configurations
          calls

vars == <<tasks, rows, sequence, held, session, taskAware, granted, executeCached, listing, calls>>
storeVars == <<taskAware, granted, executeCached>>

Idle == [pc |-> "idle", task |-> None, config |-> None, local |-> FALSE, seq |-> 0,
         isolation |-> ReadCommitted, snapshot |-> {}, victims |-> {}, result |-> None]
NoListing == [pc |-> "idle", task |-> None, offset |-> 0, present |-> {}, seen |-> {}, disturbed |-> FALSE]

Row(t, c, local, seq) == [task |-> t, config |-> c, local |-> local, seq |-> seq]
KeyOf(r) == <<r.task, r.config>>
RowsOf(t) == {r \in rows : r.task = t}

Init ==
    /\ tasks \in SUBSET Tasks
    /\ rows = {}
    /\ sequence = 1
    /\ held = {}
    /\ session = [s \in Sessions |-> Idle]
    /\ taskAware \in BOOLEAN
    /\ granted \in BOOLEAN
    /\ executeCached = granted
    /\ listing = NoListing
    /\ calls = 0

-----------------------------------------------------------------------------
(* Locks *)

Against(mode) ==
    CASE mode = "advisory shared" -> {"advisory exclusive"}
      [] mode = "advisory exclusive" -> {"advisory shared", "advisory exclusive"}
      [] mode = "table share" -> {"table exclusive"}
      [] mode = "table exclusive" -> {"table share", "table exclusive"}
      [] OTHER -> {mode}

Grantable(s, mode, object) ==
    \A h \in held : (h[1] # s /\ h[3] = object) => h[2] \notin Against(mode)

Take(s, mode, objects) == held' = held \cup {<<s, mode, o>> : o \in objects}

(* The end of a transaction, committed or not: every lock goes. *)
Finish(s, result) ==
    /\ held' = {h \in held : h[1] # s}
    /\ session' = [session EXCEPT ![s] = [Idle EXCEPT !.result = result]]

(* Rows a statement removes shift the offsets of a listing under way. *)
Disturb(removed) ==
    listing' = [listing EXCEPT !.disturbed = @ \/ \E r \in removed : r.task = listing.task]

-----------------------------------------------------------------------------
(* The push store *)

(* Whether the paired task store owns the same storage, another one, or    *)
(* neither can be told.                                                    *)
ClassifyPostgresStorageAuthority(lhs, rhs) ==
    IF lhs.database # rhs.database \/ lhs.schema # rhs.schema THEN "external"
    ELSE IF lhs.authority # None \/ rhs.authority # None
    THEN IF lhs.authority = None \/ rhs.authority = None THEN "uncertain"
         ELSE IF lhs.authority = rhs.authority THEN "local" ELSE "external"
    ELSE IF lhs = rhs THEN "local" ELSE "uncertain"

AuthorityOf(store) ==
    IF store = NotPostgres THEN "external" ELSE ClassifyPostgresStorageAuthority(store, OwnIdentity)

(* Only a local pairing reaches the task-aware statement; the others ask   *)
(* the task store first, whose answer this table does not decide.          *)
CreateOrUpdateForTask(s, t, c, store) ==
    LET authority == AuthorityOf(store)
        Start(pc) == session' = [session EXCEPT ![s] = [Idle EXCEPT !.pc = pc, !.task = t, !.config = c,
                                                        !.local = (authority = "local")]]
    IN  /\ session[s].pc = "idle" /\ calls < MaxCalls
        /\ calls' = calls + 1
        /\ \/ authority = "local" /\ taskAware /\ Start("privilege")
           \/ authority = "external" /\ Start("external")
           \/ authority # "local" /\ session' = [session EXCEPT ![s].result = "task not found"]
           \/ session' = [session EXCEPT ![s].result = "refused"]  \* no id or url, or no connection
           \/ authority = "uncertain" /\ session' = [session EXCEPT ![s].result = "uncertain"]
           \/ /\ authority = "local" /\ ~taskAware
              /\ session' = [session EXCEPT ![s].result = IF t \in tasks THEN "migration required" ELSE "task not found"]
        /\ UNCHANGED <<tasks, rows, sequence, held, storeVars, listing>>

(* A positive answer is remembered, a negative one is asked for again.     *)
HasTaskLockExecutePrivilege(s) ==
    /\ session[s].pc = "privilege"
    /\ executeCached' = (executeCached \/ granted)
    /\ session' = [session EXCEPT ![s] = IF executeCached' THEN [@ EXCEPT !.pc = "helper"]
                                         ELSE [Idle EXCEPT !.result = "execute required"]]
    /\ UNCHANGED <<tasks, rows, sequence, held, taskAware, granted, listing, calls>>

(* Mutant: the helper takes no advisory lock and holds no table lock. *)
LockTaskForPushConfigUnlocked(s) ==
    /\ session[s].pc = "helper"
    /\ session' = [session EXCEPT ![s].pc = IF session[s].task \in tasks THEN "insert" ELSE "exists",
                                  ![s].seq = sequence]
    /\ sequence' = sequence + 1
    /\ UNCHANGED <<tasks, rows, held, storeVars, listing, calls>>

(* a2a_lock_task_for_push_config, to the end of its wait: the shared       *)
(* advisory lock of the task.  (A snapshot isolation level, row security   *)
(* or a missing privilege make it raise, which is Fail.)                   *)
LockTaskForPushConfig(s) ==
    LET t == session[s].task IN
    /\ session[s].pc = "helper"
    /\ granted
    /\ Grantable(s, "advisory shared", t)
    /\ Take(s, "advisory shared", {t})
    /\ session' = [session EXCEPT ![s].pc = "exists"]
    /\ UNCHANGED <<tasks, rows, sequence, storeVars, listing, calls>>

(* Its last query, on what is committed now; the row to insert draws its   *)
(* sequence number.                                                        *)
TaskExists(s) ==
    LET t == session[s].task IN
    /\ session[s].pc = "exists"
    /\ Grantable(s, "table share", Table)
    /\ \/ /\ t \in tasks
          /\ Take(s, "table share", {Table})
          /\ session' = [session EXCEPT ![s].pc = "insert", ![s].seq = sequence]
          /\ sequence' = sequence + 1
       \/ t \notin tasks /\ Finish(s, "task not found") /\ UNCHANGED sequence
    /\ UNCHANGED <<tasks, rows, storeVars, listing, calls>>

(* CreateOrUpdate and the external path insert without asking the table.   *)
BeginExternal(s) ==
    /\ session[s].pc = "external"
    /\ session' = [session EXCEPT ![s].pc = "insert", ![s].seq = sequence]
    /\ sequence' = sequence + 1
    /\ UNCHANGED <<tasks, rows, held, storeVars, listing, calls>>

(* INSERT ... ON CONFLICT waits for a transaction on the same row.         *)
InsertConfig(s) ==
    LET key == <<session[s].task, session[s].config>> IN
    /\ session[s].pc = "insert"
    /\ Grantable(s, "config row", key)
    /\ Take(s, "config row", {key})
    /\ session' = [session EXCEPT ![s].pc = "commit"]
    /\ UNCHANGED <<tasks, rows, sequence, storeVars, listing, calls>>

(* The statement's commit: the row is new, or keeps its sequence number    *)
(* and takes this writer's provenance.                                     *)
CommitConfig(s) ==
    LET t == session[s].task
        c == session[s].config
        old == {r \in rows : KeyOf(r) = <<t, c>>}
    IN  /\ session[s].pc = "commit"
        /\ rows' = (rows \ old) \cup
             (IF old = {} THEN {Row(t, c, session[s].local, session[s].seq)}
              ELSE {[r EXCEPT !.local = session[s].local] : r \in old})
        /\ Finish(s, "ok")
        /\ UNCHANGED <<tasks, sequence, storeVars, listing, calls>>

(* Delete of one configuration: a statement that finds it unlocked.        *)
DeleteConfig(t, c) ==
    LET removed == {r \in rows : KeyOf(r) = <<t, c>>} IN
    /\ calls < MaxCalls /\ calls' = calls + 1
    /\ removed # {}
    /\ \A h \in held : ~(h[2] = "config row" /\ h[3] = <<t, c>>)
    /\ rows' = rows \ removed
    /\ Disturb(removed)
    /\ UNCHANGED <<tasks, sequence, held, session, storeVars>>

GrantExecute ==
    /\ ~granted /\ granted' = TRUE
    /\ UNCHANGED <<tasks, rows, sequence, held, session, taskAware, executeCached, listing, calls>>
-----------------------------------------------------------------------------
(* The operators' statements and the triggers they fire *)

(* DELETE FROM a2a_tasks WHERE id = t finds the row. *)
BeginDelete(s, t, isolation) ==
    /\ session[s].pc = "idle" /\ calls < MaxCalls
    /\ calls' = calls + 1
    /\ t \in tasks
    /\ Grantable(s, "table share", Table)
    /\ Take(s, "table share", {Table})
    /\ session' = [session EXCEPT ![s] = [Idle EXCEPT !.pc = "row", !.task = t, !.isolation = isolation,
                      !.snapshot = IF isolation = RepeatableRead THEN rows ELSE {}]]
    /\ UNCHANGED <<tasks, rows, sequence, storeVars, listing>>

(* The row is locked, or is gone: nothing is deleted. *)
LockTaskRow(s) ==
    LET t == session[s].task IN
    /\ session[s].pc = "row"
    /\ Grantable(s, "task row", t)
    /\ \/ /\ t \in tasks
          /\ Take(s, "task row", {t})
          /\ session' = [session EXCEPT ![s].pc = "before"]
       \/ t \notin tasks /\ Finish(s, "gone")
    /\ UNCHANGED <<tasks, rows, sequence, storeVars, listing, calls>>

(* a2a_lock_task_for_delete, the BEFORE DELETE trigger. *)
LockTaskForDelete(s) ==
    LET t == session[s].task IN
    /\ session[s].pc = "before"
    /\ Grantable(s, "advisory exclusive", t)
    /\ Take(s, "advisory exclusive", {t})
    /\ session' = [session EXCEPT ![s].pc = "after"]
    /\ UNCHANGED <<tasks, rows, sequence, storeVars, listing, calls>>

(* The rows a cleanup deletes are the local ones its query sees; it waits  *)
(* for transactions on them.  Under a snapshot a row that changed since is *)
(* a serialization failure, which is Fail.                                 *)
Clean(s, victims, pc) ==
    /\ victims \subseteq rows
    /\ \A r \in victims : Grantable(s, "config row", KeyOf(r))
    /\ Take(s, "config row", {KeyOf(r) : r \in victims})
    /\ session' = [session EXCEPT ![s].pc = pc, ![s].victims = victims]

Seen(s) == IF session[s].isolation = RepeatableRead THEN session[s].snapshot ELSE rows

(* Mutant: the cleanup forgets whose rows it may delete. *)
DeleteTaskPushConfigsOfAll(s) ==
    /\ session[s].pc = "after"
    /\ Clean(s, {r \in Seen(s) : r.task = session[s].task}, "deleted")
    /\ UNCHANGED <<tasks, rows, sequence, storeVars, listing, calls>>

(* a2a_delete_task_push_configs as the AFTER DELETE trigger. *)
DeleteTaskPushConfigs(s) ==
    /\ session[s].pc = "after"
    /\ Clean(s, {r \in Seen(s) : r.task = session[s].task /\ r.local}, "deleted")
    /\ UNCHANGED <<tasks, rows, sequence, storeVars, listing, calls>>

CommitDelete(s) ==
    /\ session[s].pc = "deleted"
    /\ tasks' = tasks \ {session[s].task}
    /\ rows' = rows \ session[s].victims
    /\ Disturb(session[s].victims)
    /\ Finish(s, "ok")
    /\ UNCHANGED <<sequence, storeVars, calls>>

(* TRUNCATE a2a_tasks waits for every transaction that read the table. *)
BeginTruncate(s, isolation) ==
    /\ session[s].pc = "idle" /\ calls < MaxCalls
    /\ calls' = calls + 1
    /\ Grantable(s, "table exclusive", Table)
    /\ Take(s, "table exclusive", {Table})
    /\ session' = [session EXCEPT ![s] = [Idle EXCEPT !.pc = "truncate", !.isolation = isolation]]
    /\ UNCHANGED <<tasks, rows, sequence, storeVars, listing>>

(* The same function as the AFTER TRUNCATE trigger, which refuses a        *)
(* snapshot isolation level.                                               *)
TruncateTaskPushConfigs(s) ==
    /\ session[s].pc = "truncate"
    /\ session[s].isolation = ReadCommitted
    /\ Clean(s, {r \in rows : r.local}, "truncated")
    /\ UNCHANGED <<tasks, rows, sequence, storeVars, listing, calls>>

CommitTruncate(s) ==
    /\ session[s].pc = "truncated"
    /\ tasks' = {}
    /\ rows' = rows \ session[s].victims
    /\ Disturb(session[s].victims)
    /\ Finish(s, "ok")
    /\ UNCHANGED <<sequence, storeVars, calls>>

(* Mutant: a failed statement leaves its transaction open. *)
FailOpen(s) ==
    /\ session[s].pc # "idle"
    /\ session' = [session EXCEPT ![s] = [Idle EXCEPT !.result = "error"]]
    /\ UNCHANGED <<tasks, rows, sequence, held, storeVars, listing, calls>>

(* A statement that raises, is cancelled or loses its connection: the      *)
(* transaction is rolled back.                                             *)
Fail(s) ==
    /\ session[s].pc # "idle"
    /\ Finish(s, "error")
    /\ UNCHANGED <<tasks, rows, sequence, storeVars, listing, calls>>

(* The task store's upsert of a task that is not there: one statement. *)
CreateTask(t) ==
    /\ t \notin tasks
    /\ calls < MaxCalls /\ calls' = calls + 1
    /\ \A h \in held : h[2] # "table exclusive" /\ ~(h[2] = "task row" /\ h[3] = t)
    /\ tasks' = tasks \cup {t}
    /\ UNCHANGED <<rows, sequence, held, session, storeVars, listing>>

-----------------------------------------------------------------------------
(* Listing, page by page *)

(* ListForTask: with a shared pool the task's existence is part of the     *)
(* page statement, otherwise the task store is asked before.               *)
ListForTask(t) ==
    /\ listing.pc = "idle" /\ calls < MaxCalls
    /\ calls' = calls + 1
    /\ t \in tasks
    /\ listing' = [NoListing EXCEPT !.pc = "page", !.task = t, !.present = RowsOf(t)]
    /\ UNCHANGED <<tasks, rows, sequence, held, session, storeVars>>

Rank(r) == Cardinality({x \in RowsOf(r.task) : x.seq <= r.seq})

(* Mutant: the next page starts one row late. *)
ListInternalLate ==
    LET t == listing.task
        page == {r \in RowsOf(t) : Rank(r) \in (listing.offset + 1) .. (listing.offset + PageSize)}
        more == Cardinality(page) < Cardinality(RowsOf(t)) - listing.offset
    IN  /\ listing.pc = "page"
        /\ listing' = IF listing.offset > Cardinality(RowsOf(t)) THEN [listing EXCEPT !.pc = "refused"]
                      ELSE [listing EXCEPT !.seen = @ \cup {KeyOf(r) : r \in page},
                                           !.offset = @ + Cardinality(page) + 1,
                                           !.pc = IF more THEN "page" ELSE "done"]
        /\ UNCHANGED <<tasks, rows, sequence, held, session, storeVars, calls>>

(* One statement counts the rows and reads a page of them in creation      *)
(* order; the token is the offset of the next.                             *)
ListInternal ==
    LET t == listing.task
        page == {r \in RowsOf(t) : Rank(r) \in (listing.offset + 1) .. (listing.offset + PageSize)}
        more == Cardinality(page) < Cardinality(RowsOf(t)) - listing.offset
    IN  /\ listing.pc = "page"
        /\ listing' = IF listing.offset > Cardinality(RowsOf(t)) THEN [listing EXCEPT !.pc = "refused"]
                      ELSE [listing EXCEPT !.seen = @ \cup {KeyOf(r) : r \in page},
                                           !.offset = @ + Cardinality(page),
                                           !.pc = IF more THEN "page" ELSE "done"]
        /\ UNCHANGED <<tasks, rows, sequence, held, session, storeVars, calls>>

-----------------------------------------------------------------------------
CreateStep(s) ==
    \/ HasTaskLockExecutePrivilege(s)
    \/ LockTaskForPushConfig(s)
    \/ TaskExists(s)
    \/ BeginExternal(s)
    \/ InsertConfig(s)
    \/ CommitConfig(s)

RemoveStep(s) ==
    \/ LockTaskRow(s)
    \/ LockTaskForDelete(s)
    \/ DeleteTaskPushConfigs(s)
    \/ CommitDelete(s)
    \/ TruncateTaskPushConfigs(s)
    \/ CommitTruncate(s)

Step(s) == (s \in Creators /\ CreateStep(s)) \/ (s \in Removers /\ RemoveStep(s))

Next ==
    \/ \E s \in Creators, t \in Tasks, c \in Configs, store \in TaskStores : CreateOrUpdateForTask(s, t, c, store)
    \/ \E s \in Removers, t \in Tasks, i \in Isolations : BeginDelete(s, t, i)
    \/ \E s \in Removers, i \in Isolations : BeginTruncate(s, i)
    \/ \E s \in Sessions : Step(s) \/ Fail(s)
    \/ \E t \in Tasks, c \in Configs : DeleteConfig(t, c)
    \/ \E t \in Tasks : CreateTask(t) \/ ListForTask(t)
    \/ ListInternal
    \/ GrantExecute

Spec == Init /\ [][Next]_vars

(* Conditions under which the statement raises instead of going on. *)
Raises(s) ==
    \/ session[s].pc = "helper" /\ ~granted
    \/ session[s].pc = "truncate" /\ session[s].isolation = RepeatableRead
    \/ session[s].pc = "after" /\ ~({r \in Seen(s) : r.task = session[s].task /\ r.local} \subseteq rows)

(* PostgreSQL grants a lock that stays free and runs, or refuses, what it  *)
(* was asked to.  A wait is not cut short: Fail itself is not fair.        *)
FairSpec == Spec /\ \A s \in Sessions : WF_vars(Step(s) \/ (Raises(s) /\ Fail(s)))

-----------------------------------------------------------------------------
(* Properties *)

(* The rows are keyed by task and configuration, their sequence numbers    *)
(* are drawn from the sequence, and locks are held only by transactions    *)
(* in progress.                                                            *)
TypeOK ==
    /\ tasks \subseteq Tasks
    /\ \A r \in rows : r.task \in Tasks /\ r.config \in Configs /\ r.local \in BOOLEAN /\ r.seq \in 1 .. sequence - 1
    /\ \A r, x \in rows : KeyOf(r) = KeyOf(x) \/ r.seq = x.seq => r = x
    /\ \A h \in held : h[1] \in Sessions /\ h[2] \in Modes /\ session[h[1]].pc # "idle"
    /\ taskAware \in BOOLEAN /\ granted \in BOOLEAN /\ executeCached \in BOOLEAN

(* A configuration created for a local task never outlives the task: the   *)
(* shared advisory lock of the helper and the exclusive one of the BEFORE  *)
(* DELETE trigger order every create before the cleanup that would miss    *)
(* it, and TRUNCATE is ordered by the table's lock.                        *)
NoLocalOrphan == \A r \in rows : r.local => r.task \in tasks

(* Removing tasks never removes a configuration whose task lives in        *)
(* another store: the cleanup takes only rows with local_postgres_task,    *)
(* even when a direct CreateOrUpdate changes the provenance meanwhile.  A   *)
(* property of steps.                                                      *)
ExternalRowsKept == tasks' # tasks => \A r \in rows : ~r.local => r \in rows'

(* A listing read to its last page without an error or a removal has       *)
(* returned every configuration that was there when it began, although     *)
(* configurations are added and commit out of sequence meanwhile.          *)
ListingCovers ==
    listing.pc = "done" /\ ~listing.disturbed => \A r \in listing.present : KeyOf(r) \in listing.seen

=============================================================================
