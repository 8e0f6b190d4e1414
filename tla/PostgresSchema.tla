---------------------------- MODULE PostgresSchema ---------------------------
(***************************************************************************)
(* How the PostgreSQL stores prepare their schema.  A store made with      *)
(* auto_create_schema creates or upgrades it in one transaction; a push    *)
(* store then, and one made without it at once, asks the catalogs what is  *)
(* there and decides between push-only, task-aware and refusal.  Stores    *)
(* start together, connections fail and an operator takes objects away.    *)
(*                                                                         *)
(* The catalog is what matters of each object: absent, old (left by an     *)
(* earlier release) or current.                                            *)
(***************************************************************************)
EXTENDS Integers, Sequences, FiniteSets

CONSTANTS Initialisers,  \* push stores made with auto_create_schema
          TaskStores,    \* task stores made with auto_create_schema
          Managed,       \* push stores made without
          MaxFailures,   \* bound on the statements that fail
          MaxTampers     \* bound on the objects taken away

None == "none"
Stores == Initialisers \cup TaskStores \cup Managed

Functions == {"lock", "delete_lock", "cleanup"}
Triggers == {"delete_lock_trigger", "cleanup_trigger", "truncate_trigger"}
Private == [lock |-> "lock_private", delete_lock |-> "delete_lock_private", cleanup |-> "cleanup_private"]
Marker == [lock |-> "lock_marker", delete_lock |-> "delete_lock_marker", cleanup |-> "cleanup_marker"]

(* free: the push table has no foreign key to the task table.  private: a  *)
(* function PUBLIC may not execute.                                        *)
TaskAware == Functions \cup Triggers \cup {Private[f] : f \in Functions} \cup {Marker[f] : f \in Functions}
Objects == TaskAware \cup {"sequences", "tasks", "task_columns", "lock_grant", "indexes", "push", "provenance",
                           "free", "push_columns"}

(* The catalogs the database may start with: what earlier releases and     *)
(* operators leave behind.                                                 *)
Only(current, old) ==
    [o \in Objects |-> IF o \in current THEN "current" ELSE IF o \in old THEN "old" ELSE "absent"]

Empty == Only({}, {})

(* No provenance, a foreign key, none of the task-aware objects *)
Legacy == Only({"sequences", "push", "tasks"}, {"task_columns", "free", "indexes", "push_columns"})

(* The objects of an earlier task-aware migration *)
Previous ==
    Only({"sequences", "push", "tasks", "task_columns", "provenance", "free", "push_columns", "lock_grant"},
         {"indexes"} \cup (TaskAware \ {"truncate_trigger"}))

PushOnly == Only({"sequences", "push", "provenance", "free", "push_columns"}, {})

Catalogs == {Empty, Legacy, Previous, PushOnly, Only(Objects, {})}

VARIABLES catalog,   \* what is committed
          creator,   \* the store whose transaction creates sequences or tables
          lock,      \* the store whose transaction has altered a2a_tasks
          store,     \* where each constructor is
          failures, tampers

vars == <<catalog, creator, lock, store, failures, tampers>>

Idle == [pc |-> "new", next |-> 1, view |-> [o \in Objects |-> "absent"], result |-> None]

Init ==
    /\ catalog \in Catalogs
    /\ creator = None /\ lock = None
    /\ store = [s \in Stores |-> Idle]
    /\ failures = 0 /\ tampers = 0

-----------------------------------------------------------------------------
(* The statements, in their order *)

Create(o) == [does |-> "create", object |-> o]
Alter(o) == [does |-> "alter", object |-> o]
Replace(f) == [does |-> "replace", object |-> f]

Statements ==
    <<Create("sequences"), Create("tasks"), Alter("task_columns"),
      Replace("lock"), Alter(Private["lock"]), Alter("lock_grant"), Alter("indexes"),
      Create("push"), Alter("provenance"), Alter("free"),
      Replace("delete_lock"), Alter(Private["delete_lock"]), Alter("delete_lock_trigger"),
      Replace("cleanup"), Alter(Private["cleanup"]), Alter("cleanup_trigger"), Alter("truncate_trigger"),
      Alter("push_columns"), Alter(Marker["delete_lock"]), Alter(Marker["cleanup"]), Alter(Marker["lock"])>>

(* What a table is created with *)
Columns(o) ==
    {o} \cup CASE o = "tasks" -> {"task_columns"}
               [] o = "push" -> {"provenance", "free", "push_columns"}
               [] OTHER -> {}

(* CREATE ... IF NOT EXISTS leaves what exists alone.  CREATE OR REPLACE   *)
(* FUNCTION keeps the privileges and the comment of the function it        *)
(* replaces; a new function has no comment and PUBLIC may execute it.      *)
Effect(c, statement) ==
    LET o == statement.object IN
    CASE statement.does = "create" ->
           IF c[o] # "absent" THEN c
           ELSE [p \in Objects |-> IF p \in Columns(o) THEN "current" ELSE c[p]]
      [] statement.does = "replace" ->
           IF c[o] # "absent" THEN [c EXCEPT ![o] = "current"]
           ELSE [c EXCEPT ![o] = "current", ![Private[o]] = "absent", ![Marker[o]] = "absent"]
      [] OTHER -> [c EXCEPT ![o] = "current"]

-----------------------------------------------------------------------------
(* InitializeSchema *)

Start(s) ==
    /\ store[s].pc = "new"
    /\ store' = [store EXCEPT ![s].pc = IF s \in Managed THEN "validate" ELSE "statement"]
    /\ UNCHANGED <<catalog, creator, lock, failures, tampers>>

Current(s) == Statements[store[s].next]

Release(s) ==
    /\ creator' = IF creator = s THEN None ELSE creator
    /\ lock' = IF lock = s THEN None ELSE lock

Throw(s, result) == store' = [store EXCEPT ![s] = [Idle EXCEPT !.pc = "end", !.result = result]]

(* Mutant: a failed statement is not followed by a ROLLBACK. *)
StatementFailsOpen(s) ==
    /\ store[s].pc \in {"statement", "commit"}
    /\ failures < MaxFailures /\ failures' = failures + 1
    /\ Throw(s, "failed")
    /\ UNCHANGED <<catalog, creator, lock, tampers>>

(* A statement or the COMMIT fails, or the connection does: ROLLBACK. *)
StatementFails(s) ==
    /\ store[s].pc \in {"statement", "commit"}
    /\ failures < MaxFailures /\ failures' = failures + 1
    /\ Throw(s, "failed")
    /\ Release(s)
    /\ UNCHANGED <<catalog, tampers>>

(* What the transaction sees: the committed catalog and what it created.   *)
Seen(s) == IF creator = s THEN store[s].view ELSE catalog

Creates(s) ==
    /\ creator' = s
    /\ store' = [store EXCEPT ![s].pc = "statement", ![s].next = @ + 1, ![s].view = Effect(Seen(s), Current(s))]

(* Two transactions create the same sequence or table: the second waits    *)
(* for the first, and fails on the unique index if that committed.         *)
CreateIfNotExists(s) ==
    LET missing == Seen(s)[Current(s).object] = "absent" IN
    /\ store[s].pc = "statement" /\ store[s].next \in {1, 2}
    /\ \/ ~missing /\ store' = [store EXCEPT ![s].next = @ + 1] /\ UNCHANGED creator
       \/ missing /\ creator \in {None, s} /\ Creates(s)
       \/ missing /\ creator \notin {None, s} /\ store' = [store EXCEPT ![s].pc = "wait"] /\ UNCHANGED creator
    /\ UNCHANGED <<catalog, lock, failures, tampers>>

CreatedMeanwhile(s) ==
    LET missing == catalog[Current(s).object] = "absent" IN
    /\ store[s].pc = "wait" /\ creator = None
    /\ \/ ~missing /\ Throw(s, "failed") /\ UNCHANGED creator
       \/ missing /\ Creates(s)
    /\ UNCHANGED <<catalog, lock, failures, tampers>>

(* ALTER TABLE a2a_tasks waits for the transaction that altered it before; *)
(* from here on what this transaction sees is what was committed, or what  *)
(* it created.                                                             *)
AlterTasks(s) ==
    /\ store[s].pc = "statement" /\ Current(s) = Alter("task_columns")
    /\ lock = None /\ lock' = s
    /\ store' = [store EXCEPT ![s].next = @ + 1, ![s].view = Effect(Seen(s), Current(s))]
    /\ UNCHANGED <<catalog, creator, failures, tampers>>

(* Mutant: the statements run outside a transaction. *)
ExecuteStatementAlone(s) ==
    /\ store[s].pc = "statement" /\ store[s].next > 3
    /\ store' = [store EXCEPT ![s].next = @ + 1, ![s].view = Effect(store[s].view, Current(s)),
                              ![s].pc = IF store[s].next = Len(Statements) THEN "commit" ELSE "statement"]
    /\ catalog' = Effect(store[s].view, Current(s))
    /\ UNCHANGED <<creator, lock, failures, tampers>>

ExecuteStatement(s) ==
    /\ store[s].pc = "statement" /\ store[s].next > 3
    /\ store' = [store EXCEPT ![s].next = @ + 1, ![s].view = Effect(store[s].view, Current(s)),
                              ![s].pc = IF store[s].next = Len(Statements) THEN "commit" ELSE "statement"]
    /\ UNCHANGED <<catalog, creator, lock, failures, tampers>>

(* The COMMIT, whose answer can be lost.  A task store is then made.       *)
CommitSchema(s) ==
    /\ store[s].pc = "commit"
    /\ catalog' = store[s].view
    /\ Release(s)
    /\ \/ /\ \/ s \in Initialisers /\ store' = [store EXCEPT ![s] = [Idle EXCEPT !.pc = "validate"]]
             \/ s \in TaskStores /\ Throw(s, "task store")
          /\ UNCHANGED failures
       \/ /\ failures < MaxFailures /\ failures' = failures + 1
          /\ Throw(s, "failed")
    /\ UNCHANGED tampers

-----------------------------------------------------------------------------
(* ValidateManagedPushSchema *)

BaseChecks(c) == c["provenance"] = "current" /\ c["push"] # "absent" /\ c["free"] = "current"

TaskAwarePresent(c) == \E o \in Functions \cup Triggers : c[o] # "absent"

(* Mutant: the markers are believed. *)
TaskAwareChecksByMarker(c) == c["tasks"] # "absent" /\ \A f \in Functions : c[Marker[f]] = "current"

TaskAwareChecks(c) == c["tasks"] # "absent" /\ \A o \in TaskAware : c[o] = "current"

(* One query of the catalogs decides. *)
ValidateManagedPushSchema(s) ==
    /\ store[s].pc = "validate"
    /\ store' = [store EXCEPT ![s].pc = "end", ![s].view = catalog, ![s].next = 1,
                              ![s].result = IF ~BaseChecks(catalog) THEN "refused"
                                            ELSE IF ~TaskAwarePresent(catalog) THEN "push only"
                                            ELSE IF ~TaskAwareChecks(catalog) THEN "refused"
                                            ELSE "task aware"]
    /\ UNCHANGED <<catalog, creator, lock, failures, tampers>>

(* An operator drops or replaces an object, when no transaction alters the *)
(* tables.                                                                 *)
Tamper(o) ==
    /\ o \in Functions \cup Triggers
    /\ lock = None /\ catalog[o] # "absent"
    /\ tampers < MaxTampers /\ tampers' = tampers + 1
    /\ \/ catalog' = [catalog EXCEPT ![o] = "old"]
       \/ /\ o \in Triggers
          /\ catalog' = [catalog EXCEPT ![o] = "absent"]
       \/ /\ o \in Functions
          /\ catalog' = [catalog EXCEPT ![o] = "absent", ![Private[o]] = "absent", ![Marker[o]] = "absent"]
    /\ UNCHANGED <<creator, lock, store, failures>>

-----------------------------------------------------------------------------
Step(s) ==
    \/ Start(s)
    \/ CreateIfNotExists(s)
    \/ CreatedMeanwhile(s)
    \/ AlterTasks(s)
    \/ ExecuteStatement(s)
    \/ CommitSchema(s)
    \/ StatementFails(s)
    \/ ValidateManagedPushSchema(s)

Next == (\E s \in Stores : Step(s)) \/ \E o \in Objects : Tamper(o)

Spec == Init /\ [][Next]_vars

(* A constructor runs on, and PostgreSQL grants a lock that stays free.    *)
FairSpec == Spec /\ \A s \in Stores : WF_vars(Step(s))

-----------------------------------------------------------------------------
(* Properties *)

(* The one transaction that has altered a2a_tasks is still running.        *)
TypeOK ==
    /\ catalog \in [Objects -> {"absent", "old", "current"}]
    /\ \A s \in {creator, lock} \ {None} : store[s].pc \in {"statement", "commit"}
    /\ \A s \in Stores : store[s].pc = "statement" /\ store[s].next > 3 => lock = s

Complete(c) == \A o \in Objects : c[o] = "current"

(* A push store that takes the schema for task-aware looked at one that    *)
(* has every helper, trigger, privilege and marker of this release,        *)
(* although other stores were upgrading it and an operator was at work.    *)
AcceptedIsComplete ==
    \A s \in Initialisers \cup Managed :
        store[s].result = "task aware" =>
            /\ \A o \in TaskAware : store[s].view[o] = "current"
            /\ store[s].view["free"] = "current" /\ store[s].view["provenance"] = "current"

(* A store that created or upgraded the schema itself finds it task-aware, *)
(* whatever release it started from, unless an operator interferes.        *)
InitialisedIsAccepted ==
    \A s \in Initialisers : tampers = 0 => store[s].result \notin {"refused", "push only"}

(* Stores change the schema from what it was to the complete one in a      *)
(* single step: "installed transactionally".  A property of steps.          *)
InstalledWhole == catalog' # catalog => Complete(catalog') \/ tampers' # tampers

=============================================================================
