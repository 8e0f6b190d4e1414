----------------------------- MODULE MCPostgres -----------------------------
(***************************************************************************)
(* The PostgreSQL stores, instances of the components side by side: the    *)
(* push configurations, whose module this one extends, the task store and  *)
(* the constructors that install the schema.  They share no state in these *)
(* instances; a behaviour is one of one part, which the initial state      *)
(* chooses.  The push configurations keep an initial state while another   *)
(* part runs.                                                              *)
(***************************************************************************)
EXTENDS PostgresPush, Sequences

CONSTANT Off  \* of a variable the running part does not have

VARIABLES part,
    (* PostgresTaskStore *)
    table, created, rowLock, pool, status, pending, open, call, storeCalls, deaths, removals,
    (* PostgresSchema *)
    catalog, creator, lock, store, failures, tampers

-----------------------------------------------------------------------------
(* The push store's own schema, and the identities of the task stores it   *)
(* is paired with: the same storage, another endpoint that nothing proves  *)
(* to be the same, another schema and one that is not PostgreSQL.          *)
Own == [endpoint |-> "primary", database |-> "a2a", schema |-> "public", authority |-> None]
PairedStores == {Own, [Own EXCEPT !.endpoint = "alias"], [Own EXCEPT !.schema = "other"], NotPostgres}

(* The helper and the TRUNCATE trigger refuse a snapshot isolation level;  *)
(* the DELETE trigger does not, and a configuration outlives its task.     *)
ReadCommittedOnly == {ReadCommitted}

PushOff == Init /\ tasks = {} /\ taskAware = FALSE /\ granted = FALSE

-----------------------------------------------------------------------------
(* Two callers over a pool of two connections, which fail.                 *)
TaskStore == INSTANCE PostgresTaskStore WITH
    Callers <- {"c1", "c2"}, Connections <- {"k1", "k2"}, Ids <- {"t1"}, Written <- {"working", "completed"},
    Terminal <- {"completed", "canceled"}, Canceled <- "canceled",
    Operations <- {"upsert", "snapshot", "list", "begin", "append"}, Messages <- {"m1"}, RetryLimit <- 2,
    MaxCalls <- 3, MaxDeaths <- 1, MaxRemovals <- 0, calls <- storeCalls

(* The same with rows that are removed behind the store.  A revision-      *)
(* checked write takes a task stored again, once it has the revision that  *)
(* was read, for the task it read; nobody uses one here.                   *)
Removed == INSTANCE PostgresTaskStore WITH
    Callers <- {"c1", "c2"}, Connections <- {"k1", "k2"}, Ids <- {"t1"}, Written <- {"working", "completed"},
    Terminal <- {"completed", "canceled"}, Canceled <- "canceled",
    Operations <- {"upsert", "list", "begin", "append"}, Messages <- {"m1"}, RetryLimit <- 2,
    MaxCalls <- 3, MaxDeaths <- 1, MaxRemovals <- 1, calls <- storeCalls

StoreParts == {"tasks", "removals"}

taskStoreVars == <<table, created, rowLock, pool, status, pending, open, call, storeCalls, deaths, removals>>
TaskStoreOff ==
    /\ table = Off /\ created = Off /\ rowLock = Off /\ pool = Off /\ status = Off /\ pending = Off
    /\ open = Off /\ call = Off /\ storeCalls = Off /\ deaths = Off /\ removals = Off

(* What is read of the committed table; no task is stored while the task   *)
(* store does not run.                                                     *)
Revisioned == INSTANCE RevisionedStore WITH
    Ids <- {"t1"}, Written <- {"working", "completed"}, Terminal <- {"completed", "canceled"},
    Canceled <- "canceled", Messages <- {"m1"}, NoRow <- TaskStore!NoRow,
    table <- IF part \in StoreParts THEN [i \in {"t1"} |-> TaskStore!Visible(table[i])]
             ELSE [i \in {"t1"} |-> TaskStore!NoRow]

-----------------------------------------------------------------------------
(* Two push stores and a task store that install the schema and a push     *)
(* store that validates it, over the catalogs that earlier releases and    *)
(* operators leave behind.                                                 *)
Schema == INSTANCE PostgresSchema WITH
    Initialisers <- {"p1"}, TaskStores <- {"t1"}, Managed <- {"m1"}, MaxFailures <- 1, MaxTampers <- 1

schemaVars == <<catalog, creator, lock, store, failures, tampers>>
SchemaOff == catalog = Off /\ creator = Off /\ lock = Off /\ store = Off /\ failures = Off /\ tampers = Off

-----------------------------------------------------------------------------
(* What the components assume of their constants. *)
ASSUME
    /\ TaskStore!StoreAssumption /\ Removed!StoreAssumption

mcVars == <<part, vars, taskStoreVars, schemaVars>>

MCInit ==
    \/ part = "push" /\ Init /\ TaskStoreOff /\ SchemaOff
    \/ part \in StoreParts /\ TaskStore!Init /\ PushOff /\ SchemaOff
    \/ part = "schema" /\ Schema!Init /\ PushOff /\ TaskStoreOff

MCNext ==
    \/ part = "push" /\ Next /\ UNCHANGED <<part, taskStoreVars, schemaVars>>
    \/ part = "tasks" /\ TaskStore!Next /\ UNCHANGED <<part, vars, schemaVars>>
    \/ part = "removals" /\ Removed!Next /\ UNCHANGED <<part, vars, schemaVars>>
    \/ part = "schema" /\ Schema!Next /\ UNCHANGED <<part, vars, taskStoreVars>>

(* PostgreSQL grants a lock that stays free and runs, or refuses, what it  *)
(* was asked to; callers and constructors run on.                          *)
Fairness ==
    /\ \A s \in Sessions : WF_vars(part = "push" /\ (Step(s) \/ (Raises(s) /\ Fail(s))))
    /\ \A c \in {"c1", "c2"} : WF_(TaskStore!vars)(part \in StoreParts /\ TaskStore!Step(c))
    /\ \A s \in {"p1", "t1", "m1"} : WF_(Schema!vars)(part = "schema" /\ Schema!Step(s))

MCSpec == MCInit /\ [][MCNext]_mcVars /\ Fairness

-----------------------------------------------------------------------------
(* Properties *)

(* Removing tasks removes no configuration whose task lives in another     *)
(* store, and a listing read to its last page without an error or a        *)
(* removal has returned every configuration that was there when it began,  *)
(* although others are added and commit out of sequence meanwhile.         *)
PushRowsKept == [][ExternalRowsKept /\ ListingCovers']_mcVars

(* What the task store's statements do to the committed table, one at a    *)
(* time, is what single operations would do: no append, cancellation or    *)
(* revision-checked write undoes a change made between its read and its    *)
(* write, and no append lands on a task stored again under the same id.    *)
ImplementsRevisionedStore == Revisioned!Spec

(* Every connection of the task store is in connections_ once, with no     *)
(* transaction open on it and no row locked by it, or is leased to one     *)
(* caller: whatever failed, the pool never shrinks, no two callers share a *)
(* connection, and every early return of Cancel and List rolls back.  The  *)
(* state column that List filters by says what task_proto says, and the    *)
(* total of a list is that of the tasks it returns.                        *)
PoolKept ==
    part \in StoreParts =>
        /\ TaskStore!PoolExact /\ TaskStore!CleanReturn
        /\ TaskStore!ColumnAgrees /\ TaskStore!ListAgrees

(* Stores change the schema from what it was to the complete one in a      *)
(* single step ("installed transactionally"), a store that changed it      *)
(* itself takes it for task-aware unless an operator interferes, and one   *)
(* that takes it for task-aware saw every helper, trigger, privilege and   *)
(* marker of this release.                                                 *)
SchemaInstalledWhole ==
    [][part = "schema" => /\ Schema!InstalledWhole
                          /\ Schema!InitialisedIsAccepted'
                          /\ Schema!AcceptedIsComplete']_mcVars

(* No order of the locks leaves statements, callers of the pool or         *)
(* constructors waiting for one another, although connections fail: time   *)
(* and again none of them is under way.                                    *)
EveryoneReturns ==
    []<>(/\ \A s \in Sessions : session[s].pc = "idle"
         /\ part \in StoreParts => \A c \in {"c1", "c2"} : call[c].pc = "idle"
         /\ part = "schema" => \A s \in {"p1", "t1", "m1"} : store[s].pc = "end")
=============================================================================
