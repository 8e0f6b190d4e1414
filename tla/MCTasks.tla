------------------------------ MODULE MCTasks ------------------------------
(***************************************************************************)
(* The task services, instances of the components side by side: the id     *)
(* generator, which this module extends, and what works on the task store. *)
(* They share no state in these instances; a behaviour is one of one part, *)
(* which the initial state chooses, and each property is about one part.   *)
(* A variable that two parts name is the running part's; the generator     *)
(* keeps its initial state while another part runs.                        *)
(***************************************************************************)
EXTENDS TaskIdGenerator, TLC

CONSTANTS Off,  \* of a variable the running part does not have
          NoTask, NoCursor, NoMessageId, AnyContext, AnyState, Free,
          a1, a2, s1, s2

VARIABLES part,
    (* TaskStore *)
    tasks, revision, updated_at, update_order,
    (* TaskPaging and SecuredListing *)
    request, boundary, phase, listed, steady,
    (* SecuredListing and TaskAuthorization *)
    granted,
    (* SecuredListing *)
    token, size, batch, selected, last_selected, next_page_token, total_size, reply,
    visible, calm, denied,
    (* TaskAuthorization *)
    mutex, pc, snapshot, streaming, latest, open, stream, received, shutdown, published,
    (* TaskLifecycle *)
    lock, send, sends, outcomes

storeVars == <<tasks, revision, updated_at, update_order>>
StoreOff == tasks = Off /\ revision = Off /\ updated_at = Off /\ update_order = Off
pagingVars == <<request, boundary, phase, listed, steady>>
PagingOff == request = Off /\ boundary = Off /\ phase = Off /\ listed = Off /\ steady = Off

-----------------------------------------------------------------------------
(* A walk through the pages of two tasks while another client writes them, *)
(* with a clock that stands still, goes backwards and reads a time before  *)
(* the epoch, and two messages that differ only in having an id.           *)
Paging == INSTANCE TaskPaging WITH
    Ids <- {1, 2}, States <- {"working", "canceled"}, Terminal <- {"canceled"}, Canceled <- "canceled",
    Contexts <- {"x"}, Timestamps <- {0}, Metadata <- {"none"},
    Messages <- {[id |-> "m", fingerprint |-> "f"], [id |-> NoMessageId, fingerprint |-> "f"]},
    Clock <- {-1, 2}, MaxTime <- 2, MaxHistory <- 2, PageSizes <- {1}

(* A walk without filters through the tasks one caller may see, while they *)
(* are written and its permissions change.                                 *)
Listing == INSTANCE SecuredListing WITH
    Ids <- {1, 2}, States <- {"canceled"}, Terminal <- {"canceled"}, Canceled <- "canceled",
    Contexts <- {"x"}, Timestamps <- {0}, Metadata <- {"mine", "theirs"}, Messages <- {},
    Clock <- {0}, MaxTime <- 2, MaxHistory <- 1, PageSizes <- {0, 2}, MaxPageSize <- 1, DefaultPageSize <- 1

listingVars == <<token, size, batch, selected, last_selected, next_page_token, total_size, reply,
                 visible, calm, denied>>
ListingOff ==
    /\ token = Off /\ size = Off /\ batch = Off /\ selected = Off /\ last_selected = Off
    /\ next_page_token = Off /\ total_size = Off /\ reply = Off /\ visible = Off /\ calm = Off /\ denied = Off

-----------------------------------------------------------------------------
(* Two callers and two streams of the authorization service, on one task.  *)
Authorization == INSTANCE TaskAuthorization WITH
    Ids <- {1}, States <- {"auth_required", "working", "completed", "canceled"},
    Terminal <- {"completed", "canceled"}, Canceled <- "canceled", AuthRequired <- "auth_required",
    Working <- "working", Completed <- "completed", Contexts <- {"x"}, Timestamps <- {0},
    Metadata <- {"none", "marked"}, Marked <- "marked", Messages <- {[id |-> "m", fingerprint |-> "f"]},
    Clock <- {0}, MaxTime <- 5, MaxHistory <- 1, Callers <- {a1, a2}, Streams <- {s1, s2}

authorizationVars == <<mutex, pc, snapshot, streaming, latest, open, stream, received, shutdown, published>>
AuthorizationOff ==
    /\ mutex = Off /\ pc = Off /\ snapshot = Off /\ streaming = Off /\ latest = Off /\ open = Off
    /\ stream = Off /\ received = Off /\ shutdown = Off /\ published = Off

(* Callers and streams are only compared.                                  *)
Symmetry == Permutations({a1, a2}) \cup Permutations({s1, s2})

-----------------------------------------------------------------------------
(* Two callers that send to, cancel and finish two tasks.                  *)
Lifecycle == INSTANCE TaskLifecycle WITH
    Ids <- {1, 2}, States <- {"working", "completed", "canceled"}, Terminal <- {"completed", "canceled"},
    Working <- "working", Completed <- "completed", Canceled <- "canceled", Contexts <- {"x"},
    Timestamps <- {0}, Metadata <- {"none"},
    Messages <- {[id |-> "m1", fingerprint |-> "f"], [id |-> "m2", fingerprint |-> "g"]},
    Clock <- {0}, MaxTime <- 12, MaxHistory <- 4, Callers <- {a1, a2}, MaxCalls <- 4,
    call <- send, calls <- sends

lifecycleVars == <<lock, send, sends, outcomes>>
LifecycleOff == lock = Off /\ send = Off /\ sends = Off /\ outcomes = Off

-----------------------------------------------------------------------------
(* What the components assume of their constants. *)
ASSUME
    /\ Paging!PageSizesAreNaturals /\ Paging!NoCursorIsNoCursor /\ Paging!IdsAreNaturals
    /\ Paging!ClockIsInt64 /\ Paging!CanceledIsTerminal /\ Paging!NoTaskIsNoTask
    /\ Listing!PageSizesArePositive /\ Listing!IdsAreNaturals /\ Listing!ClockIsInt64
    /\ Listing!CanceledIsTerminal /\ Listing!NoTaskIsNoTask /\ Authorization!StatesOfTheService
    /\ Authorization!FreeIsNoCaller /\ Authorization!IdsAreNaturals /\ Authorization!ClockIsInt64
    /\ Authorization!CanceledIsTerminal /\ Authorization!NoTaskIsNoTask
    /\ Lifecycle!LifecycleAssumption /\ Lifecycle!IdsAreNaturals /\ Lifecycle!ClockIsInt64
    /\ Lifecycle!CanceledIsTerminal /\ Lifecycle!NoTaskIsNoTask

tasksVars == <<part, vars, storeVars, pagingVars, granted, listingVars, authorizationVars, lifecycleVars>>

NoFilters == [context_id |-> AnyContext, status_filter |-> AnyState, status_timestamp_after |-> 0]

TasksInit ==
    /\ Init
    /\ \/ part = "ids" /\ StoreOff /\ PagingOff /\ granted = Off /\ ListingOff /\ AuthorizationOff /\ LifecycleOff
       \/ part = "paging" /\ Paging!Init /\ granted = Off /\ ListingOff /\ AuthorizationOff /\ LifecycleOff
       \/ part = "listing" /\ Listing!SecuredInit /\ request = NoFilters /\ AuthorizationOff /\ LifecycleOff
       \/ part = "authorization" /\ Authorization!Init /\ PagingOff /\ ListingOff /\ LifecycleOff
       \/ part = "lifecycle" /\ Lifecycle!Init /\ PagingOff /\ granted = Off /\ ListingOff /\ AuthorizationOff

TasksNext ==
    \/ /\ part = "ids" /\ Next
       /\ UNCHANGED <<part, storeVars, pagingVars, granted, listingVars, authorizationVars, lifecycleVars>>
    \/ /\ part = "paging" /\ Paging!Next
       /\ UNCHANGED <<part, vars, granted, listingVars, authorizationVars, lifecycleVars>>
    \/ /\ part = "listing" /\ Listing!SecuredNext
       /\ UNCHANGED <<part, vars, authorizationVars, lifecycleVars>>
    \/ /\ part = "authorization" /\ Authorization!Next
       /\ UNCHANGED <<part, vars, pagingVars, listingVars, lifecycleVars>>
    \/ /\ part = "lifecycle" /\ Lifecycle!Next
       /\ UNCHANGED <<part, vars, pagingVars, granted, listingVars, authorizationVars>>

TasksSpec == TasksInit /\ [][TasksNext]_tasksVars

-----------------------------------------------------------------------------
(* Properties of the parts; IncreasingUntilOverflow is the generator's.    *)

(* A walk through ListTasks, secured or not, returns no task twice, skips  *)
(* none that stayed as it was, counts and names only tasks the caller may  *)
(* see, and shows nothing that was denied during the whole call.           *)
ListingExact ==
    /\ part = "paging" => Paging!NoTaskTwice /\ Paging!NothingSkipped
    /\ part = "listing" =>
         /\ Listing!NoTaskTwice /\ Listing!NothingSkipped /\ Listing!TokenOfReturned
         /\ Listing!TotalExact /\ Listing!NothingDeniedShown

(* Every change of a task in the store, by whatever service, advances its  *)
(* revision by one and its time, and update_order_ follows it.             *)
WritesAdvance ==
    [][/\ part = "paging" => Paging!WritesAdvance /\ Paging!IndexExact'
       /\ part = "authorization" => Authorization!WritesAdvance /\ Authorization!IndexExact'
       /\ part = "lifecycle" => Lifecycle!WritesAdvance /\ Lifecycle!IndexExact']_tasksVars

(* A stream of the authorization service gets every update published since *)
(* the task it started from, in the order in which they were written.      *)
StreamMissesNothing ==
    part = "authorization" => Authorization!StreamMissesNothing /\ Authorization!PublishedInOrder

(* The authorization service overwrites no cancellation and no history,    *)
(* lets a task work only with an accepted credential and explains it       *)
(* exactly while it waits for one.                                         *)
NothingOverwritten ==
    [][part = "authorization" =>
         /\ Authorization!NothingOverwritten
         /\ Authorization!WorksOnlyIfGranted' /\ Authorization!ExplainedWhilePending']_tasksVars

(* A task that was finished or cancelled never changes again, and no       *)
(* message is lost to a status written from a snapshot.                    *)
TerminalIsFinal ==
    [][part = "lifecycle" => /\ Lifecycle!TerminalIsFinal /\ Lifecycle!HistoryKept
                             /\ Lifecycle!OneOutcome']_tasksVars
=============================================================================
