------------------------------ MODULE TaskPaging ------------------------------
(***************************************************************************)
(* A client that walks ListTasks page by page while other clients write.   *)
(* Each call is InMemoryTaskStore::List, under the store's shared lock;    *)
(* between two calls any write may happen.  The page token is the cursor   *)
(* of the last task of the page (its text form is ListPageToken's).  The   *)
(* client keeps its filters for the whole walk, as the documentation asks, *)
(* and may change the page size.                                           *)
(***************************************************************************)
EXTENDS TaskStore

CONSTANTS
    PageSizes,      \* page sizes the client uses; 0: the store's "no bound"
    AnyContext,     \* the empty context_id filter
    AnyState,       \* no status_filter
    NoCursor        \* the empty page token

PageSizesAreNaturals == PageSizes \subseteq Nat
NoCursorIsNoCursor == NoCursor \notin [updated_at : Nat, task_id : Ids]

VARIABLES
    request,        \* the filters of the walk
    boundary,       \* the token of the next call
    phase,          \* "first": before the first call, "more": token in hand, "done"
    listed,         \* how often each task was returned
    steady          \* tasks that matched at the first call and were not written since

pagingVars == <<request, boundary, phase, listed, steady>>
vars == <<storeVars, pagingVars>>

(* status_timestamp_after = 0: no cutoff.  A task without a status timestamp *)
(* passes no cutoff.                                                         *)
Request == [context_id : Contexts \cup {AnyContext}, status_filter : States \cup {AnyState},
            status_timestamp_after : Timestamps \cup {0}]

HasStatusAfterCutoff(task, cutoff) == task.timestamp # 0 /\ task.timestamp >= cutoff

MatchesListFilters(task, req) ==
    /\ req.context_id # AnyContext => task.context_id = req.context_id
    /\ req.status_filter # AnyState => task.state = req.status_filter
    /\ req.status_timestamp_after # 0 => HasStatusAfterCutoff(task, req.status_timestamp_after)

Init ==
    /\ StoreInit
    /\ request \in Request
    /\ boundary = NoCursor
    /\ phase = "first"
    /\ listed = [i \in Ids |-> 0]
    /\ steady = {}

-----------------------------------------------------------------------------
(* Mutant: lower_bound, which gives the boundary itself once more. *)
FromBoundary(c) == boundary = NoCursor \/ ~ListCursorPrecedes(c, boundary)

(* upper_bound(boundary): the cursors that come after it. *)
AfterBoundary(c) == boundary = NoCursor \/ ListCursorPrecedes(boundary, c)

Rest == {c \in update_order : AfterBoundary(c) /\ MatchesListFilters(tasks[c.task_id], request)}

(* page is the first page_size cursors of rest, or all of them. *)
IsPage(page, rest, page_size) ==
    /\ page \subseteq rest
    /\ \A c \in page, d \in rest \ page : ListCursorPrecedes(c, d)
    /\ page # rest => Cardinality(page) = page_size
    /\ page_size # 0 => Cardinality(page) <= page_size
    /\ page_size = 0 => page = rest

IsLast(c, page) == c \in page /\ \A d \in page \ {c} : ListCursorPrecedes(d, c)

(* The token: the last task of the page, or empty when nothing is left. *)
NextPageToken(page, rest) == IF page = rest THEN NoCursor ELSE CHOOSE c \in page : IsLast(c, page)

List(page_size) ==
    /\ phase # "done"
    /\ LET rest == Rest IN
       \E page \in SUBSET rest :
          /\ IsPage(page, rest, page_size)
          /\ boundary' = NextPageToken(page, rest)
          /\ phase' = IF page = rest THEN "done" ELSE "more"
          /\ listed' = [i \in Ids |-> IF \E c \in page : c.task_id = i THEN listed[i] + 1 ELSE listed[i]]
          /\ steady' = IF phase = "first" THEN {c.task_id : c \in rest} ELSE steady
    /\ UNCHANGED <<storeVars, request>>

(* A write by another client: a created or replaced task starts without history. *)
WriteBy(i) ==
    /\ \E now \in Clock :
          \/ \E s \in States, t \in Timestamps, x \in Contexts, d \in Metadata :
                CreateOrUpdate(i, [state |-> s, explained |-> FALSE, timestamp |-> t,
                                   context_id |-> x, metadata |-> d, history |-> <<>>], now)
          \/ Cancel(i, now)
          \/ \E m \in Messages, p \in Policies : AppendTaskHistory(i, m, p, now)
    /\ steady' = steady \ {i}
    /\ UNCHANGED <<request, boundary, phase, listed>>

Next ==
    \/ \E page_size \in PageSizes : List(page_size)
    \/ \E i \in Ids : WriteBy(i)

Spec == Init /\ [][Next]_vars

-----------------------------------------------------------------------------
TypeOK ==
    /\ StoreTypeOK
    /\ request \in Request
    /\ boundary \in [updated_at : 0..MaxTime, task_id : Ids] \cup {NoCursor}
    /\ phase \in {"first", "more", "done"}
    /\ listed \in [Ids -> Nat]
    /\ steady \subseteq Ids

(* "already traversed tasks do not move backward and repeat"                  *)
(* (list-tasks-pagination.md): whatever is written between the pages, and     *)
(* whatever the clock reads, a walk returns no task twice.                    *)
NoTaskTwice == \A i \in Ids : listed[i] <= 1

(* A walk that has ended returned every task that matched the filters when it *)
(* began and was not written during it: List's upper_bound and the token of a *)
(* filtered page skip nothing.                                                *)
NothingSkipped == phase = "done" => \A i \in steady : listed[i] = 1
=============================================================================
