---------------------------- MODULE SecuredListing ----------------------------
(***************************************************************************)
(* DispatchSecurity::ListTasks: a client walks the tasks it may see, page  *)
(* by page, while tasks are written and the application's policy changes.  *)
(* A call scans the store from the start in batches (SelectTaskIds), judges*)
(* every task of a batch, and then reads each selected task again and      *)
(* judges it again.  Only a batch and a read hold the store's lock: writes *)
(* and policy changes come between any two of these steps.  The filters,   *)
(* the store's List and its tokens are TaskPaging's; boundary is the scan's*)
(* query.page_token, token is the one the client holds.  The metadata of a *)
(* task stands for what CanAccessTask decides by.                          *)
(***************************************************************************)
EXTENDS TaskPaging, SequencesExt

CONSTANTS
    MaxPageSize,    \* kMaxListTasksPageSize, also the size of a scan's batch
    DefaultPageSize \* kDefaultListTasksPageSize

PageSizesArePositive == DefaultPageSize \in Nat \ {0} /\ MaxPageSize \in Nat \ {0}

VARIABLES
    granted,        \* the metadata CanAccessTask accepts for this caller
    token,          \* the page token the client will send, NoCursor: none
    size,           \* the page size of the call in progress
    batch,          \* what is left of the batch: cursors with the task's metadata
    selected,       \* VisibleTaskPage.task_ids
    last_selected,
    next_page_token,
    total_size,
    reply,          \* tasks read for the answer: id and metadata
    visible,        \* what the caller could list when the call began
    calm,           \* nothing was written or granted since the call began
    denied          \* metadata that were not granted at any time of the call

callVars == <<size, batch, selected, last_selected, next_page_token, total_size, reply>>
ghostVars == <<visible, calm, denied>>

(* SecurityPolicy::CanAccessTask, an application's, as ListTasks uses it. *)
CanAccessTask(metadata) == metadata \in granted

Visible == {c.task_id : c \in {d \in update_order :
              /\ MatchesListFilters(tasks[d.task_id], request)
              /\ CanAccessTask(tasks[d.task_id].metadata)}}

SecuredInit ==
    /\ Init
    /\ granted \in SUBSET Metadata
    /\ token = NoCursor
    /\ size = 0 /\ batch = <<>> /\ selected = <<>> /\ last_selected = NoCursor
    /\ next_page_token = NoCursor /\ total_size = 0 /\ reply = <<>>
    /\ visible = {} /\ calm = FALSE /\ denied = {}

Forget ==
    /\ size' = 0 /\ batch' = <<>> /\ selected' = <<>> /\ last_selected' = NoCursor
    /\ next_page_token' = NoCursor /\ total_size' = 0 /\ reply' = <<>>
    /\ boundary' = NoCursor

-----------------------------------------------------------------------------
(* ListTasks up to the scan.  The scan begins with an empty page token,      *)
(* whatever token the client sent; without a scope there is nothing to read. *)
Call(page_size) ==
    /\ phase \in {"first", "more"}
    /\ page_size <= MaxPageSize
    /\ \E scoped \in BOOLEAN :
          /\ ~scoped => granted = {}
          /\ phase' = IF scoped THEN "scan" ELSE "read"
    /\ size' = IF page_size = 0 THEN DefaultPageSize ELSE page_size
    /\ visible' = Visible
    /\ calm' = TRUE
    /\ denied' = Metadata \ granted
    /\ steady' = IF token = NoCursor THEN Visible ELSE steady
    /\ UNCHANGED <<storeVars, request, boundary, listed, granted, token, batch, selected,
                   last_selected, next_page_token, total_size, reply>>

(* task_store_->List(query): one batch after the scan's boundary.            *)
ListBatch ==
    /\ phase = "scan"
    /\ LET rest == Rest IN
       \E page \in SUBSET rest :
          /\ IsPage(page, rest, MaxPageSize)
          /\ batch' = [k \in 1..Cardinality(page) |->
                         LET c == SetToSortSeq(page, ListCursorPrecedes)[k] IN
                         [cursor |-> c, metadata |-> tasks[c.task_id].metadata]]
          /\ boundary' = NextPageToken(page, rest)
    /\ phase' = "judge"
    /\ UNCHANGED <<storeVars, request, listed, steady, granted, token, size, selected,
                   last_selected, next_page_token, total_size, reply, ghostVars>>

(* Mutant: the token is that of the task left out. *)
SelectTokenLeftOut(c) ==
    /\ total_size' = total_size + 1
    /\ IF token # NoCursor /\ ~ListCursorPrecedes(token, c)
       THEN UNCHANGED <<selected, last_selected, next_page_token>>
       ELSE IF Len(selected) < size
            THEN /\ selected' = Append(selected, c.task_id)
                 /\ last_selected' = c
                 /\ UNCHANGED next_page_token
            ELSE /\ next_page_token' = IF next_page_token = NoCursor THEN c ELSE next_page_token
                 /\ UNCHANGED <<selected, last_selected>>

(* A task the caller may see: counted always, selected when it comes after    *)
(* the client's cursor and the page has room; one that no longer fits makes   *)
(* the token, which is that of the last selected task.                        *)
Select(c) ==
    /\ total_size' = total_size + 1
    /\ IF token # NoCursor /\ ~ListCursorPrecedes(token, c)
       THEN UNCHANGED <<selected, last_selected, next_page_token>>
       ELSE IF Len(selected) < size
            THEN /\ selected' = Append(selected, c.task_id)
                 /\ last_selected' = c
                 /\ UNCHANGED next_page_token
            ELSE /\ next_page_token' = IF next_page_token = NoCursor THEN last_selected ELSE next_page_token
                 /\ UNCHANGED <<selected, last_selected>>

Judge ==
    /\ phase = "judge"
    /\ batch # <<>>
    /\ IF CanAccessTask(Head(batch).metadata) THEN Select(Head(batch).cursor)
       ELSE UNCHANGED <<selected, last_selected, next_page_token, total_size>>
    /\ batch' = Tail(batch)
    /\ UNCHANGED <<storeVars, request, boundary, phase, listed, steady, granted, token, size, reply, ghostVars>>

(* The scan goes on while the store gives a token.                           *)
BatchDone ==
    /\ phase = "judge"
    /\ batch = <<>>
    /\ phase' = IF boundary = NoCursor THEN "read" ELSE "scan"
    /\ UNCHANGED <<storeVars, request, boundary, listed, steady, granted, token, callVars, ghostVars>>

(* The client may ask again with the same token. *)
CallFails ==
    /\ phase' = IF token = NoCursor THEN "first" ELSE "more"
    /\ Forget
    /\ UNCHANGED <<storeVars, request, listed, steady, granted, token, ghostVars>>

(* A store that fails to list or to read fails the call.                     *)
StoreFails == phase \in {"scan", "read"} /\ CallFails

(* Mutant: a selected task is not judged again. *)
GetUnauthorizedTask(i) == i \in Stored

(* GetAuthorizedTask: stored, and accessible as it is now.                   *)
GetAuthorizedTask(i) == i \in Stored /\ CanAccessTask(tasks[i].metadata)

(* One selected task is read; a task that cannot be read fails the page.     *)
ReadTask ==
    /\ phase = "read"
    /\ Len(reply) < Len(selected)
    /\ LET i == selected[Len(reply) + 1] IN
       /\ GetAuthorizedTask(i)
       /\ reply' = Append(reply, [id |-> i, metadata |-> tasks[i].metadata])
    /\ UNCHANGED <<storeVars, request, boundary, phase, listed, steady, granted, token, size, batch,
                   selected, last_selected, next_page_token, total_size, ghostVars>>

ReadRefused ==
    /\ phase = "read"
    /\ Len(reply) < Len(selected)
    /\ ~GetAuthorizedTask(selected[Len(reply) + 1])
    /\ CallFails

(* The client gets the page; an empty token ends its walk.                   *)
Return ==
    /\ phase = "read"
    /\ Len(reply) = Len(selected)
    /\ token' = next_page_token
    /\ phase' = IF next_page_token = NoCursor THEN "done" ELSE "more"
    /\ listed' = [i \in Ids |-> listed[i] + Cardinality({k \in DOMAIN reply : reply[k].id = i})]
    /\ Forget
    /\ UNCHANGED <<storeVars, request, steady, granted, ghostVars>>

SecuredWrite(i) ==
    /\ WriteBy(i)
    /\ calm' = FALSE
    /\ UNCHANGED <<granted, token, callVars, visible, denied>>

(* The application grants or revokes.  A task that was ever hidden is not    *)
(* owed to the walk.                                                         *)
ChangePolicy ==
    /\ \E g \in SUBSET Metadata \ {granted} :
          /\ granted' = g
          /\ denied' = denied \ g
          /\ steady' = {i \in steady : tasks[i].metadata \in g}
    /\ calm' = FALSE
    /\ UNCHANGED <<storeVars, request, boundary, phase, listed, token, callVars, visible>>

SecuredNext ==
    \/ \E page_size \in PageSizes : Call(page_size)
    \/ ListBatch \/ Judge \/ BatchDone \/ StoreFails \/ ReadTask \/ ReadRefused \/ Return
    \/ \E i \in Ids : SecuredWrite(i)
    \/ ChangePolicy

-----------------------------------------------------------------------------
(* "Only a returned, authorized task supplies a response token"               *)
(* (list-tasks-pagination.md): the token a client holds is the cursor of a    *)
(* task that some page of the walk has given it, never of one it may not see. *)
TokenOfReturned == token # NoCursor => listed[token.task_id] >= 1

(* "Totals exclude inaccessible tasks and are independent of the cursor       *)
(* boundary": when nothing was written and no permission changed during the   *)
(* call, the total is the number of tasks the caller could list, on the first *)
(* page and on every later one.                                               *)
TotalExact == phase = "read" /\ calm => total_size = Cardinality(visible)

(* Selected tasks are read again and judged again before they are projected:  *)
(* contents that were out of the caller's reach during the whole call are in  *)
(* no answer, also when the task was in reach while the scan selected it.     *)
NothingDeniedShown == \A k \in DOMAIN reply : reply[k].metadata \notin denied
=============================================================================
