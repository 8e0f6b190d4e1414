-------------------------- MODULE PostgresTaskStore --------------------------
(***************************************************************************)
(* PostgresTaskStore and the PostgresConnectionPool under it.  A call      *)
(* leases a connection, runs its statements one by one and gives the       *)
(* connection back; between two statements other calls, and other          *)
(* programs, change the table.  A connection can die at any time, which    *)
(* libpq notices when a statement fails on it; a statement can have taken  *)
(* effect although its answer is lost.                                     *)
(*                                                                         *)
(* A row keeps the state twice, as PostgreSQL does: in the state column    *)
(* and inside task_proto, with the history.                                *)
(***************************************************************************)
EXTENDS Integers, Sequences, FiniteSets

CONSTANTS Callers,      \* threads calling the store
          Connections,  \* connections of the pool, connection_pool_size of them
          Ids,          \* task ids
          Written,      \* the states callers write
          Terminal, Canceled,
          Operations,   \* the operations callers use
          Messages,     \* messages to append
          RetryLimit,   \* kTaskHistoryRevisionRetryLimit
          MaxCalls,     \* bound on the calls
          MaxDeaths,    \* bound on the connections lost and the statements refused
          MaxRemovals   \* bound on the rows other programs delete

None == "none"
NoRow == [revision |-> 0]

StoreAssumption ==
    /\ Connections # {}
    /\ Canceled \in Terminal /\ Canceled \notin Written
    /\ RetryLimit \in Nat \ {0}

VARIABLES table,      \* committed rows of a2a_tasks
          created,    \* a2a_tasks_created_sequence
          rowLock,    \* the connection whose transaction locked a row
          pool,       \* connections_
          status,     \* ok, dead (not noticed) or bad (PQstatus)
          pending,    \* the uncommitted row of a connection's transaction
          open,       \* connections with a transaction in progress
          call,       \* the call each caller is in
          calls, deaths, removals

vars == <<table, created, rowLock, pool, status, pending, open, call, calls, deaths, removals>>
tableVars == <<table, created>>
txnVars == <<rowLock, pending, open>>
boundVars == <<calls, deaths, removals>>

NoCall == [pc |-> "idle", op |-> None, id |-> None, conn |-> None, state |-> None, message |-> None,
           dedupe |-> FALSE, seen |-> NoRow, attempt |-> 0, view |-> {}, total |-> 0, page |-> {}, result |-> None]

Rows(T) == {i \in Ids : T[i] # NoRow}

Init ==
    /\ table = [i \in Ids |-> NoRow]
    /\ created = 1
    /\ rowLock = [i \in Ids |-> None]
    /\ \E order \in [1 .. Cardinality(Connections) -> Connections] :
         (\A k \in Connections : \E n \in DOMAIN order : order[n] = k) /\ pool = order
    /\ status = [k \in Connections |-> "ok"]
    /\ pending = [k \in Connections |-> NoRow]
    /\ open = {}
    /\ call = [c \in Callers |-> NoCall]
    /\ calls = 0 /\ deaths = 0 /\ removals = 0

-----------------------------------------------------------------------------
(* The pool *)

Begin(c, op) ==
    /\ op.op \in Operations
    /\ call[c].pc = "idle" /\ calls < MaxCalls /\ calls' = calls + 1
    /\ call' = [call EXCEPT ![c] = op]
    /\ UNCHANGED <<tableVars, txnVars, pool, status, deaths, removals>>

(* Acquire waits until connections_ is not empty and takes the last one;   *)
(* what PQstatus says of it decides whether it is opened again.            *)
Acquire(c) ==
    LET k == pool[Len(pool)] IN
    /\ call[c].pc = "acquire" /\ pool # <<>>
    /\ pool' = SubSeq(pool, 1, Len(pool) - 1)
    /\ call' = [call EXCEPT ![c].conn = k, ![c].pc = IF status[k] = "bad" THEN "reopen" ELSE call[c].op]
    /\ UNCHANGED <<tableVars, txnVars, status, boundVars>>

(* What a caller learns, and the lease's destructor. *)
Leave(c, result) ==
    /\ pool' = Append(pool, call[c].conn)
    /\ call' = [call EXCEPT ![c] = [NoCall EXCEPT !.result = result]]

(* Mutant: a failed reopening drops the connection. *)
ReopenDropping(c) ==
    LET k == call[c].conn IN
    /\ call[c].pc = "reopen"
    /\ \/ /\ status' = [status EXCEPT ![k] = "ok"]
          /\ call' = [call EXCEPT ![c].pc = call[c].op]
       \/ call' = [call EXCEPT ![c] = [NoCall EXCEPT !.result = "error"]] /\ UNCHANGED status
    /\ UNCHANGED <<tableVars, txnVars, pool, boundVars>>

(* A new connection replaces the bad one if it opens and answers with the  *)
(* identity the pool was made with; else the bad one goes back.            *)
Reopen(c) ==
    LET k == call[c].conn IN
    /\ call[c].pc = "reopen"
    /\ \/ /\ status' = [status EXCEPT ![k] = "ok"]
          /\ call' = [call EXCEPT ![c].pc = call[c].op]
          /\ UNCHANGED pool
       \/ Leave(c, "error") /\ UNCHANGED status
    /\ UNCHANGED <<tableVars, txnVars, boundVars>>

-----------------------------------------------------------------------------
(* PostgreSQL *)

(* The server or the network ends a session: its transaction is rolled     *)
(* back.                                                                   *)
Die(k) ==
    /\ status[k] = "ok" /\ deaths < MaxDeaths /\ deaths' = deaths + 1
    /\ status' = [status EXCEPT ![k] = "dead"]
    /\ open' = open \ {k}
    /\ pending' = [pending EXCEPT ![k] = NoRow]
    /\ rowLock' = [i \in Ids |-> IF rowLock[i] = k THEN None ELSE rowLock[i]]
    /\ UNCHANGED <<tableVars, pool, call, calls, removals>>

(* Another program deletes the row, which waits for a transaction on it.   *)
RemoveRow(i) ==
    /\ table[i] # NoRow /\ rowLock[i] = None
    /\ removals < MaxRemovals /\ removals' = removals + 1
    /\ table' = [table EXCEPT ![i] = NoRow]
    /\ UNCHANGED <<created, txnVars, pool, status, call, calls, deaths>>

Live(c) == status[call[c].conn] = "ok"

Running(c) == call[c].pc \notin {"idle", "acquire", "reopen"}

(* A statement finds its connection dead: CheckCommand or CheckTuples      *)
(* fails, and the Transaction's destructor sends a ROLLBACK nobody hears.  *)
StatementFails(c) ==
    /\ Running(c) /\ ~Live(c)
    /\ status' = [status EXCEPT ![call[c].conn] = "bad"]
    /\ Leave(c, "error")
    /\ UNCHANGED <<tableVars, txnVars, boundVars>>

(* Mutant: the destructor does not roll back. *)
StatementErrorsOpen(c) ==
    /\ Running(c) /\ Live(c) /\ deaths < MaxDeaths /\ deaths' = deaths + 1
    /\ Leave(c, "error")
    /\ UNCHANGED <<tableVars, txnVars, status, calls, removals>>

(* PostgreSQL refuses a statement (a timeout, a cancelled query) on a      *)
(* connection that stays good; the destructor rolls back.                  *)
StatementErrors(c) ==
    LET k == call[c].conn IN
    /\ Running(c) /\ Live(c) /\ deaths < MaxDeaths /\ deaths' = deaths + 1
    /\ open' = open \ {k}
    /\ pending' = [pending EXCEPT ![k] = NoRow]
    /\ rowLock' = [i \in Ids |-> IF rowLock[i] = k THEN None ELSE rowLock[i]]
    /\ Leave(c, "error")
    /\ UNCHANGED <<tableVars, status, calls, removals>>

(* Either the answer arrives, or the session ends behind the statement and *)
(* the caller is told of an error.                                         *)
Answer(c, result) ==
    \/ Leave(c, result) /\ UNCHANGED <<status, deaths>>
    \/ /\ deaths < MaxDeaths /\ deaths' = deaths + 1
       /\ status' = [status EXCEPT ![call[c].conn] = "bad"]
       /\ Leave(c, "error")

Free(c, i) == rowLock[i] \in {None, call[c].conn}

NewRow(state, history) ==
    [column |-> state, state |-> state, history |-> history, revision |-> 1, created |-> created]

(* INSERT ... ON CONFLICT DO UPDATE *)
Upserted(i, state, history) ==
    IF table[i] = NoRow THEN NewRow(state, history)
    ELSE [table[i] EXCEPT !.column = state, !.state = state, !.history = history, !.revision = @ + 1]

Store(i, row) ==
    /\ table' = [table EXCEPT ![i] = row]
    /\ created' = IF table[i] = NoRow THEN created + 1 ELSE created
-----------------------------------------------------------------------------
(* The operations; each begins by leasing a connection *)

Start(c, i) ==
    \/ \E state \in Written :
         Begin(c, [NoCall EXCEPT !.pc = "acquire", !.op = "upsert", !.id = i, !.state = state])
    \/ \E state \in Written :
         Begin(c, [NoCall EXCEPT !.pc = "acquire", !.op = "snapshot", !.id = i, !.state = state])
    \/ Begin(c, [NoCall EXCEPT !.pc = "acquire", !.op = "list"])
    \/ Begin(c, [NoCall EXCEPT !.pc = "acquire", !.op = "begin", !.id = i])
    \/ \E m \in Messages, d \in BOOLEAN :
         Begin(c, [NoCall EXCEPT !.pc = "acquire", !.op = "append", !.id = i, !.message = m, !.dedupe = d])

(* CreateOrUpdate: one statement, which waits for a transaction on the row. *)
CreateOrUpdate(c) ==
    LET i == call[c].id IN
    /\ call[c].pc = "upsert" /\ Live(c) /\ Free(c, i)
    /\ Store(i, Upserted(i, call[c].state, <<>>))
    /\ Answer(c, "ok")
    /\ UNCHANGED <<txnVars, calls, removals>>

(* GetSnapshot, and Get: one query.  The caller of GetSnapshot goes on to  *)
(* write what it computed, if the revision is still the same.              *)
GetSnapshot(c) ==
    LET i == call[c].id IN
    /\ call[c].pc = "snapshot" /\ Live(c)
    /\ pool' = Append(pool, call[c].conn)
    /\ call' = [call EXCEPT ![c].seen = table[i], ![c].conn = None, ![c].pc = "acquire", ![c].op = "conditional"]
    /\ UNCHANGED <<tableVars, txnVars, status, boundVars>>

(* CreateOrUpdateIfRevision: an INSERT that does nothing when the row is   *)
(* there, or an UPDATE of the expected revision.                           *)
CreateOrUpdateIfRevision(c) ==
    LET i == call[c].id
        expected == call[c].seen.revision
        history == IF expected = 0 THEN <<>> ELSE call[c].seen.history
    IN  /\ call[c].pc = "conditional" /\ Live(c) /\ (expected = 0 \/ Free(c, i))
        /\ \/ /\ table[i].revision = expected
              /\ Store(i, Upserted(i, call[c].state, history))
              /\ Answer(c, "updated")
           \/ /\ table[i].revision # expected
              /\ Answer(c, "conflict")
              /\ UNCHANGED tableVars
        /\ UNCHANGED <<txnVars, calls, removals>>

(* List: BEGIN, repeatable read, count; the page is read from the same     *)
(* snapshot.                                                               *)
ListBegin(c) ==
    LET k == call[c].conn IN
    /\ call[c].pc = "list" /\ Live(c)
    /\ open' = open \cup {k}
    /\ call' = [call EXCEPT ![c].pc = "page", ![c].view = Rows(table), ![c].total = Cardinality(Rows(table))]
    /\ UNCHANGED <<tableVars, rowLock, pending, pool, status, boundVars>>

ListPage(c) ==
    LET k == call[c].conn IN
    /\ call[c].pc = "page" /\ Live(c)
    /\ open' = open \ {k}
    /\ pool' = Append(pool, k)
    /\ call' = [call EXCEPT ![c] = [NoCall EXCEPT !.result = "ok", !.total = call[c].total, !.page = call[c].view]]
    /\ UNCHANGED <<tableVars, rowLock, pending, status, boundVars>>

(* Cancel: BEGIN *)
CancelBegin(c) ==
    /\ call[c].pc = "begin" /\ Live(c)
    /\ open' = open \cup {call[c].conn}
    /\ call' = [call EXCEPT ![c].pc = "select"]
    /\ UNCHANGED <<tableVars, rowLock, pending, pool, status, boundVars>>

(* Mutant: the row is read without FOR UPDATE. *)
SelectTaskUnlocked(c) ==
    LET i == call[c].id IN
    /\ call[c].pc = "select" /\ Live(c)
    /\ table[i] # NoRow /\ table[i].state \notin Terminal
    /\ call' = [call EXCEPT ![c].pc = "write", ![c].seen = table[i]]
    /\ UNCHANGED <<tableVars, txnVars, pool, status, boundVars>>

(* SELECT ... FOR UPDATE, and the early returns: not found, not            *)
(* cancelable.  The Transaction's destructor rolls back.                   *)
SelectTaskForUpdate(c) ==
    LET i == call[c].id
        k == call[c].conn
    IN  /\ call[c].pc = "select" /\ Live(c) /\ Free(c, i)
        /\ IF table[i] = NoRow \/ table[i].state \in Terminal
           THEN Leave(c, "refused") /\ open' = open \ {k} /\ UNCHANGED rowLock
           ELSE /\ rowLock' = [rowLock EXCEPT ![i] = k]
                /\ call' = [call EXCEPT ![c].pc = "write", ![c].seen = table[i]]
                /\ UNCHANGED <<pool, open>>
        /\ UNCHANGED <<tableVars, pending, status, boundVars>>

CancelWrite(c) ==
    LET i == call[c].id IN
    /\ call[c].pc = "write" /\ Live(c)
    /\ pending' = [pending EXCEPT ![call[c].conn] = Upserted(i, Canceled, call[c].seen.history)]
    /\ call' = [call EXCEPT ![c].pc = "commit"]
    /\ UNCHANGED <<tableVars, rowLock, open, pool, status, boundVars>>

CancelCommit(c) ==
    LET i == call[c].id
        k == call[c].conn
    IN  /\ call[c].pc = "commit" /\ Live(c)
        /\ Store(i, pending[k])
        /\ pending' = [pending EXCEPT ![k] = NoRow]
        /\ rowLock' = [rowLock EXCEPT ![i] = None]
        /\ open' = open \ {k}
        /\ Answer(c, "canceled")
        /\ UNCHANGED <<calls, removals>>

FindHistoryDedupeReason(row, c) == call[c].dedupe /\ \E n \in DOMAIN row.history : row.history[n] = call[c].message

(* AppendTaskHistory: the snapshot, a duplicate is dropped. *)
SelectTaskHistorySnapshot(c) ==
    LET row == table[call[c].id] IN
    /\ call[c].pc = "append" /\ Live(c)
    /\ IF row = NoRow THEN Leave(c, "not found")
       ELSE IF FindHistoryDedupeReason(row, c) THEN Leave(c, "dropped")
       ELSE call' = [call EXCEPT ![c].pc = "update", ![c].seen = row] /\ UNCHANGED pool
    /\ UNCHANGED <<tableVars, txnVars, status, boundVars>>

(* Mutant: the update does not ask whether the row is the one it read. *)
UpdateTaskHistoryOfAny(c) ==
    LET i == call[c].id
        seen == call[c].seen
    IN  /\ call[c].pc = "update" /\ Live(c) /\ Free(c, i)
        /\ \/ /\ table[i].revision = seen.revision
              /\ Store(i, [table[i] EXCEPT !.state = seen.state, !.history = Append(seen.history, call[c].message),
                                           !.revision = @ + 1])
              /\ Answer(c, "appended")
           \/ /\ table[i].revision # seen.revision
              /\ call' = [call EXCEPT ![c].pc = "append"]
              /\ UNCHANGED <<tableVars, pool, status, deaths>>
        /\ UNCHANGED <<txnVars, calls, removals>>

(* UPDATE ... WHERE revision AND created_sequence: task_proto is written   *)
(* whole, the state column is not.  No row updated is another attempt.     *)
UpdateTaskHistory(c) ==
    LET i == call[c].id
        seen == call[c].seen
        same == table[i] # NoRow /\ table[i].revision = seen.revision /\ table[i].created = seen.created
    IN  /\ call[c].pc = "update" /\ Live(c) /\ Free(c, i)
        /\ \/ /\ same
              /\ Store(i, [table[i] EXCEPT !.state = seen.state, !.history = Append(seen.history, call[c].message),
                                           !.revision = @ + 1])
              /\ Answer(c, "appended")
           \/ /\ ~same /\ call[c].attempt + 1 < RetryLimit
              /\ call' = [call EXCEPT ![c].pc = "append", ![c].attempt = @ + 1]
              /\ UNCHANGED <<tableVars, pool, status, deaths>>
           \/ /\ ~same /\ call[c].attempt + 1 >= RetryLimit
              /\ Leave(c, "retry limit")
              /\ UNCHANGED <<tableVars, status, deaths>>
        /\ UNCHANGED <<txnVars, calls, removals>>

AppendTaskHistory(c) == SelectTaskHistorySnapshot(c) \/ UpdateTaskHistory(c)

-----------------------------------------------------------------------------
Step(c) ==
    \/ Acquire(c)
    \/ Reopen(c)
    \/ StatementFails(c)
    \/ StatementErrors(c)
    \/ CreateOrUpdate(c)
    \/ GetSnapshot(c)
    \/ CreateOrUpdateIfRevision(c)
    \/ ListBegin(c)
    \/ ListPage(c)
    \/ CancelBegin(c)
    \/ SelectTaskForUpdate(c)
    \/ CancelWrite(c)
    \/ CancelCommit(c)
    \/ AppendTaskHistory(c)

Next ==
    \/ \E c \in Callers : Step(c) \/ \E i \in Ids : Start(c, i)
    \/ \E k \in Connections : Die(k)
    \/ \E i \in Ids : RemoveRow(i)

Spec == Init /\ [][Next]_vars

(* A caller's thread runs, a row lock that stays free is granted, and      *)
(* opening a connection ends one way or the other.                         *)
FairSpec == Spec /\ \A c \in Callers : WF_vars(Step(c))

-----------------------------------------------------------------------------
(* Properties *)

(* Rows are complete, revisions count from 1 and an append gives up after  *)
(* RetryLimit attempts.                                                    *)
TypeOK ==
    /\ \A i \in Rows(table) : /\ table[i].state \in Written \cup {Canceled}
                              /\ table[i].revision \in Nat \ {0} /\ table[i].created < created
    /\ \A c \in Callers : call[c].conn \in Connections \cup {None} /\ call[c].attempt < RetryLimit

(* The state column, by which List filters, says what task_proto says,     *)
(* which every reader is given, although an append writes only the latter. *)
ColumnAgrees == \A i \in Rows(table) : table[i].column = table[i].state

Leased == {c \in Callers : call[c].conn # None}

(* Every connection is in connections_ once or leased to one caller,       *)
(* whatever failed: the pool never shrinks, and no two callers share one.  *)
PoolExact ==
    /\ \A k \in Connections :
         Cardinality({n \in DOMAIN pool : pool[n] = k}) + Cardinality({c \in Leased : call[c].conn = k}) = 1

(* A connection goes back to the pool with no transaction open on it and   *)
(* no row locked by it: every early return of Cancel and List rolls back.  *)
CleanReturn ==
    \A n \in DOMAIN pool : pool[n] \notin open /\ \A i \in Ids : rowLock[i] # pool[n]

(* The total a list reports is that of the tasks it returns, read in two   *)
(* statements while rows come and go.                                      *)
ListAgrees == \A c \in Callers : call[c].pc = "idle" => call[c].total = Cardinality(call[c].page)

(* What is read of the table, the state column apart *)
Visible(row) ==
    IF row = NoRow THEN NoRow
    ELSE [state |-> row.state, history |-> row.history, revision |-> row.revision, created |-> row.created]

(* Every call returns, although connections die and callers outnumber      *)
(* them.                                                                   *)
CallsReturn == \A c \in Callers : call[c].pc # "idle" ~> call[c].pc = "idle"
=============================================================================
