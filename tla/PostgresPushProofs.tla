------------------------- MODULE PostgresPushProofs --------------------------
(***************************************************************************)
(* NoLocalOrphan, for any number of sessions, tasks and configurations,    *)
(* when every transaction that removes tasks is read committed.            *)
(*                                                                         *)
(* What makes it inductive is who holds which lock where.  A local create  *)
(* that has seen its task keeps the task's advisory lock and the table's   *)
(* share lock until it commits; a deletion keeps the exclusive advisory    *)
(* lock, a truncation the table's exclusive lock, from before its cleanup  *)
(* looks until it commits.  So the rows a cleanup has seen are all there   *)
(* are, and the task a create has seen is still there.                     *)
(***************************************************************************)
EXTENDS PostgresPush, TLAPS

USE ZenonT(5), SMTT(20)

Key(S) == S \cup {None}

RowType == [task : Key(Tasks), config : Key(Configs), local : BOOLEAN, seq : Nat]

PCs == {"idle", "privilege", "external", "helper", "exists", "insert", "commit",
        "row", "before", "after", "deleted", "truncate", "truncated"}
Results == {None, "task not found", "refused", "uncertain", "migration required", "execute required",
            "ok", "gone", "error"}

SessionType ==
    [pc : PCs, task : Key(Tasks), config : Key(Configs), local : BOOLEAN, seq : Nat,
     isolation : {ReadCommitted}, snapshot : SUBSET RowType, victims : SUBSET RowType, result : Results]

Typed ==
    /\ rows \subseteq RowType
    /\ sequence \in Nat
    /\ session \in [Sessions -> SessionType]

Holds(s, mode, object) == <<s, mode, object>> \in held

(* Locks in conflict are not held together. *)
Exclusion ==
    \A s, x \in Sessions : s # x =>
        /\ \A t \in Key(Tasks) : Holds(s, "advisory exclusive", t) =>
             ~Holds(x, "advisory shared", t) /\ ~Holds(x, "advisory exclusive", t)
        /\ Holds(s, "table exclusive", Table) => ~Holds(x, "table share", Table)

(* A local create that has found its task *)
Found(s) == session[s].local /\ session[s].pc \in {"insert", "commit"}

CreateLocks(s) ==
    /\ session[s].pc = "external" => ~session[s].local
    /\ session[s].pc = "exists" \/ Found(s) => Holds(s, "advisory shared", session[s].task)
    /\ Found(s) => Holds(s, "table share", Table) /\ session[s].task \in tasks

RemoveLocks(s) ==
    /\ session[s].pc \in {"after", "deleted"} => Holds(s, "advisory exclusive", session[s].task)
    /\ session[s].pc \in {"truncate", "truncated"} => Holds(s, "table exclusive", Table)

(* A cleanup has seen every row it has to delete. *)
CleanedAll(s) ==
    \A r \in rows :
        r.local => /\ session[s].pc = "deleted" /\ r.task = session[s].task => r \in session[s].victims
                   /\ session[s].pc = "truncated" => r \in session[s].victims

Orderly(s) == CreateLocks(s) /\ RemoveLocks(s) /\ CleanedAll(s)

IInv == Typed /\ Exclusion /\ (\A s \in Sessions : Orderly(s)) /\ NoLocalOrphan

-----------------------------------------------------------------------------
(* What a step of one session leaves alone *)

OthersLocks(s) ==
    \A x \in Sessions, k \in Modes, o \in Key(Tasks) \cup {Table} : x # s => (Holds(x, k, o)' <=> Holds(x, k, o))

Others(s) == OthersLocks(s) /\ \A x \in Sessions : x # s => session'[x] = session[x]

(* The changes of one session are typed and leave the other sessions.      *)
LEMMA OneSession ==
    ASSUME Typed, NEW s \in Sessions, NEW new \in SessionType, session' = [session EXCEPT ![s] = new]
    PROVE  /\ session' \in [Sessions -> SessionType]
           /\ session'[s] = new
           /\ \A x \in Sessions : x # s => session'[x] = session[x]
  BY DEF Typed

(* A session that changes neither table keeps the others orderly; it has   *)
(* to answer for itself only.                                              *)
LEMMA OthersOrderly ==
    ASSUME IInv, NEW s \in Sessions, Others(s), tasks' = tasks, rows' = rows,
           NEW x \in Sessions, x # s
    PROVE  Orderly(x)'
  <1>1. session'[x] = session[x] BY DEF Others
  <1>2. Orderly(x) BY DEF IInv
  <1>3. session[x].task \in Key(Tasks) BY DEF IInv, Typed, SessionType
  <1>4. \A m \in Modes : /\ Holds(x, m, session[x].task)' <=> Holds(x, m, session[x].task)
                         /\ Holds(x, m, Table)' <=> Holds(x, m, Table)
    BY <1>1, <1>3 DEF Others, OthersLocks, Holds
  <1>5. CreateLocks(x)' BY <1>1, <1>2, <1>4 DEF Orderly, CreateLocks, Found, Modes
  <1>6. RemoveLocks(x)' BY <1>1, <1>2, <1>4 DEF Orderly, RemoveLocks, Modes
  <1>7. CleanedAll(x)' BY <1>1, <1>2 DEF Orderly, CleanedAll
  <1> QED BY <1>5, <1>6, <1>7 DEF Orderly

LEMMA Quiet ==
    ASSUME IInv, NEW s \in Sessions, Others(s), tasks' = tasks, rows' = rows, Typed', Exclusion', Orderly(s)'
    PROVE  IInv'
  <1>1. \A x \in Sessions : Orderly(x)' BY OthersOrderly
  <1>2. NoLocalOrphan' BY DEF IInv, NoLocalOrphan
  <1> QED BY <1>1, <1>2 DEF IInv

LEMMA IdleTyped == Idle \in SessionType /\ Idle.pc = "idle"
  <1>1. {} \in SUBSET RowType OBVIOUS
  <1>2. None \in Key(Tasks) /\ None \in Key(Configs) BY DEF Key
  <1>3. None \in Results /\ "idle" \in PCs BY DEF Results, PCs
  <1>4. 0 \in Nat OBVIOUS
  <1>5. ReadCommitted \in {ReadCommitted} OBVIOUS
  <1>6. Idle \in SessionType BY <1>1, <1>2, <1>3, <1>4, <1>5 DEF Idle, SessionType
  <1>7. Idle.pc = "idle" BY DEF Idle
  <1> QED BY <1>6, <1>7

(* A lock that is grantable, taken: nobody else's locks change and no two  *)
(* conflict.                                                               *)
LEMMA TakeLock ==
    ASSUME IInv, NEW s \in Sessions, NEW m \in Modes, NEW objects, Take(s, m, objects),
           \A o \in objects : Grantable(s, m, o)
    PROVE  /\ Exclusion'
           /\ OthersLocks(s)
           /\ held \subseteq held'
           /\ \A o \in objects : <<s, m, o>> \in held'
  <1>1. \A x, k, o : Holds(x, k, o)' <=> Holds(x, k, o) \/ (x = s /\ k = m /\ o \in objects)
    BY DEF Take, Holds
  <1>2. ASSUME NEW o \in objects, NEW x, x # s, NEW k \in Against(m)
        PROVE  ~Holds(x, k, o)
    BY <1>2 DEF Grantable, Holds
  <1>3. Exclusion'
    <2> SUFFICES ASSUME NEW a \in Sessions, NEW x \in Sessions, a # x
                 PROVE  /\ \A t \in Key(Tasks) : Holds(a, "advisory exclusive", t)' =>
                             ~Holds(x, "advisory shared", t)' /\ ~Holds(x, "advisory exclusive", t)'
                        /\ Holds(a, "table exclusive", Table)' => ~Holds(x, "table share", Table)'
      BY DEF Exclusion, Table, Holds
    <2>1. /\ \A t \in Key(Tasks) : Holds(a, "advisory exclusive", t) =>
                 ~Holds(x, "advisory shared", t) /\ ~Holds(x, "advisory exclusive", t)
          /\ Holds(a, "table exclusive", Table) => ~Holds(x, "table share", Table)
      BY DEF IInv, Exclusion
    <2>2. CASE m = "advisory shared"
      <3>1. Against(m) = {"advisory exclusive"} BY <2>2 DEF Against
      <3> QED BY <1>1, <1>2, <2>1, <2>2, <3>1
    <2>3. CASE m = "advisory exclusive"
      <3>1. Against(m) = {"advisory shared", "advisory exclusive"} BY <2>3 DEF Against
      <3> QED BY <1>1, <1>2, <2>1, <2>3, <3>1
    <2>4. CASE m = "table share"
      <3>1. Against(m) = {"table exclusive"} BY <2>4 DEF Against
      <3> QED BY <1>1, <1>2, <2>1, <2>4, <3>1
    <2>5. CASE m = "table exclusive"
      <3>1. Against(m) = {"table share", "table exclusive"} BY <2>5 DEF Against
      <3> QED BY <1>1, <1>2, <2>1, <2>5, <3>1
    <2>6. CASE m \in {"task row", "config row"}
      BY <1>1, <2>1, <2>6
    <2> QED BY <2>2, <2>3, <2>4, <2>5, <2>6 DEF Modes
  <1>4. OthersLocks(s) BY <1>1 DEF OthersLocks, Holds, Table
  <1>5. held \subseteq held' /\ \A o \in objects : <<s, m, o>> \in held' BY DEF Take
  <1> QED BY <1>3, <1>4, <1>5

LEMMA TakeOne ==
    ASSUME IInv, NEW s \in Sessions, NEW m \in Modes, NEW o, Take(s, m, {o}), Grantable(s, m, o)
    PROVE  Exclusion' /\ OthersLocks(s) /\ held \subseteq held' /\ <<s, m, o>> \in held'
  <1> SUFFICES ASSUME NEW objects, objects = {o}, Take(s, m, objects)
               PROVE  Exclusion' /\ OthersLocks(s) /\ held \subseteq held' /\ <<s, m, o>> \in held'
    OBVIOUS
  <1>1. \A x \in objects : Grantable(s, m, x) BY Zenon
  <1>2. /\ Exclusion' /\ OthersLocks(s) /\ held \subseteq held'
        /\ \A x \in objects : <<s, m, x>> \in held'
    BY <1>1, TakeLock
  <1> QED BY <1>2

(* The end of a transaction. *)
LEMMA FinishSession ==
    ASSUME IInv, NEW s \in Sessions, NEW result \in Results, Finish(s, result)
    PROVE  /\ session' \in [Sessions -> SessionType]
           /\ Others(s) /\ Exclusion'
           /\ Orderly(s)' /\ session'[s].pc = "idle"
  <1>1. [Idle EXCEPT !.result = result] \in SessionType /\ [Idle EXCEPT !.result = result].pc = "idle"
    BY IdleTyped DEF SessionType
  <1>2. Typed BY DEF IInv
  <1>3. /\ session' \in [Sessions -> SessionType] /\ session'[s].pc = "idle"
        /\ \A x \in Sessions : x # s => session'[x] = session[x]
    BY <1>1, <1>2, OneSession DEF Finish
  <1>4. \A x, k, o : Holds(x, k, o)' <=> Holds(x, k, o) /\ x # s
    BY DEF Finish, Holds
  <1>5. Exclusion' BY <1>4 DEF IInv, Exclusion, Holds, Table
  <1>6. Others(s) BY <1>3, <1>4 DEF Others, OthersLocks, Holds, Table
  <1>7. Orderly(s)' BY <1>3 DEF Orderly, CreateLocks, RemoveLocks, CleanedAll, Found
  <1> QED BY <1>3, <1>5, <1>6, <1>7

-----------------------------------------------------------------------------
(* One step of one session *)

LEMMA SameLocks ==
    ASSUME IInv, held' = held
    PROVE  Exclusion' /\ (\A s : OthersLocks(s))
  BY DEF IInv, Exclusion, OthersLocks, Holds, Table

LEMMA Moves ==
    ASSUME IInv, NEW s \in Sessions, NEW new \in SessionType, session' = [session EXCEPT ![s] = new],
           tasks' = tasks, rows' = rows, sequence' \in Nat, Exclusion', OthersLocks(s),
           Orderly(s)'
    PROVE  IInv'
  <1>1. Typed /\ rows \subseteq RowType BY DEF IInv, Typed
  <1>2. /\ session' \in [Sessions -> SessionType]
        /\ \A x \in Sessions : x # s => session'[x] = session[x]
    BY <1>1, OneSession
  <1>3. Typed' BY <1>1, <1>2 DEF Typed
  <1>4. Others(s) BY <1>2 DEF Others
  <1> QED BY <1>3, <1>4, Quiet

(* A session outside the parts where it has to hold locks *)
LEMMA Harmless ==
    ASSUME NEW s, session'[s].pc = "external" => ~session'[s].local,
           session'[s].pc \notin {"exists", "insert", "commit", "after", "deleted", "truncate", "truncated"}
    PROVE  Orderly(s)'
  BY DEF Orderly, CreateLocks, RemoveLocks, CleanedAll, Found

LEMMA BeginCreate ==
    ASSUME IInv, NEW s \in Creators, NEW t \in Tasks, NEW c \in Configs, NEW st \in TaskStores,
           CreateOrUpdateForTask(s, t, c, st)
    PROVE  IInv'
  <1> DEFINE local == AuthorityOf(st) = "local"
             Started(pc) == [Idle EXCEPT !.pc = pc, !.task = t, !.config = c, !.local = local]
             Told(result) == [session[s] EXCEPT !.result = result]
  <1>1. s \in Sessions /\ session[s] \in SessionType /\ session[s].pc = "idle"
    BY DEF IInv, Typed, Sessions, CreateOrUpdateForTask
  <1>2. t \in Key(Tasks) /\ c \in Key(Configs) /\ local \in BOOLEAN BY DEF Key
  <1>3. \A pc \in {"privilege", "external"} :
            Started(pc) \in SessionType /\ Started(pc).pc = pc /\ Started(pc).local = local
    BY <1>2, IdleTyped DEF SessionType, PCs
  <1>4. \A result \in Results : Told(result) \in SessionType /\ Told(result).pc = "idle"
    BY <1>1 DEF SessionType
  <1>5. tasks' = tasks /\ rows' = rows /\ sequence' = sequence /\ held' = held
    BY DEF CreateOrUpdateForTask
  <1>6. \/ session' = [session EXCEPT ![s] = Started("privilege")]
        \/ session' = [session EXCEPT ![s] = Started("external")] /\ ~local
        \/ \E result \in Results : session' = [session EXCEPT ![s] = Told(result)]
    BY DEF CreateOrUpdateForTask, Results
  <1>7. PICK new \in SessionType : /\ session' = [session EXCEPT ![s] = new]
                                   /\ new.pc \in {"privilege", "external", "idle"}
                                   /\ new.pc = "external" => ~new.local
    BY <1>3, <1>4, <1>6
  <1>8. session'[s] = new BY <1>1, <1>7 DEF IInv, Typed
  <1>9. Orderly(s)' BY <1>7, <1>8, Harmless
  <1>10. sequence' \in Nat BY <1>5 DEF IInv, Typed
  <1>11. Exclusion' /\ OthersLocks(s) BY <1>5, SameLocks
  <1> QED BY <1>1, <1>5, <1>7, <1>9, <1>10, <1>11, Moves

(* A session that ends its transaction and leaves the tables. *)
LEMMA Ends ==
    ASSUME IInv, NEW s \in Sessions, NEW result \in Results, Finish(s, result),
           tasks' = tasks, rows' = rows, sequence' \in Nat
    PROVE  IInv'
  <1>1. /\ session' \in [Sessions -> SessionType] /\ Others(s) /\ Exclusion' /\ Orderly(s)'
    BY FinishSession
  <1>2. Typed' BY <1>1 DEF IInv, Typed
  <1> QED BY <1>1, <1>2, Quiet

LEMMA AskPrivilege ==
    ASSUME IInv, NEW s \in Sessions, HasTaskLockExecutePrivilege(s)
    PROVE  IInv'
  <1> DEFINE Asked == [session[s] EXCEPT !.pc = "helper"]
             Told == [Idle EXCEPT !.result = "execute required"]
  <1>1. session[s] \in SessionType BY DEF IInv, Typed
  <1>2. Asked \in SessionType /\ Asked.pc = "helper" BY <1>1 DEF SessionType, PCs
  <1>3. Told \in SessionType /\ Told.pc = "idle" BY IdleTyped DEF SessionType, Results
  <1>4. tasks' = tasks /\ rows' = rows /\ sequence' = sequence /\ held' = held
    BY DEF HasTaskLockExecutePrivilege
  <1>5. PICK new \in SessionType : session' = [session EXCEPT ![s] = new] /\ new.pc \in {"helper", "idle"}
    BY <1>2, <1>3 DEF HasTaskLockExecutePrivilege
  <1>6. session'[s] = new BY <1>5 DEF IInv, Typed
  <1>7. Orderly(s)' BY <1>5, <1>6, Harmless
  <1>8. sequence' \in Nat BY <1>4 DEF IInv, Typed
  <1>9. Exclusion' /\ OthersLocks(s) BY <1>4, SameLocks
  <1> QED BY <1>4, <1>5, <1>7, <1>8, <1>9, Moves

LEMMA LockForCreate ==
    ASSUME IInv, NEW s \in Sessions, LockTaskForPushConfig(s)
    PROVE  IInv'
  <1>0. PICK t \in Key(Tasks) : t = session[s].task BY DEF IInv, Typed, SessionType
  <1> DEFINE new == [session[s] EXCEPT !.pc = "exists"]
  <1>1. session[s] \in SessionType /\ session[s].pc = "helper" BY DEF IInv, Typed, LockTaskForPushConfig
  <1>2. new \in SessionType /\ new.pc = "exists" /\ new.task = t /\ new.local = session[s].local
    BY <1>0, <1>1 DEF SessionType, PCs
  <1>3. /\ tasks' = tasks /\ rows' = rows /\ sequence' = sequence
        /\ session' = [session EXCEPT ![s] = new]
        /\ Take(s, "advisory shared", {t}) /\ Grantable(s, "advisory shared", t)
    BY <1>0 DEF LockTaskForPushConfig
  <1>4. "advisory shared" \in Modes BY DEF Modes
  <1>5. Exclusion' /\ OthersLocks(s) /\ <<s, "advisory shared", t>> \in held'
    BY <1>3, <1>4, TakeOne
  <1>6. session'[s] = new BY <1>3 DEF IInv, Typed
  <1>7. Holds(s, "advisory shared", session[s].task)' BY <1>2, <1>5, <1>6 DEF Holds
  <1>8. Orderly(s)' BY <1>2, <1>6, <1>7 DEF Orderly, CreateLocks, RemoveLocks, CleanedAll, Found
  <1>9. sequence' \in Nat BY <1>3 DEF IInv, Typed
  <1> QED BY <1>2, <1>3, <1>5, <1>8, <1>9, Moves

LEMMA FindTask ==
    ASSUME IInv, NEW s \in Sessions, TaskExists(s)
    PROVE  IInv'
  <1>0. PICK t \in Key(Tasks) : t = session[s].task BY DEF IInv, Typed, SessionType
  <1> DEFINE new == [session[s] EXCEPT !.pc = "insert", !.seq = sequence]
  <1>1. /\ session[s] \in SessionType /\ session[s].pc = "exists"
        /\ Orderly(s) /\ sequence \in Nat /\ tasks' = tasks /\ rows' = rows
    BY DEF IInv, Typed, TaskExists, SessionType
  <1>2. CASE t \notin tasks
    <2>1. Finish(s, "task not found") /\ sequence' = sequence BY <1>0, <1>2 DEF TaskExists
    <2> QED BY <1>1, <2>1, Ends DEF Results
  <1>3. CASE t \in tasks
    <2>1. new \in SessionType /\ new.pc = "insert" /\ new.task = t BY <1>0, <1>1 DEF SessionType, PCs
    <2>2. /\ sequence' = sequence + 1 /\ session' = [session EXCEPT ![s] = new]
          /\ Take(s, "table share", {Table}) /\ Grantable(s, "table share", Table)
      BY <1>0, <1>3 DEF TaskExists
    <2>3. "table share" \in Modes /\ "advisory shared" \in Modes BY DEF Modes
    <2>4. Holds(s, "advisory shared", t) BY <1>0, <1>1 DEF Orderly, CreateLocks
    <2>5. /\ Exclusion' /\ OthersLocks(s)
          /\ <<s, "table share", Table>> \in held' /\ <<s, "advisory shared", t>> \in held'
      BY <2>2, <2>3, <2>4, TakeOne DEF Holds
    <2>6. session'[s] = new BY <2>2 DEF IInv, Typed
    <2>7. /\ Holds(s, "advisory shared", session[s].task)' /\ Holds(s, "table share", Table)'
          /\ session'[s].task \in tasks'
      BY <1>1, <1>3, <2>1, <2>5, <2>6 DEF Holds, Table
    <2>8. Orderly(s)' BY <2>1, <2>5, <2>6, <2>7 DEF Orderly, CreateLocks, RemoveLocks, CleanedAll, Found
    <2>9. sequence' \in Nat
      <3>1. sequence \in Nat BY <1>1
      <3>2. sequence' = sequence + 1 BY <2>2
      <3> QED BY <3>1, <3>2
    <2> QED BY <1>1, <2>1, <2>2, <2>5, <2>8, <2>9, Moves
  <1> QED BY <1>2, <1>3

LEMMA ExternalInsert ==
    ASSUME IInv, NEW s \in Sessions, BeginExternal(s)
    PROVE  IInv'
  <1> DEFINE new == [session[s] EXCEPT !.pc = "insert", !.seq = sequence]
  <1>1. session[s] \in SessionType /\ sequence \in Nat /\ Orderly(s) BY DEF IInv, Typed
  <1>0. ~session[s].local BY <1>1 DEF Orderly, CreateLocks, BeginExternal
  <1>2. new \in SessionType /\ new.pc = "insert" /\ ~new.local BY <1>0, <1>1 DEF SessionType, PCs
  <1>3. /\ tasks' = tasks /\ rows' = rows /\ held' = held /\ sequence' = sequence + 1
        /\ session' = [session EXCEPT ![s] = new]
    BY DEF BeginExternal
  <1>4. session'[s] = new BY <1>3 DEF IInv, Typed
  <1>5. Orderly(s)' BY <1>2, <1>4 DEF Orderly, CreateLocks, RemoveLocks, CleanedAll, Found
  <1>6. sequence' \in Nat
    <2>1. sequence' = sequence + 1 BY <1>3
    <2> QED BY <1>1, <2>1
  <1>7. Exclusion' /\ OthersLocks(s) BY <1>3, SameLocks
  <1> QED BY <1>2, <1>3, <1>5, <1>6, <1>7, Moves

LEMMA Insert ==
    ASSUME IInv, NEW s \in Sessions, InsertConfig(s)
    PROVE  IInv'
  <1>a. PICK t \in Key(Tasks) : t = session[s].task
    BY DEF IInv, Typed, SessionType
  <1>b. PICK key : key = <<session[s].task, session[s].config>>
    OBVIOUS
  <1>0. t = session[s].task /\ key = <<session[s].task, session[s].config>>
    BY <1>a, <1>b
  <1> DEFINE new == [session[s] EXCEPT !.pc = "commit"]
  <1>1. session[s] \in SessionType /\ session[s].pc = "insert" /\ Orderly(s)
    BY DEF IInv, Typed, InsertConfig
  <1>2. new \in SessionType /\ new.pc = "commit" /\ new.task = t /\ new.local = session[s].local
    BY <1>0, <1>1 DEF SessionType, PCs
  <1>3. /\ tasks' = tasks /\ rows' = rows /\ sequence' = sequence
        /\ session' = [session EXCEPT ![s] = new]
        /\ Take(s, "config row", {key}) /\ Grantable(s, "config row", key)
    BY <1>0 DEF InsertConfig
  <1>4. "config row" \in Modes BY DEF Modes
  <1>5. Exclusion' /\ OthersLocks(s) /\ held \subseteq held' BY <1>3, <1>4, TakeOne
  <1>6. session'[s] = new BY <1>3 DEF IInv, Typed
  <1>7. session[s].local => /\ <<s, "advisory shared", t>> \in held /\ <<s, "table share", Table>> \in held
                            /\ t \in tasks
    BY <1>0, <1>1 DEF Orderly, CreateLocks, Found, Holds
  <1>8. session[s].local => /\ <<s, "advisory shared", t>> \in held' /\ <<s, "table share", Table>> \in held'
                            /\ t \in tasks'
    BY <1>3, <1>5, <1>7
  <1>9. Orderly(s)'
    BY <1>2, <1>6, <1>8 DEF Orderly, CreateLocks, RemoveLocks, CleanedAll, Found, Holds, Table
  <1>10. sequence' \in Nat BY <1>3 DEF IInv, Typed
  <1> QED BY <1>2, <1>3, <1>5, <1>9, <1>10, Moves

LEMMA FindRow ==
    ASSUME IInv, NEW s \in Sessions, LockTaskRow(s)
    PROVE  IInv'
  <1>0. PICK t \in Key(Tasks) : t = session[s].task BY DEF IInv, Typed, SessionType
  <1> DEFINE new == [session[s] EXCEPT !.pc = "before"]
  <1>1. /\ session[s] \in SessionType /\ tasks' = tasks /\ rows' = rows /\ sequence' = sequence
        /\ sequence \in Nat
    BY DEF IInv, Typed, LockTaskRow
  <1>2. CASE Finish(s, "gone") BY <1>1, <1>2, Ends DEF Results
  <1>3. CASE ~Finish(s, "gone")
    <2>1. new \in SessionType /\ new.pc = "before" BY <1>1 DEF SessionType, PCs
    <2>2. /\ session' = [session EXCEPT ![s] = new]
          /\ Take(s, "task row", {t}) /\ Grantable(s, "task row", t)
      BY <1>0, <1>3 DEF LockTaskRow
    <2>3. "task row" \in Modes BY DEF Modes
    <2>4. Exclusion' /\ OthersLocks(s) BY <2>2, <2>3, TakeOne
    <2>5. session'[s] = new BY <2>2 DEF IInv, Typed
    <2>6. Orderly(s)' BY <2>1, <2>5, Harmless
    <2> QED BY <1>1, <2>1, <2>2, <2>4, <2>6, Moves
  <1> QED BY <1>2, <1>3

LEMMA LockForDelete ==
    ASSUME IInv, NEW s \in Sessions, LockTaskForDelete(s)
    PROVE  IInv'
  <1>0. PICK t \in Key(Tasks) : t = session[s].task BY DEF IInv, Typed, SessionType
  <1> DEFINE new == [session[s] EXCEPT !.pc = "after"]
  <1>1. session[s] \in SessionType BY DEF IInv, Typed
  <1>2. new \in SessionType /\ new.pc = "after" /\ new.task = t BY <1>0, <1>1 DEF SessionType, PCs
  <1>3. /\ tasks' = tasks /\ rows' = rows /\ sequence' = sequence
        /\ session' = [session EXCEPT ![s] = new]
        /\ Take(s, "advisory exclusive", {t}) /\ Grantable(s, "advisory exclusive", t)
    BY <1>0 DEF LockTaskForDelete
  <1>4. "advisory exclusive" \in Modes BY DEF Modes
  <1>5. Exclusion' /\ OthersLocks(s) /\ <<s, "advisory exclusive", t>> \in held'
    BY <1>3, <1>4, TakeOne
  <1>6. session'[s] = new BY <1>3 DEF IInv, Typed
  <1>7. Orderly(s)'
    BY <1>2, <1>5, <1>6 DEF Orderly, CreateLocks, RemoveLocks, CleanedAll, Found, Holds
  <1>8. sequence' \in Nat BY <1>3 DEF IInv, Typed
  <1> QED BY <1>2, <1>3, <1>5, <1>7, <1>8, Moves

LEMMA StartDelete ==
    ASSUME IInv, NEW s \in Sessions, NEW t \in Tasks, BeginDelete(s, t, ReadCommitted)
    PROVE  IInv'
  <1> DEFINE new == [Idle EXCEPT !.pc = "row", !.task = t, !.isolation = ReadCommitted, !.snapshot = {}]
  <1>1. t \in Key(Tasks) /\ {} \in SUBSET RowType /\ "row" \in PCs BY DEF Key, PCs
  <1>2. new \in SessionType /\ new.pc = "row" BY <1>1, IdleTyped DEF SessionType
  <1>3. ReadCommitted # RepeatableRead BY DEF ReadCommitted, RepeatableRead
  <1>4. /\ tasks' = tasks /\ rows' = rows /\ sequence' = sequence
        /\ session' = [session EXCEPT ![s] = new]
        /\ Take(s, "table share", {Table}) /\ Grantable(s, "table share", Table)
    BY <1>3 DEF BeginDelete
  <1>5. "table share" \in Modes BY DEF Modes
  <1>6. Exclusion' /\ OthersLocks(s) BY <1>4, <1>5, TakeOne
  <1>7. session'[s] = new BY <1>4 DEF IInv, Typed
  <1>8. Orderly(s)' BY <1>2, <1>7, Harmless
  <1>9. sequence' \in Nat BY <1>4 DEF IInv, Typed
  <1> QED BY <1>2, <1>4, <1>6, <1>8, <1>9, Moves

LEMMA StartTruncate ==
    ASSUME IInv, NEW s \in Sessions, BeginTruncate(s, ReadCommitted)
    PROVE  IInv'
  <1> DEFINE new == [Idle EXCEPT !.pc = "truncate", !.isolation = ReadCommitted]
  <1>1. "truncate" \in PCs BY DEF PCs
  <1>2. new \in SessionType /\ new.pc = "truncate" BY <1>1, IdleTyped DEF SessionType
  <1>4. /\ tasks' = tasks /\ rows' = rows /\ sequence' = sequence
        /\ session' = [session EXCEPT ![s] = new]
        /\ Take(s, "table exclusive", {Table}) /\ Grantable(s, "table exclusive", Table)
    BY DEF BeginTruncate
  <1>5. "table exclusive" \in Modes BY DEF Modes
  <1>6. Exclusion' /\ OthersLocks(s) /\ <<s, "table exclusive", Table>> \in held'
    BY <1>4, <1>5, TakeOne
  <1>7. session'[s] = new BY <1>4 DEF IInv, Typed
  <1>8. Orderly(s)'
    BY <1>2, <1>6, <1>7 DEF Orderly, CreateLocks, RemoveLocks, CleanedAll, Found, Holds, Table
  <1>9. sequence' \in Nat BY <1>4 DEF IInv, Typed
  <1> QED BY <1>2, <1>4, <1>6, <1>8, <1>9, Moves

(* A cleanup's query keeps the locks of its session and has seen, under    *)
(* them, every row that it has to delete.                                  *)
LEMMA Cleans ==
    ASSUME IInv, NEW s \in Sessions, NEW victims, NEW pc \in {"deleted", "truncated"}, Clean(s, victims, pc),
           tasks' = tasks, rows' = rows, sequence' = sequence,
           pc = "deleted" => Holds(s, "advisory exclusive", session[s].task)
                             /\ \A r \in rows : r.local /\ r.task = session[s].task => r \in victims,
           pc = "truncated" => Holds(s, "table exclusive", Table) /\ \A r \in rows : r.local => r \in victims
    PROVE  IInv'
  <1>a. PICK t \in Key(Tasks) : t = session[s].task
    BY DEF IInv, Typed, SessionType
  <1>b. PICK objects : objects = {KeyOf(r) : r \in victims}
    OBVIOUS
  <1>0. t = session[s].task /\ objects = {KeyOf(r) : r \in victims}
    BY <1>a, <1>b
  <1> DEFINE new == [session[s] EXCEPT !.pc = pc, !.victims = victims]
  <1>1. session[s] \in SessionType /\ victims \subseteq RowType BY DEF IInv, Typed, Clean
  <1>2. new \in SessionType /\ new.pc = pc /\ new.task = t /\ new.victims = victims
    BY <1>0, <1>1 DEF SessionType, PCs
  <1>3. session' = [session EXCEPT ![s] = new] BY DEF Clean
  <1>4. Take(s, "config row", objects) BY <1>0 DEF Clean
  <1>5. \A o \in objects : Grantable(s, "config row", o) BY <1>0 DEF Clean
  <1>6. "config row" \in Modes BY DEF Modes
  <1>7. Exclusion' /\ OthersLocks(s) /\ held \subseteq held' BY <1>4, <1>5, <1>6, TakeLock
  <1>8. session'[s] = new BY <1>3 DEF IInv, Typed
  <1>9. /\ pc = "deleted" => <<s, "advisory exclusive", t>> \in held'
        /\ pc = "truncated" => <<s, "table exclusive", Table>> \in held'
    BY <1>0, <1>7 DEF Holds
  <1>10. CreateLocks(s)' BY <1>2, <1>8 DEF CreateLocks, Found
  <1>11. RemoveLocks(s)' BY <1>2, <1>8, <1>9 DEF RemoveLocks, Holds, Table
  <1>12. CleanedAll(s)' BY <1>0, <1>2, <1>8 DEF CleanedAll
  <1>13. Orderly(s)' BY <1>10, <1>11, <1>12 DEF Orderly
  <1>14. sequence' \in Nat BY DEF IInv, Typed
  <1> QED BY <1>2, <1>3, <1>7, <1>13, <1>14, Moves

LEMMA CleanDeleted ==
    ASSUME IInv, NEW s \in Sessions, DeleteTaskPushConfigs(s)
    PROVE  IInv'
  <1>1. /\ session[s].isolation = ReadCommitted /\ session[s].pc = "after" /\ Orderly(s)
        /\ tasks' = tasks /\ rows' = rows /\ sequence' = sequence
    BY DEF IInv, Typed, SessionType, DeleteTaskPushConfigs
  <1>2. Seen(s) = rows BY <1>1 DEF Seen, ReadCommitted, RepeatableRead
  <1>3. PICK victims : victims = {r \in rows : r.task = session[s].task /\ r.local} OBVIOUS
  <1>4. Clean(s, victims, "deleted") BY <1>2, <1>3 DEF DeleteTaskPushConfigs
  <1>5. Holds(s, "advisory exclusive", session[s].task) BY <1>1 DEF Orderly, RemoveLocks
  <1>6. \A r \in rows : r.local /\ r.task = session[s].task => r \in victims BY <1>3
  <1> QED BY <1>1, <1>4, <1>5, <1>6, Cleans

LEMMA CleanTruncated ==
    ASSUME IInv, NEW s \in Sessions, TruncateTaskPushConfigs(s)
    PROVE  IInv'
  <1>1. /\ session[s].pc = "truncate" /\ Orderly(s)
        /\ tasks' = tasks /\ rows' = rows /\ sequence' = sequence
    BY DEF IInv, TruncateTaskPushConfigs
  <1>2. PICK victims : victims = {r \in rows : r.local} OBVIOUS
  <1>3. Clean(s, victims, "truncated") BY <1>2 DEF TruncateTaskPushConfigs
  <1>4. Holds(s, "table exclusive", Table) BY <1>1 DEF Orderly, RemoveLocks
  <1>5. \A r \in rows : r.local => r \in victims BY <1>2
  <1> QED BY <1>1, <1>3, <1>4, <1>5, Cleans

-----------------------------------------------------------------------------
(* The commits, which change the tables under the other sessions *)

LEMMA Commits ==
    ASSUME IInv, NEW s \in Sessions, Finish(s, "ok"), sequence' = sequence, rows' \subseteq RowType,
           NoLocalOrphan',
           \A x \in Sessions : x # s /\ Found(x) => session[x].task \in tasks',
           \A x \in Sessions, r \in rows' \ rows : x # s /\ r.local =>
               session[x].pc # "truncated" /\ (session[x].pc = "deleted" => r.task # session[x].task)
    PROVE  IInv'
  <1>1. "ok" \in Results BY DEF Results
  <1>2. /\ session' \in [Sessions -> SessionType] /\ Others(s) /\ Exclusion' /\ Orderly(s)'
    BY <1>1, FinishSession
  <1>3. ASSUME NEW x \in Sessions, x # s PROVE Orderly(x)'
    <2>1. session'[x] = session[x] BY <1>2, <1>3 DEF Others
    <2>2. Orderly(x) BY DEF IInv
    <2>3. session[x].task \in Key(Tasks) BY DEF IInv, Typed, SessionType
    <2>4. \A m \in Modes : /\ Holds(x, m, session[x].task)' <=> Holds(x, m, session[x].task)
                           /\ Holds(x, m, Table)' <=> Holds(x, m, Table)
      BY <1>2, <1>3, <2>1, <2>3 DEF Others, OthersLocks, Holds
    <2>5. Found(x)' <=> Found(x) BY <2>1 DEF Found
    <2>6. CreateLocks(x)' BY <1>3, <2>1, <2>2, <2>4, <2>5 DEF Orderly, CreateLocks, Modes
    <2>7. RemoveLocks(x)' BY <2>1, <2>2, <2>4 DEF Orderly, RemoveLocks, Modes
    <2>8. CleanedAll(x)' BY <1>3, <2>1, <2>2 DEF Orderly, CleanedAll
    <2> QED BY <2>6, <2>7, <2>8 DEF Orderly
  <1>4. Typed' BY <1>2 DEF IInv, Typed
  <1> QED BY <1>2, <1>3, <1>4 DEF IInv

LEMMA DeleteCommits ==
    ASSUME IInv, NEW s \in Sessions, CommitDelete(s)
    PROVE  IInv'
  <1>0. PICK t \in Key(Tasks) : t = session[s].task BY DEF IInv, Typed, SessionType
  <1>1. /\ session[s].pc = "deleted" /\ Orderly(s) /\ sequence' = sequence /\ Finish(s, "ok")
        /\ tasks' = tasks \ {t} /\ rows' = rows \ session[s].victims
    BY <1>0 DEF IInv, CommitDelete
  <1>2. rows' \subseteq rows /\ rows' \subseteq RowType BY <1>1 DEF IInv, Typed
  <1>3. NoLocalOrphan' BY <1>0, <1>1 DEF IInv, NoLocalOrphan, Orderly, CleanedAll
  <1>4. ASSUME NEW x \in Sessions, x # s, Found(x) PROVE session[x].task \in tasks'
    <2>1. Holds(x, "advisory shared", session[x].task) /\ session[x].task \in tasks
      BY <1>4 DEF IInv, Orderly, CreateLocks
    <2>2. Holds(s, "advisory exclusive", t) BY <1>0, <1>1 DEF Orderly, RemoveLocks
    <2>3. session[x].task # t BY <1>4, <2>1, <2>2 DEF IInv, Exclusion
    <2> QED BY <1>1, <2>1, <2>3
  <1> QED BY <1>1, <1>2, <1>3, <1>4, Commits

LEMMA TruncateCommits ==
    ASSUME IInv, NEW s \in Sessions, CommitTruncate(s)
    PROVE  IInv'
  <1>1. /\ session[s].pc = "truncated" /\ Orderly(s) /\ sequence' = sequence /\ Finish(s, "ok")
        /\ tasks' = {} /\ rows' = rows \ session[s].victims
    BY DEF IInv, CommitTruncate
  <1>2. rows' \subseteq rows /\ rows' \subseteq RowType BY <1>1 DEF IInv, Typed
  <1>3. NoLocalOrphan' BY <1>1 DEF NoLocalOrphan, Orderly, CleanedAll
  <1>4. ASSUME NEW x \in Sessions, x # s, Found(x) PROVE FALSE
    <2>1. Holds(x, "table share", Table) BY <1>4 DEF IInv, Orderly, CreateLocks
    <2>2. Holds(s, "table exclusive", Table) BY <1>1 DEF Orderly, RemoveLocks
    <2> QED BY <1>4, <2>1, <2>2 DEF IInv, Exclusion
  <1> QED BY <1>1, <1>2, <1>3, <1>4, Commits

LEMMA ConfigCommits ==
    ASSUME IInv, NEW s \in Sessions, CommitConfig(s)
    PROVE  IInv'
  <1>0. PICK t \in Key(Tasks), c \in Key(Configs), local \in BOOLEAN, seq \in Nat :
           t = session[s].task /\ c = session[s].config /\ local = session[s].local /\ seq = session[s].seq
    BY DEF IInv, Typed, SessionType
  <1>1. /\ session[s].pc = "commit" /\ Orderly(s) /\ sequence' = sequence /\ Finish(s, "ok")
        /\ tasks' = tasks /\ rows \subseteq RowType
    BY DEF IInv, Typed, CommitConfig
  <1>2. PICK old : old = {r \in rows : KeyOf(r) = <<t, c>>} OBVIOUS
  <1>3. rows' = (rows \ old) \cup
                (IF old = {} THEN {Row(t, c, local, seq)} ELSE {[r EXCEPT !.local = local] : r \in old})
    BY <1>0, <1>2 DEF CommitConfig
  <1>4. Row(t, c, local, seq) \in RowType /\ Row(t, c, local, seq).task = t /\ Row(t, c, local, seq).local = local
    BY DEF Row, RowType
  <1>5. ASSUME NEW r \in old
        PROVE  /\ [r EXCEPT !.local = local] \in RowType /\ [r EXCEPT !.local = local].task = t
               /\ [r EXCEPT !.local = local].local = local
    <2>1. r \in RowType BY <1>1, <1>2
    <2>2. r.task = t BY <1>2 DEF KeyOf
    <2> QED BY <2>1, <2>2 DEF RowType
  <1>6. \A r \in rows' \ rows : r \in RowType /\ r.task = t /\ r.local = local
    BY <1>3, <1>4, <1>5
  <1>7. rows' \subseteq RowType BY <1>1, <1>6
  <1>8. local => Holds(s, "advisory shared", t) /\ Holds(s, "table share", Table) /\ t \in tasks
    BY <1>0, <1>1 DEF Orderly, CreateLocks, Found
  <1>9. NoLocalOrphan' BY <1>1, <1>6, <1>8 DEF IInv, NoLocalOrphan
  <1>10. \A x \in Sessions : x # s /\ Found(x) => session[x].task \in tasks'
    BY <1>1 DEF IInv, Orderly, CreateLocks
  <1>11. ASSUME NEW x \in Sessions, NEW r \in rows' \ rows, x # s, r.local
         PROVE  session[x].pc # "truncated" /\ (session[x].pc = "deleted" => r.task # session[x].task)
    <2>1. r.task = t /\ Holds(s, "advisory shared", t) /\ Holds(s, "table share", Table) BY <1>6, <1>8, <1>11
    <2>2. /\ Holds(x, "advisory exclusive", t) => ~Holds(s, "advisory shared", t)
          /\ Holds(x, "table exclusive", Table) => ~Holds(s, "table share", Table)
      BY <1>11 DEF IInv, Exclusion
    <2>3. RemoveLocks(x) BY DEF IInv, Orderly
    <2> QED BY <2>1, <2>2, <2>3 DEF RemoveLocks
  <1> QED BY <1>1, <1>7, <1>9, <1>10, <1>11, Commits

-----------------------------------------------------------------------------
(* Statements that hold no lock, and steps that concern no session *)
LEMMA Environment ==
    ASSUME IInv, session' = session, held' = held, sequence' = sequence, tasks \subseteq tasks', rows' \subseteq rows
    PROVE  IInv'
  <1>1. Typed' BY DEF IInv, Typed
  <1>2. Exclusion' BY SameLocks
  <1>3. NoLocalOrphan' BY DEF IInv, NoLocalOrphan
  <1>4. ASSUME NEW x \in Sessions PROVE Orderly(x)'
    <2>1. Orderly(x) BY DEF IInv
    <2>2. CreateLocks(x)' BY <2>1 DEF Orderly, CreateLocks, Found, Holds, Table
    <2>3. RemoveLocks(x)' BY <2>1 DEF Orderly, RemoveLocks, Holds, Table
    <2>4. CleanedAll(x)' BY <2>1 DEF Orderly, CleanedAll
    <2> QED BY <2>2, <2>3, <2>4 DEF Orderly
  <1> QED BY <1>1, <1>2, <1>3, <1>4 DEF IInv

LEMMA Fails ==
    ASSUME IInv, NEW s \in Sessions, Fail(s)
    PROVE  IInv'
  <1>1. Finish(s, "error") /\ tasks' = tasks /\ rows' = rows /\ sequence' = sequence BY DEF Fail
  <1>2. "error" \in Results /\ sequence' \in Nat BY <1>1 DEF Results, IInv, Typed
  <1> QED BY <1>1, <1>2, Ends

LEMMA Steps ==
    ASSUME IInv, NEW s \in Sessions, Step(s)
    PROVE  IInv'
  <1>1. CASE CreateStep(s)
    BY <1>1, AskPrivilege, LockForCreate, FindTask, ExternalInsert, Insert, ConfigCommits DEF CreateStep
  <1>2. CASE RemoveStep(s)
    BY <1>2, FindRow, LockForDelete, CleanDeleted, DeleteCommits, CleanTruncated, TruncateCommits DEF RemoveStep
  <1> QED BY <1>1, <1>2 DEF Step

LEMMA Initially ==
    ASSUME Init
    PROVE  IInv
  <1>1. \A s \in Sessions : session[s] = Idle BY DEF Init
  <1>2. Typed
    <2>1. session \in [Sessions -> SessionType] BY IdleTyped DEF Init
    <2>2. rows \subseteq RowType /\ sequence \in Nat BY DEF Init
    <2> QED BY <2>1, <2>2 DEF Typed
  <1>3. Exclusion BY DEF Init, Exclusion, Holds
  <1>4. ASSUME NEW s \in Sessions PROVE Orderly(s)
    BY <1>1, IdleTyped DEF Orderly, CreateLocks, RemoveLocks, CleanedAll, Found
  <1>5. NoLocalOrphan BY DEF Init, NoLocalOrphan
  <1> QED BY <1>2, <1>3, <1>4, <1>5 DEF IInv

LEMMA NextKeeps ==
    ASSUME Isolations = {ReadCommitted}, IInv, [Next]_vars
    PROVE  IInv'
  <1>1. ASSUME NEW s \in Creators, NEW t \in Tasks, NEW c \in Configs, NEW st \in TaskStores,
               CreateOrUpdateForTask(s, t, c, st)
        PROVE  IInv'
    BY <1>1, BeginCreate
  <1>2. ASSUME NEW s \in Removers, NEW t \in Tasks, NEW i \in Isolations, BeginDelete(s, t, i) PROVE IInv'
    <2>1. i = ReadCommitted /\ s \in Sessions BY DEF Sessions
    <2>2. BeginDelete(s, t, ReadCommitted) BY <1>2, <2>1
    <2> QED BY <2>1, <2>2, StartDelete
  <1>3. ASSUME NEW s \in Removers, NEW i \in Isolations, BeginTruncate(s, i) PROVE IInv'
    <2>1. i = ReadCommitted /\ s \in Sessions BY DEF Sessions
    <2>2. BeginTruncate(s, ReadCommitted) BY <1>3, <2>1
    <2> QED BY <2>1, <2>2, StartTruncate
  <1>4. ASSUME NEW s \in Sessions, Step(s) \/ Fail(s) PROVE IInv'
    BY <1>4, Steps, Fails
  <1>5. ASSUME NEW t \in Tasks, NEW c \in Configs, DeleteConfig(t, c) PROVE IInv'
    <2>1. session' = session /\ held' = held /\ sequence' = sequence /\ tasks \subseteq tasks' /\ rows' \subseteq rows
      BY <1>5 DEF DeleteConfig
    <2> QED BY <2>1, Environment
  <1>6. ASSUME NEW t \in Tasks, CreateTask(t) \/ ListForTask(t) PROVE IInv'
    <2>1. session' = session /\ held' = held /\ sequence' = sequence /\ tasks \subseteq tasks' /\ rows' \subseteq rows
      BY <1>6 DEF CreateTask, ListForTask
    <2> QED BY <2>1, Environment
  <1>7. CASE ListInternal \/ GrantExecute \/ UNCHANGED vars
    <2>1. session' = session /\ held' = held /\ sequence' = sequence /\ tasks \subseteq tasks' /\ rows' \subseteq rows
      BY <1>7 DEF ListInternal, GrantExecute, vars
    <2> QED BY <2>1, Environment
  <1> QED BY <1>1, <1>2, <1>3, <1>4, <1>5, <1>6, <1>7 DEF Next

(* A configuration created for a local task never outlives the task        *)
(* (NoLocalOrphan), whatever the number of sessions, tasks, configurations *)
(* and statements, provided the transactions that remove tasks are read    *)
(* committed; under repeatable read the code loses the row, which TLC      *)
(* shows.                                                                  *)
THEOREM LocalTasksOutliveConfigs ==
    ASSUME Isolations = {ReadCommitted}
    PROVE  Spec => []NoLocalOrphan
  <1>1. Init => IInv BY Initially
  <1>2. IInv /\ [Next]_vars => IInv' BY NextKeeps
  <1>3. IInv => NoLocalOrphan BY DEF IInv
  <1> QED BY <1>1, <1>2, <1>3, PTL DEF Spec
=============================================================================
