-------------------------- MODULE CurlReactorProofs --------------------------
(***************************************************************************)
(* For any transfers, easy handles and owners, a CurlStreamReactor keeps   *)
(* TransferContract, completes a transfer once, loses none and never       *)
(* sleeps on a queued command.                                             *)
(*                                                                         *)
(* That an abort was asked for depends on the order of the queue: when the *)
(* reactor executes CancelOwner, the transfers it finds driven were added, *)
(* and so pending, before CancelOwner was pushed; one of the same owner    *)
(* that was added later still waits behind it.                             *)
(***************************************************************************)
EXTENDS CurlReactor, TLAPS

USE ZenonT(5), SMTT(20)

Outcomes == {"ok", "error", "failed_init", "aborted"}

IsAdd(c, t) == c.type = "add" /\ c.transfer = t
Has(q, t) == \E i \in DOMAIN q : IsAdd(q[i], t)

Typed ==
    /\ TypeOK
    /\ completions \in [Transfers -> Nat]
    /\ revoked \subseteq Transfers
    /\ shutdownEnqueued \in BOOLEAN /\ shuttingDown \in BOOLEAN /\ pollFailed \in BOOLEAN

(* A transfer is driven on its own easy handle. *)
OwnHandle == \A h \in Handles : transfers[h] # NoTransfer => HandleOf[transfers[h]] = h

(* Where the reactor thread is, and how it may be shutting down there. *)
Turn ==
    /\ at # "batch" => batch = <<>>
    /\ shutdownEnqueued => revoked = Transfers
    /\ shuttingDown => shutdownEnqueued \/ pollFailed
    /\ shuttingDown /\ ~pollFailed => commands = <<>>
    /\ at \in {"exit", "stopped"} => shuttingDown
    /\ pollFailed => shuttingDown /\ at \in {"read", "exit", "stopped"} /\ transfers = Undriven
    /\ at = "stopped" => transfers = Undriven

(* Queued commands were asked for, and nothing follows a shutdown. *)
Vouched(q) ==
    \A i \in DOMAIN q :
        /\ q[i].type = "cancel" => q[i].transfer \in revoked
        /\ q[i].type = "shutdown" => shutdownEnqueued /\ i = Len(q)

Once(q) == \A t \in Transfers, i, j \in DOMAIN q : IsAdd(q[i], t) /\ IsAdd(q[j], t) => i = j

(* A CancelOwner of t's owner that does not mean t. *)
Spared(q, i, t) == q[i].type = "cancelOwner" /\ q[i].owner = OwnerOf[t] /\ t \notin revoked

InOrder(q) ==
    \A t \in Transfers, i \in DOMAIN q :
        Spared(q, i, t) => t \notin Driven /\ \A j \in 1..i : ~IsAdd(q[j], t)

BatchFirst ==
    /\ \A t \in Transfers, i \in DOMAIN commands : Spared(commands, i, t) => ~Has(batch, t)
    /\ (\E i \in DOMAIN batch : batch[i].type = "shutdown") => commands = <<>>

Queues ==
    /\ Vouched(commands) /\ Once(commands) /\ InOrder(commands)
    /\ Vouched(batch) /\ Once(batch) /\ InOrder(batch)
    /\ BatchFirst

(* A transfer is in one place, and there it is pending unless revoked. *)
InPlace(t) ==
    /\ Has(batch, t) => ~Has(commands, t)
    /\ t \in Driven => ~Has(commands, t) /\ ~Has(batch, t)
    /\ result[t] = "idle" => t \notin Driven /\ ~Has(commands, t) /\ ~Has(batch, t)
    /\ t \notin revoked /\ (t \in Driven \/ Has(commands, t) \/ Has(batch, t)) => result[t] = "pending"

Somewhere(t) ==
    result[t] = "pending" =>
        /\ Has(commands, t) \/ Has(batch, t) \/ transfers[HandleOf[t]] = t
        /\ at = "stopped" => pollFailed

Places == \A t \in Transfers : InPlace(t) /\ Somewhere(t)

Awake == commands # <<>> => at = "swap" \/ eventfd \/ unsignalled > 0

IInv == Typed /\ OwnHandle /\ Turn /\ Queues /\ Places /\ Awake /\ CompletedOnce

-----------------------------------------------------------------------------
(* What completing the transfers of S does to the states of all. *)
Settles(S) ==
    \A t \in Transfers :
        /\ result'[t] = "pending" <=> result[t] = "pending" /\ t \notin S
        /\ result'[t] = "idle" <=> result[t] = "idle"

(* The first Complete of a transfer counts, and what it says is in order. *)
LEMMA Completing ==
    ASSUME Typed, CompletedOnce, NEW r, DOMAIN r \subseteq Transfers,
           \A t \in DOMAIN r : r[t] \in Outcomes,
           Complete(r)
    PROVE  /\ result' \in [Transfers -> {"idle", "pending", "ok", "error", "failed_init", "aborted"}]
           /\ completions' \in [Transfers -> Nat]
           /\ CompletedOnce'
           /\ Settles(DOMAIN r)
<1> DEFINE first == {t \in DOMAIN r : result[t] = "pending"}
<1>1. /\ result' = [t \in Transfers |-> IF t \in first THEN r[t] ELSE result[t]]
      /\ completions' = [t \in Transfers |-> completions[t] + IF t \in first THEN 1 ELSE 0]
  BY DEF Complete
<1>2. /\ result \in [Transfers -> {"idle", "pending", "ok", "error", "failed_init", "aborted"}]
      /\ completions \in [Transfers -> Nat]
  BY DEF Typed, TypeOK
<1>3. \A t \in first : t \in Transfers /\ result[t] = "pending" /\ r[t] \in Outcomes
  OBVIOUS
<1>4. \A t \in Transfers : t \in first <=> t \in DOMAIN r /\ result[t] = "pending"
  OBVIOUS
<1> HIDE DEF first
<1>5. result' \in [Transfers -> {"idle", "pending", "ok", "error", "failed_init", "aborted"}]
  BY <1>1, <1>2, <1>3 DEF Outcomes
<1>6. completions' \in [Transfers -> Nat]
  BY <1>1, <1>2
<1>7. CompletedOnce'
  BY <1>1, <1>2, <1>3 DEF CompletedOnce, Outcomes
<1>8. Settles(DOMAIN r)
  BY <1>1, <1>2, <1>3, <1>4 DEF Settles, Outcomes
<1> QED BY <1>5, <1>6, <1>7, <1>8

(* Completing transfers with nothing aborted unasked is a step of the      *)
(* contract.                                                               *)
LEMMA CompletingKeepsContract ==
    ASSUME Typed, NEW r, DOMAIN r \subseteq Transfers,
           \A t \in DOMAIN r : r[t] \in Outcomes,
           \A t \in DOMAIN r : r[t] = "aborted" /\ result[t] = "pending" => t \in revoked,
           Complete(r), revoked' = revoked
    PROVE  [Contract!Next]_<<result, revoked>>
<1> DEFINE first == {t \in DOMAIN r : result[t] = "pending"}
<1>1. result' = [t \in Transfers |-> IF t \in first THEN r[t] ELSE result[t]]
  BY DEF Complete
<1>2. result \in [Transfers -> {"idle", "pending", "ok", "error", "failed_init", "aborted"}]
  BY DEF Typed, TypeOK
<1>3. first \in SUBSET Transfers /\ \A t \in first : result[t] = "pending" /\ r[t] \in Outcomes /\ (r[t] = "aborted" => t \in revoked)
  OBVIOUS
<1> HIDE DEF first
<1>4. CASE first = {}
  <2>1. result' = [t \in Transfers |-> result[t]]
    BY <1>1, <1>4
  <2>2. result' = result
    BY <2>1, <1>2
  <2> QED BY <2>2
<1>5. CASE first # {}
  <2> DEFINE w == [t \in first |-> r[t]]
  <2>1. w \in [first -> Contract!Results]
    BY <1>3 DEF Outcomes, Contract!Results
  <2>2. \A t \in first : w[t] = "aborted" => t \in revoked
    BY <1>3
  <2>3. result' = [t \in Transfers |-> IF t \in first THEN w[t] ELSE result[t]]
    BY <1>1
  <2> HIDE DEF w
  <2>4. Contract!Finish(first)
    BY <1>3, <1>5, <2>1, <2>2, <2>3 DEF Contract!Finish
  <2> QED BY <2>4, <1>3 DEF Contract!Next
<1> QED BY <1>4, <1>5

-----------------------------------------------------------------------------
(* What the steps of the reactor thread do to results and easy handles.    *)

Reports(S) ==
    /\ result' \in [Transfers -> {"idle", "pending", "ok", "error", "failed_init", "aborted"}]
    /\ completions' \in [Transfers -> Nat]
    /\ CompletedOnce'
    /\ Settles(S)

Seated(d) ==
    /\ d \in [Handles -> Transfers \cup {NoTransfer}]
    /\ \A h \in Handles : d[h] # NoTransfer => HandleOf[d[h]] = h

Clears(d, S) ==
    /\ transfers' = [h \in Handles |-> IF d[h] \in S THEN NoTransfer ELSE d[h]]
    /\ messages' \in [Handles -> {"none", "ok", "error"}]

KeepsContract == revoked' = revoked => [Contract!Next]_<<result, revoked>>

(* S is completed, and leaves the easy handles of d. *)
Effect(d, S) == S \in SUBSET Transfers /\ Reports(S) /\ Clears(d, S) /\ KeepsContract

LEMMA CompletingAll ==
    ASSUME Typed, CompletedOnce, NEW S \in SUBSET Transfers, NEW why \in Outcomes, CompleteAll(S, why),
           why = "aborted" => \A t \in S : result[t] = "pending" => t \in revoked
    PROVE  Reports(S) /\ KeepsContract
<1> DEFINE r == [t \in S |-> why]
<1>1. /\ DOMAIN r = S
      /\ \A t \in DOMAIN r : r[t] \in Outcomes
      /\ \A t \in DOMAIN r : r[t] = "aborted" /\ result[t] = "pending" => t \in revoked
  OBVIOUS
<1>2. Complete(r)
  BY DEF CompleteAll
<1> HIDE DEF r
<1>3. Reports(S)
  BY <1>1, <1>2, Completing DEF Reports
<1>4. KeepsContract
  BY <1>1, <1>2, CompletingKeepsContract DEF KeepsContract
<1> QED BY <1>3, <1>4

LEMMA SilentTyped == Silent \in [Handles -> {"none", "ok", "error"}]
BY DEF Silent

LEMMA FailAllEffect ==
    ASSUME Typed, CompletedOnce, NEW d, Seated(d), FailAll(d)
    PROVE  Effect(d, {d[h] : h \in Handles} \ {NoTransfer})
<1> DEFINE S == {d[h] : h \in Handles} \ {NoTransfer}
<1>1. S \in SUBSET Transfers
  BY DEF Seated
<1>2. CompleteAll(S, "error") /\ transfers' = Undriven /\ messages' = Silent
  BY DEF FailAll
<1>3. \A h \in Handles : d[h] \in S \/ d[h] = NoTransfer
  OBVIOUS
<1> HIDE DEF S
<1>4. Reports(S) /\ KeepsContract
  BY <1>1, <1>2, CompletingAll DEF Outcomes
<1>5. Clears(d, S)
  BY <1>2, <1>3, SilentTyped DEF Clears, Undriven
<1>6. Effect(d, S)
  BY <1>1, <1>4, <1>5 DEF Effect
<1> QED BY <1>6 DEF S

LEMMA ReadEffect ==
    ASSUME Typed, CompletedOnce, NEW d, Seated(d),
           NEW m \in [Handles -> {"none", "ok", "error"}], ReadCompletions(d, m)
    PROVE  \E S \in SUBSET Transfers : Effect(d, S) /\ S \subseteq {d[h] : h \in Handles}
<1> DEFINE finished == {h \in Handles : m[h] # "none" /\ d[h] # NoTransfer}
           S == {d[h] : h \in finished}
           r == [t \in S |-> m[HandleOf[t]]]
<1>1. /\ transfers' = [h \in Handles |-> IF h \in finished THEN NoTransfer ELSE d[h]]
      /\ messages' = Silent
      /\ Complete(r)
  BY DEF ReadCompletions
<1>2. \A t \in S : t \in Transfers /\ HandleOf[t] \in finished
  BY DEF Seated
<1>3. \A h \in Handles : h \in finished <=> d[h] \in S
  <2>1. ASSUME NEW h \in Handles, d[h] \in S PROVE h \in finished
    <3>1. PICK g \in finished : d[g] = d[h]
      BY <2>1
    <3> QED BY <3>1 DEF Seated
  <2> QED BY <2>1
<1>4. \A h \in finished : m[h] \in {"ok", "error"}
  OBVIOUS
<1>5. S \subseteq {d[h] : h \in Handles}
  OBVIOUS
<1> HIDE DEF finished, S
<1>6. DOMAIN r = S /\ \A t \in S : r[t] \in {"ok", "error"}
  BY <1>2, <1>4
<1>7. S \in SUBSET Transfers
  BY <1>2
<1> HIDE DEF r
<1>8. \A t \in DOMAIN r : r[t] \in Outcomes /\ r[t] # "aborted"
  BY <1>6 DEF Outcomes
<1>9. Reports(S)
  BY <1>1, <1>6, <1>7, <1>8, Completing DEF Reports
<1>10. KeepsContract
  BY <1>1, <1>6, <1>7, <1>8, CompletingKeepsContract DEF KeepsContract
<1>11. Clears(d, S)
  BY <1>1, <1>3, SilentTyped DEF Clears
<1> QED BY <1>5, <1>7, <1>9, <1>10, <1>11 DEF Effect

(* Remove and RemoveOwner, and Exit, abort what was revoked. *)
LEMMA RemoveEffect ==
    ASSUME Typed, CompletedOnce, OwnHandle, NEW t \in Transfers, t \in revoked, Remove(t)
    PROVE  Effect(transfers, {t})
<1>1. HandleOf \in [Transfers -> Handles] /\ NoTransfer \notin Transfers
  BY ReactorAssumption
<1>2. SUFFICES ASSUME NEW S, S = {t} PROVE Effect(transfers, S)
  OBVIOUS
<1>3. Reports(S) /\ KeepsContract
  BY <1>2, CompletingAll DEF Remove, Outcomes
<1>4. transfers \in [Handles -> Transfers \cup {NoTransfer}] /\ messages \in [Handles -> {"none", "ok", "error"}]
  BY DEF Typed, TypeOK
<1>5. Clears(transfers, S)
  <2>1. CASE transfers[HandleOf[t]] = t
    BY <1>1, <1>2, <1>4, <2>1 DEF Remove, Clears, OwnHandle
  <2>2. CASE transfers[HandleOf[t]] # t
    <3>1. transfers' = transfers /\ messages' = messages
      BY <2>2 DEF Remove, curlVars
    <3>2. \A h \in Handles : transfers[h] \notin S
      BY <1>1, <1>2, <2>2 DEF OwnHandle
    <3> QED BY <1>4, <3>1, <3>2 DEF Clears
  <2> QED BY <2>1, <2>2
<1> QED BY <1>2, <1>3, <1>5 DEF Effect

LEMMA RemoveOwnerEffect ==
    ASSUME Typed, CompletedOnce, NEW o, RemoveOwner(o),
           \A t \in Driven : OwnerOf[t] = o /\ result[t] = "pending" => t \in revoked
    PROVE  Effect(transfers, {t \in Driven : OwnerOf[t] = o})
<1> DEFINE hit == {t \in Driven : OwnerOf[t] = o}
<1>1. transfers \in [Handles -> Transfers \cup {NoTransfer}] /\ messages \in [Handles -> {"none", "ok", "error"}]
  BY DEF Typed, TypeOK
<1>2. hit \in SUBSET Transfers
  BY <1>1 DEF Driven
<1>3. /\ transfers' = [h \in Handles |-> IF transfers[h] \in hit THEN NoTransfer ELSE transfers[h]]
      /\ messages' = [h \in Handles |-> IF transfers[h] \in hit THEN "none" ELSE messages[h]]
      /\ CompleteAll(hit, "aborted")
  BY DEF RemoveOwner
<1>4. \A t \in hit : result[t] = "pending" => t \in revoked
  OBVIOUS
<1> HIDE DEF hit
<1>5. Reports(hit) /\ KeepsContract
  BY <1>2, <1>3, <1>4, CompletingAll DEF Outcomes
<1>6. Clears(transfers, hit)
  BY <1>1, <1>3 DEF Clears
<1>7. Effect(transfers, hit)
  BY <1>2, <1>5, <1>6 DEF Effect
<1> QED BY <1>7 DEF hit
(* Add: refused, or driven and perhaps finished at once. *)
LEMMA AddEffect ==
    ASSUME Typed, CompletedOnce, OwnHandle, NEW t \in Transfers, AddOnReactor(t),
           shuttingDown => t \in revoked, t \notin Driven
    PROVE  \/ Effect(transfers, {t})
           \/ /\ transfers[HandleOf[t]] = NoTransfer
              /\ \E S \in SUBSET Transfers :
                   /\ Effect([transfers EXCEPT ![HandleOf[t]] = t], S)
                   /\ S \subseteq {[transfers EXCEPT ![HandleOf[t]] = t][h] : h \in Handles}
<1> DEFINE d == [transfers EXCEPT ![HandleOf[t]] = t]
<1>1. HandleOf \in [Transfers -> Handles] /\ NoTransfer \notin Transfers
  BY ReactorAssumption
<1>2. transfers \in [Handles -> Transfers \cup {NoTransfer}] /\ messages \in [Handles -> {"none", "ok", "error"}]
  BY DEF Typed, TypeOK
<1>3. Seated(d)
  BY <1>1, <1>2 DEF Seated, OwnHandle
<1>4. ASSUME NEW why \in Outcomes, why = "aborted" => t \in revoked, CompleteAll({t}, why), UNCHANGED curlVars
      PROVE  Effect(transfers, {t})
  <2>1. SUFFICES ASSUME NEW S, S = {t} PROVE Effect(transfers, S)
    OBVIOUS
  <2>2. S \in SUBSET Transfers /\ CompleteAll(S, why) /\ (why = "aborted" => \A u \in S : u \in revoked)
    BY <1>4, <2>1
  <2>3. Reports(S) /\ KeepsContract
    BY <2>2, CompletingAll
  <2>4. \A h \in Handles : transfers[h] \notin S
    BY <1>1, <1>2, <2>1 DEF Driven
  <2>5. Clears(transfers, S)
    BY <1>2, <1>4, <2>4 DEF Clears, curlVars
  <2> QED BY <2>2, <2>3, <2>5 DEF Effect
<1>5. CASE shuttingDown /\ CompleteAll({t}, "aborted") /\ UNCHANGED curlVars
  BY <1>4, <1>5 DEF Outcomes
<1>6. CASE CompleteAll({t}, "failed_init") /\ UNCHANGED curlVars
  BY <1>4, <1>6 DEF Outcomes
<1>7. CASE transfers[HandleOf[t]] = NoTransfer /\ FailAll(d)
  <2>1. Effect(d, {d[h] : h \in Handles} \ {NoTransfer})
    BY <1>3, <1>7, FailAllEffect
  <2>2. PICK S \in SUBSET Transfers : S = {d[h] : h \in Handles} \ {NoTransfer}
    BY <2>1 DEF Effect
  <2>3. S \subseteq {d[h] : h \in Handles}
    BY <2>2
  <2> QED BY <1>7, <2>1, <2>2, <2>3
<1>8. CASE transfers[HandleOf[t]] = NoTransfer /\ \E m \in Progress(d) : ReadCompletions(d, m)
  <2>1. PICK m \in Progress(d) : ReadCompletions(d, m)
    BY <1>8
  <2>2. m \in [Handles -> {"none", "ok", "error"}]
    BY DEF Progress
  <2>3. \E S \in SUBSET Transfers : Effect(d, S) /\ S \subseteq {d[h] : h \in Handles}
    BY <1>3, <2>1, <2>2, ReadEffect
  <2> QED BY <1>8, <2>3
<1> QED BY <1>5, <1>6, <1>7, <1>8 DEF AddOnReactor

-----------------------------------------------------------------------------
(* Where a transfer is. *)
LEMMA DrivenWhere ==
    ASSUME NEW d, Seated(d), NEW t \in Transfers
    PROVE  t \in {d[h] : h \in Handles} <=> d[HandleOf[t]] = t
BY ReactorAssumption DEF Seated

LEMMA TypedSeated ==
    ASSUME Typed, OwnHandle
    PROVE  Seated(transfers)
BY DEF Typed, TypeOK, OwnHandle, Seated

LEMMA ClearedSeats ==
    ASSUME NEW d, Seated(d), NEW S, Clears(d, S)
    PROVE  /\ Seated(transfers')
           /\ OwnHandle'
           /\ \A t \in Transfers : t \in Driven' <=> d[HandleOf[t]] = t /\ t \notin S
<1>1. transfers' \in [Handles -> Transfers \cup {NoTransfer}]
  BY DEF Seated, Clears
<1>2. \A h \in Handles : transfers'[h] # NoTransfer => HandleOf[transfers'[h]] = h
  BY DEF Seated, Clears
<1>3. Seated(transfers')
  BY <1>1, <1>2 DEF Seated
<1>4. ASSUME NEW t \in Transfers PROVE t \in Driven' <=> d[HandleOf[t]] = t /\ t \notin S
  <2>1. t \in Driven' <=> transfers'[HandleOf[t]] = t
    BY <1>3, DrivenWhere, ReactorAssumption DEF Driven
  <2> QED BY <2>1, ReactorAssumption DEF Clears
<1> QED BY <1>2, <1>3, <1>4 DEF OwnHandle

(* A step of the reactor takes A out of the batch, drives it and completes S. *)
Moves(A, S) ==
    \A t \in Transfers :
        /\ t \in Driven' <=> (t \in Driven \/ t \in A) /\ t \notin S
        /\ t \in S => t \in Driven \/ t \in A \/ t \in revoked
        /\ Has(batch, t) <=> t \in A \/ Has(batch', t)
        /\ t \in A => ~Has(batch', t)

LEMMA PlacesKept ==
    ASSUME Typed, OwnHandle, OwnHandle', Places, NEW A, NEW S, Settles(S), Moves(A, S),
           Seated(transfers'), UNCHANGED <<commands, revoked>>,
           at' = "stopped" => pollFailed' \/ \A t \in Transfers : result'[t] # "pending"
    PROVE  Places'
<1> SUFFICES ASSUME NEW t \in Transfers PROVE InPlace(t)' /\ Somewhere(t)'
  BY DEF Places
<1>1. InPlace(t) /\ Somewhere(t)
  BY DEF Places
<1>2. /\ t \in Driven' <=> (t \in Driven \/ t \in A) /\ t \notin S
      /\ t \in S => t \in Driven \/ t \in A \/ t \in revoked
      /\ Has(batch, t) <=> t \in A \/ Has(batch', t)
      /\ t \in A => ~Has(batch', t)
  BY DEF Moves
<1>3. /\ result'[t] = "pending" <=> result[t] = "pending" /\ t \notin S
      /\ result'[t] = "idle" <=> result[t] = "idle"
  BY DEF Settles
<1>4. t \in Driven <=> transfers[HandleOf[t]] = t
  BY TypedSeated, DrivenWhere, ReactorAssumption DEF Driven
<1>5. t \in Driven' <=> transfers'[HandleOf[t]] = t
  BY DrivenWhere, ReactorAssumption DEF Driven
<1>6. InPlace(t)'
  BY <1>1, <1>2, <1>3 DEF InPlace
<1>7. Somewhere(t)'
  BY <1>1, <1>2, <1>3, <1>4, <1>5 DEF Somewhere
<1> QED BY <1>6, <1>7
-----------------------------------------------------------------------------
(* The queue. *)

LEMMA CommandCases ==
    ASSUME NEW c \in Commands
    PROVE  \/ c.type \in {"add", "cancel"} /\ c.transfer \in Transfers
           \/ c.type = "cancelOwner" /\ c.owner \in Owners
           \/ c.type = "shutdown"
BY DEF Commands, Add, Cancel, CancelOwner, Shutdown

LEMMA AppendIndex ==
    ASSUME NEW q \in Seq(Commands), NEW c \in Commands
    PROVE  /\ Append(q, c) \in Seq(Commands)
           /\ Len(Append(q, c)) = Len(q) + 1
           /\ Len(q) \in Nat /\ DOMAIN q = 1..Len(q)
           /\ \A i \in DOMAIN Append(q, c) :
                \/ i \in DOMAIN q /\ i <= Len(q) /\ Append(q, c)[i] = q[i]
                \/ i = Len(q) + 1 /\ i \notin DOMAIN q /\ Append(q, c)[i] = c
           /\ \A i \in DOMAIN q : i \in DOMAIN Append(q, c) /\ Append(q, c)[i] = q[i]
           /\ Len(q) + 1 \in DOMAIN Append(q, c) /\ Append(q, c)[Len(q) + 1] = c
OBVIOUS

LEMMA TailIndex ==
    ASSUME NEW q \in Seq(Commands), q # <<>>
    PROVE  /\ Tail(q) \in Seq(Commands) /\ Head(q) \in Commands
           /\ Len(Tail(q)) = Len(q) - 1 /\ Len(q) \in Nat \ {0}
           /\ DOMAIN q = 1..Len(q) /\ DOMAIN Tail(q) = 1..(Len(q) - 1)
           /\ Head(q) = q[1] /\ 1 \in DOMAIN q
           /\ \A i \in DOMAIN Tail(q) : i + 1 \in DOMAIN q /\ Tail(q)[i] = q[i + 1]
           /\ \A i \in DOMAIN q : i # 1 => i - 1 \in DOMAIN Tail(q) /\ Tail(q)[i - 1] = q[i]
OBVIOUS

LEMMA HasAppend ==
    ASSUME NEW q \in Seq(Commands), NEW c \in Commands, NEW t
    PROVE  Has(Append(q, c), t) <=> Has(q, t) \/ IsAdd(c, t)
BY AppendIndex DEF Has

LEMMA HasTail ==
    ASSUME NEW q \in Seq(Commands), q # <<>>, Once(q), NEW t \in Transfers
    PROVE  /\ Has(q, t) <=> IsAdd(Head(q), t) \/ Has(Tail(q), t)
           /\ IsAdd(Head(q), t) => ~Has(Tail(q), t)
<1>1. Has(q, t) <=> IsAdd(Head(q), t) \/ Has(Tail(q), t)
  <2>1. ASSUME NEW i \in DOMAIN q, IsAdd(q[i], t) PROVE IsAdd(Head(q), t) \/ Has(Tail(q), t)
    <3>1. i = 1 \/ (i - 1 \in DOMAIN Tail(q) /\ Tail(q)[i - 1] = q[i])
      BY TailIndex
    <3>2. Head(q) = q[1]
      BY TailIndex
    <3> QED BY <2>1, <3>1, <3>2 DEF Has
  <2>2. ASSUME NEW i \in DOMAIN Tail(q), IsAdd(Tail(q)[i], t) PROVE Has(q, t)
    <3>1. i + 1 \in DOMAIN q /\ Tail(q)[i] = q[i + 1]
      BY TailIndex
    <3> QED BY <2>2, <3>1 DEF Has
  <2>3. ASSUME IsAdd(Head(q), t) PROVE Has(q, t)
    BY <2>3, TailIndex DEF Has
  <2> QED BY <2>1, <2>2, <2>3 DEF Has
<1>2. ASSUME IsAdd(Head(q), t), NEW i \in DOMAIN Tail(q), IsAdd(Tail(q)[i], t) PROVE FALSE
  <2>1. i + 1 \in DOMAIN q /\ 1 \in DOMAIN q /\ i \in 1..(Len(q) - 1)
    BY TailIndex
  <2>2. IsAdd(q[i + 1], t) /\ IsAdd(q[1], t)
    BY <1>2, TailIndex
  <2>3. i + 1 = 1
    BY <2>1, <2>2 DEF Once
  <2> QED BY <2>1, <2>3
<1> QED BY <1>1, <1>2 DEF Has

(* Nothing of the queues is touched, and nothing more is driven. *)
LEMMA QueuesKept ==
    ASSUME Queues, UNCHANGED <<commands, batch, revoked, shutdownEnqueued>>,
           \A t \in Transfers : t \in Driven' => t \in Driven
    PROVE  Queues'
<1>1. Vouched(commands)' /\ Vouched(batch)'
  BY DEF Queues, Vouched
<1>2. Once(commands)' /\ Once(batch)'
  BY DEF Queues, Once
<1>3. InOrder(commands)' /\ InOrder(batch)'
  BY DEF Queues, InOrder, Spared
<1>4. BatchFirst'
  BY DEF Queues, BatchFirst, Spared
<1> QED BY <1>1, <1>2, <1>3, <1>4 DEF Queues

(* A call pushes a command that was asked for. *)
LEMMA QueuesPushed ==
    ASSUME Typed, Queues, ~shutdownEnqueued, NEW c \in Commands, commands' = Append(commands, c),
           UNCHANGED <<batch, transfers>>, revoked \subseteq revoked',
           c.type = "cancel" => c.transfer \in revoked',
           c.type = "shutdown" => shutdownEnqueued',
           \A t \in Transfers : IsAdd(c, t) => ~Has(commands, t),
           c.type = "cancelOwner" =>
             \A t \in Transfers : OwnerOf[t] = c.owner /\ t \notin revoked' =>
               t \notin Driven /\ ~Has(commands, t) /\ ~Has(batch, t)
    PROVE  Queues'
<1> USE DEF Queues
<1>1. commands \in Seq(Commands) /\ batch \in Seq(Commands)
  BY DEF Typed, TypeOK
<1>2. /\ Len(commands') = Len(commands) + 1 /\ Len(commands) \in Nat /\ DOMAIN commands = 1..Len(commands)
      /\ \A i \in DOMAIN commands' :
           \/ i \in DOMAIN commands /\ i <= Len(commands) /\ commands'[i] = commands[i]
           \/ i = Len(commands) + 1 /\ i \notin DOMAIN commands /\ commands'[i] = c
      /\ \A i \in DOMAIN commands : i \in DOMAIN commands' /\ commands'[i] = commands[i]
      /\ Len(commands) + 1 \in DOMAIN commands' /\ commands'[Len(commands) + 1] = c
  BY <1>1, AppendIndex
<1>3. Driven' = Driven
  BY DEF Driven
<1>4. /\ \A i \in DOMAIN commands : commands[i].type # "shutdown"
      /\ \A i \in DOMAIN batch : batch[i].type # "shutdown"
  BY DEF Vouched
<1>5. Vouched(commands)'
  BY <1>2, <1>4 DEF Vouched
<1>6. Vouched(batch)'
  BY <1>4 DEF Vouched
<1>7. Once(commands)'
  <2> SUFFICES ASSUME NEW t \in Transfers, NEW i \in DOMAIN commands', NEW j \in DOMAIN commands',
                      IsAdd(commands'[i], t), IsAdd(commands'[j], t)
               PROVE  i = j
    BY DEF Once, IsAdd
  <2>1. Once(commands)
    OBVIOUS
  <2>2. CASE IsAdd(c, t)
    BY <1>2, <2>2 DEF Has
  <2>3. CASE ~IsAdd(c, t)
    BY <1>2, <2>1, <2>3 DEF Once
  <2> QED BY <2>2, <2>3
<1>8. Once(batch)'
  BY DEF Once
<1>9. InOrder(batch)'
  BY <1>3 DEF InOrder, Spared
<1>10. InOrder(commands)'
  <2> SUFFICES ASSUME NEW t \in Transfers, NEW i \in DOMAIN commands', Spared(commands, i, t)'
               PROVE  t \notin Driven /\ \A j \in 1..i : ~IsAdd(commands'[j], t)
    BY <1>3 DEF InOrder, IsAdd
  <2>1. CASE i \in DOMAIN commands /\ i <= Len(commands) /\ commands'[i] = commands[i]
    <3>1. Spared(commands, i, t)
      BY <2>1 DEF Spared
    <3>2. t \notin Driven /\ \A j \in 1..i : ~IsAdd(commands[j], t)
      BY <2>1, <3>1 DEF InOrder
    <3>3. \A j \in 1..i : commands'[j] = commands[j]
      BY <1>2, <2>1
    <3> QED BY <3>2, <3>3
  <2>2. CASE i = Len(commands) + 1 /\ commands'[i] = c
    <3>1. c.type = "cancelOwner" /\ OwnerOf[t] = c.owner /\ t \notin revoked'
      BY <2>2 DEF Spared
    <3>2. t \notin Driven /\ ~Has(commands, t) /\ ~IsAdd(c, t)
      BY <3>1 DEF IsAdd
    <3>3. ASSUME NEW j \in 1..i PROVE ~IsAdd(commands'[j], t)
      <4>1. j \in DOMAIN commands'
        BY <1>2, <2>2
      <4> QED BY <1>2, <3>2, <4>1 DEF Has
    <3> QED BY <3>2, <3>3
  <2> QED BY <1>2, <2>1, <2>2
<1>11. BatchFirst'
  <2>1. ASSUME NEW t \in Transfers, NEW i \in DOMAIN commands', Spared(commands, i, t)' PROVE ~Has(batch, t)
    <3>1. CASE i \in DOMAIN commands /\ commands'[i] = commands[i]
      BY <2>1, <3>1 DEF Spared, BatchFirst
    <3>2. CASE commands'[i] = c
      BY <2>1, <3>2 DEF Spared
    <3> QED BY <1>2, <3>1, <3>2
  <2> QED BY <1>4, <2>1 DEF BatchFirst
<1> QED BY <1>5, <1>6, <1>7, <1>8, <1>9, <1>10, <1>11
(* ProcessCommands swaps the queue out when its last batch is done. *)
LEMMA QueuesSwapped ==
    ASSUME Typed, OwnHandle, Queues, Places, batch = <<>>, batch' = commands, commands' = <<>>,
           UNCHANGED <<revoked, shutdownEnqueued, transfers, result, pollFailed>>, at' # "stopped"
    PROVE  Queues' /\ Places'
<1>1. DOMAIN commands' = {} /\ DOMAIN batch = {}
  OBVIOUS
<1>2. Driven' = Driven
  BY DEF Driven
<1>3. Vouched(batch)' /\ Vouched(commands)'
  BY <1>1 DEF Queues, Vouched
<1>4. Once(batch)' /\ Once(commands)'
  BY <1>1 DEF Queues, Once
<1>5. InOrder(batch)' /\ InOrder(commands)'
  BY <1>1, <1>2 DEF Queues, InOrder, Spared
<1>6. BatchFirst'
  BY <1>1 DEF BatchFirst
<1>7. \A t \in Transfers : ~Has(batch, t) /\ ~Has(commands', t) /\ (Has(batch', t) <=> Has(commands, t))
  BY <1>1 DEF Has
<1>8. ASSUME NEW t \in Transfers PROVE InPlace(t)' /\ Somewhere(t)'
  <2>1. InPlace(t) /\ Somewhere(t)
    BY DEF Places
  <2>2. InPlace(t)'
    BY <1>2, <1>7, <2>1 DEF InPlace
  <2>3. Somewhere(t)'
    BY <1>7, <2>1 DEF Somewhere
  <2> QED BY <2>2, <2>3
<1>9. Places'
  BY <1>8 DEF Places
<1> QED BY <1>3, <1>4, <1>5, <1>6, <1>9 DEF Queues

(* One command leaves the batch; A is the transfer it adds, if it is Add. *)
LEMMA QueuesExecuted ==
    ASSUME Typed, Queues, batch # <<>>, batch' = Tail(batch), UNCHANGED <<commands, revoked>>,
           shutdownEnqueued' = shutdownEnqueued,
           \A t \in Transfers : t \in Driven' => t \in Driven \/ IsAdd(Head(batch), t)
    PROVE  Queues'
<1> USE DEF Queues
<1>1. batch \in Seq(Commands) /\ commands \in Seq(Commands)
  BY DEF Typed, TypeOK
<1>2. /\ Len(batch') = Len(batch) - 1 /\ Len(batch) \in Nat \ {0}
      /\ DOMAIN batch = 1..Len(batch) /\ DOMAIN batch' = 1..(Len(batch) - 1)
      /\ Head(batch) = batch[1] /\ 1 \in DOMAIN batch
      /\ \A i \in DOMAIN batch' : i + 1 \in DOMAIN batch /\ batch'[i] = batch[i + 1]
      /\ \A i \in DOMAIN batch : i # 1 => i - 1 \in DOMAIN batch' /\ batch'[i - 1] = batch[i]
  BY <1>1, TailIndex
<1>3. \A t \in Transfers : Has(batch', t) => Has(batch, t)
  BY <1>2 DEF Has
<1>4. \A t \in Transfers : IsAdd(Head(batch), t) => Has(batch, t)
  BY <1>2 DEF Has
<1>5. Vouched(commands)'
  BY DEF Vouched
<1>6. Vouched(batch)'
  <2> SUFFICES ASSUME NEW i \in DOMAIN batch'
               PROVE  /\ batch'[i].type = "cancel" => batch'[i].transfer \in revoked
                      /\ batch'[i].type = "shutdown" => shutdownEnqueued /\ i = Len(batch')
    BY DEF Vouched
  <2>1. i + 1 \in DOMAIN batch /\ batch'[i] = batch[i + 1] /\ i \in Nat
    BY <1>2
  <2>2. /\ batch[i + 1].type = "cancel" => batch[i + 1].transfer \in revoked
        /\ batch[i + 1].type = "shutdown" => shutdownEnqueued /\ i + 1 = Len(batch)
    BY <2>1 DEF Vouched
  <2> QED BY <1>2, <2>1, <2>2
<1>7. Once(commands)'
  BY DEF Once
<1>8. Once(batch)'
  <2> SUFFICES ASSUME NEW t \in Transfers, NEW i \in DOMAIN batch', NEW j \in DOMAIN batch',
                      IsAdd(batch'[i], t), IsAdd(batch'[j], t)
               PROVE  i = j
    BY DEF Once, IsAdd
  <2>1. i + 1 \in DOMAIN batch /\ j + 1 \in DOMAIN batch /\ i \in Nat /\ j \in Nat
    BY <1>2
  <2>2. i + 1 = j + 1
    BY <1>2, <2>1 DEF Once
  <2> QED BY <2>1, <2>2
<1>9. InOrder(commands)'
  <2> SUFFICES ASSUME NEW t \in Transfers, NEW i \in DOMAIN commands, Spared(commands, i, t)
               PROVE  t \notin Driven' /\ \A j \in 1..i : ~IsAdd(commands[j], t)
    BY DEF InOrder, Spared, IsAdd
  <2>1. t \notin Driven /\ \A j \in 1..i : ~IsAdd(commands[j], t)
    BY DEF InOrder
  <2>2. ~Has(batch, t)
    BY DEF BatchFirst
  <2> QED BY <1>4, <2>1, <2>2
<1>10. InOrder(batch)'
  <2> SUFFICES ASSUME NEW t \in Transfers, NEW i \in DOMAIN batch', Spared(batch', i, t)
               PROVE  t \notin Driven' /\ \A j \in 1..i : ~IsAdd(batch'[j], t)
    BY DEF InOrder, Spared, IsAdd
  <2>1. i + 1 \in DOMAIN batch /\ Spared(batch, i + 1, t) /\ i \in Nat
    BY <1>2 DEF Spared
  <2>2. t \notin Driven /\ \A j \in 1..(i + 1) : ~IsAdd(batch[j], t)
    BY <2>1 DEF InOrder
  <2>3. ~IsAdd(batch[1], t)
    BY <2>1, <2>2
  <2>4. ASSUME NEW j \in 1..i PROVE ~IsAdd(batch'[j], t)
    <3>1. j \in DOMAIN batch' /\ j + 1 \in 1..(i + 1)
      BY <1>2, <2>1
    <3> QED BY <1>2, <2>2, <3>1
  <2> QED BY <1>2, <2>2, <2>3, <2>4
<1>11. BatchFirst'
  <2>1. ASSUME NEW t \in Transfers, NEW i \in DOMAIN commands, Spared(commands, i, t) PROVE ~Has(batch', t)
    BY <1>3, <2>1 DEF BatchFirst
  <2>2. ASSUME NEW i \in DOMAIN batch', batch'[i].type = "shutdown" PROVE commands = <<>>
    BY <1>2, <2>2 DEF BatchFirst
  <2> QED BY <2>1, <2>2 DEF BatchFirst, Spared
<1> QED BY <1>5, <1>6, <1>7, <1>8, <1>9, <1>10, <1>11

(* A step that leaves the queues, the handles and the results alone. *)
LEMMA QuietKeeps ==
    ASSUME IInv, UNCHANGED <<commands, batch, shutdownEnqueued, revoked, transfers, result, completions, pollFailed>>,
           at' # "stopped" \/ at = "stopped"
    PROVE  /\ OwnHandle' /\ Queues' /\ Places' /\ CompletedOnce'
           /\ [Contract!Next]_<<result, revoked>>
<1> USE DEF IInv
<1>1. OwnHandle' /\ CompletedOnce'
  BY DEF OwnHandle, CompletedOnce
<1>2. Driven' = Driven
  BY DEF Driven
<1>3. Queues'
  BY <1>2, QueuesKept
<1>4. ASSUME NEW t \in Transfers PROVE InPlace(t)' /\ Somewhere(t)'
  <2>1. InPlace(t) /\ Somewhere(t)
    BY DEF Places
  <2> QED BY <1>2, <2>1 DEF InPlace, Somewhere
<1>5. Places'
  BY <1>4 DEF Places
<1> QED BY <1>1, <1>3, <1>5
-----------------------------------------------------------------------------
(* The actions, one by one. *)

Step == [Contract!Next]_<<result, revoked>>

LEMMA InitIInv == Init => IInv
<1> SUFFICES ASSUME Init PROVE IInv
  OBVIOUS
<1> USE DEF Init
<1>1. DOMAIN commands = {} /\ DOMAIN batch = {} /\ commands \in Seq(Commands) /\ batch \in Seq(Commands)
  OBVIOUS
<1>2. Driven = {}
  BY DEF Driven, Undriven
<1>3. Typed
  BY <1>1, SilentTyped DEF Typed, TypeOK, Undriven
<1>4. OwnHandle
  BY DEF OwnHandle, Undriven
<1>5. Turn
  BY DEF Turn
<1>6. Queues
  BY <1>1 DEF Queues, Vouched, Once, InOrder, BatchFirst
<1>7. Places
  BY <1>1, <1>2 DEF Places, InPlace, Somewhere, Has
<1>8. CompletedOnce /\ Awake
  BY DEF CompletedOnce, Awake
<1> QED BY <1>3, <1>4, <1>5, <1>6, <1>7, <1>8 DEF IInv

(* Steps that only move the thread or signal the eventfd. *)
LEMMA MoveIInv ==
    ASSUME IInv, Wake \/ Return \/ EpollWait \/ Drain \/ EventsHandled
    PROVE  IInv' /\ Step
<1>1. UNCHANGED <<commands, batch, shutdownEnqueued, revoked, transfers, messages, result, completions,
                  shuttingDown, pollFailed>>
  BY DEF Wake, Return, EpollWait, Drain, EventsHandled, callVars, curlVars, doneVars
<1>2. at' # "stopped" \/ at = "stopped"
  BY DEF Wake, Return, EpollWait, Drain, EventsHandled
<1>3. OwnHandle' /\ Queues' /\ Places' /\ CompletedOnce' /\ Step
  BY <1>1, <1>2, QuietKeeps DEF Step
<1>4. /\ unsignalled' \in Nat /\ eventfd' \in BOOLEAN /\ nested' \in BOOLEAN
      /\ at' \in {"swap", "batch", "wait", "events", "read", "exit", "stopped"}
      /\ ready' \subseteq Events
  <2>1. CASE Wake
    BY <2>1 DEF IInv, Typed, TypeOK, Wake
  <2>2. CASE Return
    BY <2>2 DEF IInv, Typed, TypeOK, Return, callVars
  <2>3. CASE EpollWait
    BY <2>3 DEF IInv, Typed, TypeOK, EpollWait, callVars
  <2>4. CASE Drain
    BY <2>4 DEF IInv, Typed, TypeOK, Drain, callVars
  <2>5. CASE EventsHandled
    BY <2>5 DEF IInv, Typed, TypeOK, EventsHandled, callVars
  <2> QED BY <2>1, <2>2, <2>3, <2>4, <2>5
<1>5. Typed'
  BY <1>1, <1>4 DEF IInv, Typed, TypeOK
<1>6. Turn'
  BY <1>1 DEF IInv, Turn, Wake, Return, EpollWait, Drain, EventsHandled, Undriven
<1>7. Awake'
  BY DEF IInv, Typed, TypeOK, Awake, Wake, Return, EpollWait, Drain, EventsHandled, callVars
<1> QED BY <1>3, <1>5, <1>6, <1>7 DEF IInv

LEMMA SwapIInv ==
    ASSUME IInv, Swap
    PROVE  IInv' /\ Step
<1>1. batch = <<>>
  BY DEF IInv, Turn, Swap
<1>2. Queues' /\ Places'
  BY <1>1, QueuesSwapped DEF IInv, Swap, curlVars, doneVars
<1>3. Typed' /\ OwnHandle' /\ CompletedOnce'
  BY DEF IInv, Typed, TypeOK, OwnHandle, CompletedOnce, Swap, curlVars, doneVars
<1>4. Turn'
  BY DEF IInv, Turn, Swap, curlVars, Undriven
<1>5. Awake'
  BY DEF Awake, Swap
<1>6. Step
  BY DEF Step, Swap, doneVars
<1> QED BY <1>2, <1>3, <1>4, <1>5, <1>6 DEF IInv

(* Steps of the reactor outside of a batch that complete transfers. *)
LEMMA CompletingKeeps ==
    ASSUME IInv, NEW S, Effect(transfers, S), S \subseteq Driven,
           UNCHANGED <<commands, batch, revoked, shutdownEnqueued>>,
           at' # "stopped" \/ (\A t \in Transfers : result'[t] # "pending") \/ pollFailed'
    PROVE  /\ OwnHandle' /\ Queues' /\ Places' /\ CompletedOnce' /\ Step
           /\ transfers' \in [Handles -> Transfers \cup {NoTransfer}]
           /\ messages' \in [Handles -> {"none", "ok", "error"}]
           /\ result' \in [Transfers -> {"idle", "pending", "ok", "error", "failed_init", "aborted"}]
           /\ completions' \in [Transfers -> Nat]
<1> USE DEF IInv
<1>1. Seated(transfers)
  BY TypedSeated
<1>2. Clears(transfers, S) /\ Reports(S) /\ KeepsContract
  BY DEF Effect
<1>3. /\ Seated(transfers') /\ OwnHandle'
      /\ \A t \in Transfers : t \in Driven' <=> transfers[HandleOf[t]] = t /\ t \notin S
  BY <1>1, <1>2, ClearedSeats
<1>4. \A t \in Transfers : t \in Driven <=> transfers[HandleOf[t]] = t
  BY <1>1, DrivenWhere, ReactorAssumption DEF Driven
<1>5. Moves({}, S)
  BY <1>3, <1>4 DEF Moves
<1>6. Places'
  BY <1>2, <1>3, <1>5, PlacesKept DEF Reports
<1>7. Queues'
  BY <1>3, <1>4, QueuesKept
<1>8. transfers' \in [Handles -> Transfers \cup {NoTransfer}]
  BY <1>3 DEF Seated
<1> QED BY <1>2, <1>3, <1>6, <1>7, <1>8 DEF Reports, Clears, KeepsContract, Step

LEMMA SocketIInv ==
    ASSUME IInv, SocketAction
    PROVE  IInv' /\ Step
<1> USE DEF IInv
<1>1. PICK e \in ready \ {"wake"} :
        /\ ready' = ready \ {e}
        /\ \/ FailAll(transfers)
           \/ /\ \E m \in Progress(transfers) : messages' = m
              /\ UNCHANGED <<transfers, doneVars>>
  BY DEF SocketAction
<1>2. /\ at = "events" /\ UNCHANGED <<commands, batch, revoked, shutdownEnqueued, unsignalled, eventfd, at, nested,
                                      shuttingDown, pollFailed>>
  BY DEF SocketAction, callVars
<1>3. CASE FailAll(transfers)
  <2>1. PICK S : S = {transfers[h] : h \in Handles} \ {NoTransfer}
    OBVIOUS
  <2>2. Effect(transfers, S) /\ S \subseteq Driven
    BY <1>3, <2>1, FailAllEffect, TypedSeated DEF Driven
  <2>3. /\ OwnHandle' /\ Queues' /\ Places' /\ CompletedOnce' /\ Step
        /\ transfers' \in [Handles -> Transfers \cup {NoTransfer}]
        /\ messages' \in [Handles -> {"none", "ok", "error"}]
        /\ result' \in [Transfers -> {"idle", "pending", "ok", "error", "failed_init", "aborted"}]
        /\ completions' \in [Transfers -> Nat]
    BY <1>2, <2>2, CompletingKeeps
  <2>4. Typed'
    BY <1>1, <1>2, <2>3 DEF Typed, TypeOK
  <2>5. Turn'
    BY <1>2, <1>3 DEF Turn, FailAll, Undriven
  <2>6. Awake'
    BY <1>2 DEF Awake
  <2> QED BY <2>3, <2>4, <2>5, <2>6
<1>4. CASE (\E m \in Progress(transfers) : messages' = m) /\ UNCHANGED <<transfers, doneVars>>
  <2>1. messages' \in [Handles -> {"none", "ok", "error"}]
    BY <1>4 DEF Progress
  <2>2. OwnHandle' /\ Queues' /\ Places' /\ CompletedOnce' /\ Step
    BY <1>2, <1>4, QuietKeeps DEF doneVars, Step
  <2>3. Typed'
    BY <1>1, <1>2, <1>4, <2>1 DEF Typed, TypeOK, doneVars
  <2>4. Turn' /\ Awake'
    BY <1>2, <1>4 DEF Turn, Awake, Undriven
  <2> QED BY <2>2, <2>3, <2>4
<1> QED BY <1>1, <1>3, <1>4

LEMMA EpollFailsIInv ==
    ASSUME IInv, EpollFails
    PROVE  IInv' /\ Step
<1> USE DEF IInv
<1>1. /\ at = "wait" /\ FailAll(transfers) /\ shuttingDown' = TRUE /\ pollFailed' = TRUE /\ at' = "read"
      /\ UNCHANGED <<commands, batch, revoked, shutdownEnqueued, unsignalled, eventfd, nested, ready>>
  BY DEF EpollFails, callVars
<1>2. PICK S : S = {transfers[h] : h \in Handles} \ {NoTransfer}
  OBVIOUS
<1>3. Effect(transfers, S) /\ S \subseteq Driven
  BY <1>1, <1>2, FailAllEffect, TypedSeated DEF Driven
<1>4. /\ OwnHandle' /\ Queues' /\ Places' /\ CompletedOnce' /\ Step
      /\ transfers' \in [Handles -> Transfers \cup {NoTransfer}]
      /\ messages' \in [Handles -> {"none", "ok", "error"}]
      /\ result' \in [Transfers -> {"idle", "pending", "ok", "error", "failed_init", "aborted"}]
      /\ completions' \in [Transfers -> Nat]
  BY <1>1, <1>3, CompletingKeeps
<1>5. Typed'
  BY <1>1, <1>4 DEF Typed, TypeOK
<1>6. Turn'
  BY <1>1 DEF Turn, FailAll, Undriven
<1>7. Awake'
  BY <1>1 DEF Awake
<1> QED BY <1>4, <1>5, <1>6, <1>7

LEMMA EndOfTurnIInv ==
    ASSUME IInv, EndOfTurn
    PROVE  IInv' /\ Step
<1> USE DEF IInv
<1>1. /\ at = "read" /\ ReadCompletions(transfers, messages) /\ at' = IF shuttingDown THEN "exit" ELSE "swap"
      /\ UNCHANGED <<commands, batch, revoked, shutdownEnqueued, unsignalled, eventfd, nested, ready, shuttingDown,
                     pollFailed>>
  BY DEF EndOfTurn, callVars
<1>2. messages \in [Handles -> {"none", "ok", "error"}]
  BY DEF Typed, TypeOK
<1>3. PICK S \in SUBSET Transfers : Effect(transfers, S) /\ S \subseteq {transfers[h] : h \in Handles}
  BY <1>1, <1>2, ReadEffect, TypedSeated
<1>4. S \subseteq Driven
  BY <1>3, ReactorAssumption DEF Driven
<1>5. /\ OwnHandle' /\ Queues' /\ Places' /\ CompletedOnce' /\ Step
      /\ transfers' \in [Handles -> Transfers \cup {NoTransfer}]
      /\ messages' \in [Handles -> {"none", "ok", "error"}]
      /\ result' \in [Transfers -> {"idle", "pending", "ok", "error", "failed_init", "aborted"}]
      /\ completions' \in [Transfers -> Nat]
  BY <1>1, <1>3, <1>4, CompletingKeeps
<1>6. Typed'
  BY <1>1, <1>5 DEF Typed, TypeOK
<1>7. ASSUME transfers = Undriven PROVE transfers' = Undriven
  <2>1. transfers' = [h \in Handles |-> IF transfers[h] \in S THEN NoTransfer ELSE transfers[h]]
    BY <1>3 DEF Effect, Clears
  <2> QED BY <1>7, <2>1 DEF Undriven
<1>8. Turn'
  BY <1>1, <1>7 DEF Turn, Undriven
<1>9. Awake'
  BY <1>1 DEF Awake
<1> QED BY <1>5, <1>6, <1>8, <1>9

LEMMA ExitIInv ==
    ASSUME IInv, Exit
    PROVE  IInv' /\ Step
<1> USE DEF IInv
<1>1. /\ at = "exit" /\ at' = "stopped" /\ transfers' = Undriven /\ messages' = Silent
      /\ CompleteAll(Driven, "aborted")
      /\ UNCHANGED <<commands, batch, revoked, shutdownEnqueued, unsignalled, eventfd, nested, ready, shuttingDown,
                     pollFailed>>
  BY DEF Exit, callVars
<1>2. shuttingDown /\ batch = <<>> /\ (pollFailed \/ (revoked = Transfers /\ commands = <<>>))
  BY <1>1 DEF Turn
<1>3. Driven \in SUBSET Transfers
  BY DEF Driven, Typed, TypeOK
<1>4. pollFailed => Driven = {}
  BY DEF Turn, Undriven, Driven
<1>5. \A t \in Driven : t \in revoked
  BY <1>2, <1>3, <1>4
<1>6. Reports(Driven) /\ KeepsContract
  BY <1>1, <1>3, <1>5, CompletingAll DEF Outcomes
<1>7. Clears(transfers, Driven)
  <2>1. \A h \in Handles : transfers[h] \in Driven \/ transfers[h] = NoTransfer
    BY DEF Driven
  <2> QED BY <1>1, <2>1, SilentTyped DEF Clears, Undriven
<1>8. PICK S : S = Driven
  OBVIOUS
<1>9. Effect(transfers, S)
  BY <1>3, <1>6, <1>7, <1>8 DEF Effect
<1>10. ASSUME ~pollFailed, NEW t \in Transfers, result'[t] = "pending" PROVE FALSE
  <2>1. result[t] = "pending" /\ t \notin Driven
    BY <1>6, <1>10 DEF Reports, Settles
  <2>2. ~Has(commands, t) /\ ~Has(batch, t)
    BY <1>2, <1>10 DEF Has
  <2>3. transfers[HandleOf[t]] = t
    BY <2>1, <2>2 DEF Places, Somewhere
  <2> QED BY <2>1, <2>3, ReactorAssumption DEF Driven
<1>11. /\ OwnHandle' /\ Queues' /\ Places' /\ CompletedOnce' /\ Step
       /\ result' \in [Transfers -> {"idle", "pending", "ok", "error", "failed_init", "aborted"}]
       /\ completions' \in [Transfers -> Nat]
       /\ transfers' \in [Handles -> Transfers \cup {NoTransfer}]
       /\ messages' \in [Handles -> {"none", "ok", "error"}]
  BY <1>1, <1>8, <1>9, <1>10, CompletingKeeps
<1>12. Typed'
  BY <1>1, <1>11 DEF Typed, TypeOK
<1>13. Turn'
  BY <1>1, <1>2 DEF Turn, Undriven
<1>14. Awake'
  BY <1>1 DEF Awake
<1> QED BY <1>11, <1>12, <1>13, <1>14
(* The transfer that the first command of the batch adds, if it is Add. *)
Adding == {t \in Transfers : IsAdd(Head(batch), t)}

(* d is what the easy handles drive before S is completed. *)
LEMMA ExecutedKeeps ==
    ASSUME IInv, Execute, NEW d, Seated(d), NEW S, Effect(d, S),
           \A t \in Transfers : d[HandleOf[t]] = t => t \in Driven \/ t \in Adding,
           \A t \in Driven : d[HandleOf[t]] = t,
           \A t \in Adding : t \in S \/ d[HandleOf[t]] = t,
           \A t \in S : t \in Driven \/ t \in Adding \/ t \in revoked
    PROVE  IInv' /\ Step
<1> USE DEF IInv
<1>1. /\ at = "batch" /\ at' = at /\ batch # <<>> /\ batch' = Tail(batch)
      /\ UNCHANGED <<commands, revoked, shutdownEnqueued, unsignalled, eventfd, nested, ready, pollFailed>>
      /\ shuttingDown' = (shuttingDown \/ Head(batch).type = "shutdown")
  BY DEF Execute, callVars
<1>2. batch \in Seq(Commands) /\ Once(batch)
  BY DEF Typed, TypeOK, Queues
<1>3. /\ Clears(d, S) /\ Reports(S) /\ KeepsContract
  BY DEF Effect
<1>4. /\ Seated(transfers') /\ OwnHandle'
      /\ \A t \in Transfers : t \in Driven' <=> d[HandleOf[t]] = t /\ t \notin S
  BY <1>3, ClearedSeats
<1>5. Moves(Adding, S)
  <2> SUFFICES ASSUME NEW t \in Transfers
               PROVE  /\ t \in Driven' <=> (t \in Driven \/ t \in Adding) /\ t \notin S
                      /\ t \in S => t \in Driven \/ t \in Adding \/ t \in revoked
                      /\ Has(batch, t) <=> t \in Adding \/ Has(batch', t)
                      /\ t \in Adding => ~Has(batch', t)
    BY DEF Moves
  <2>1. t \in Adding <=> IsAdd(Head(batch), t)
    BY DEF Adding
  <2>2. /\ Has(batch, t) <=> IsAdd(Head(batch), t) \/ Has(batch', t)
        /\ IsAdd(Head(batch), t) => ~Has(batch', t)
    BY <1>1, <1>2, HasTail
  <2>3. t \in Driven' <=> (t \in Driven \/ t \in Adding) /\ t \notin S
    BY <1>4
  <2> QED BY <2>1, <2>2, <2>3
<1>6. Places'
  BY <1>1, <1>3, <1>4, <1>5, PlacesKept DEF Reports
<1>7. Queues'
  <2>1. \A t \in Transfers : t \in Driven' => t \in Driven \/ IsAdd(Head(batch), t)
    BY <1>4 DEF Adding
  <2> QED BY <1>1, <2>1, QueuesExecuted
<1>8. /\ Head(batch) = batch[1] /\ 1 \in DOMAIN batch /\ batch' \in Seq(Commands)
  BY <1>1, <1>2, TailIndex
<1>9. Typed'
  <2>1. transfers' \in [Handles -> Transfers \cup {NoTransfer}]
    BY <1>4 DEF Seated
  <2> QED BY <1>1, <1>3, <1>8, <2>1 DEF Typed, TypeOK, Reports, Clears
<1>10. Turn'
  <2>1. ~pollFailed /\ (shuttingDown => shutdownEnqueued /\ commands = <<>>)
    BY <1>1 DEF Turn
  <2>2. Head(batch).type = "shutdown" => shutdownEnqueued /\ commands = <<>>
    BY <1>8 DEF Queues, Vouched, BatchFirst
  <2> QED BY <1>1, <2>1, <2>2 DEF Turn
<1>11. Awake'
  BY <1>1 DEF Awake
<1>12. CompletedOnce' /\ Step
  BY <1>1, <1>3 DEF Reports, KeepsContract, Step
<1> QED BY <1>4, <1>6, <1>7, <1>9, <1>10, <1>11, <1>12

LEMMA ExecuteIInv ==
    ASSUME IInv, Execute
    PROVE  IInv' /\ Step
<1> USE DEF IInv
<1> DEFINE c == Head(batch)
<1>1. batch \in Seq(Commands) /\ batch # <<>> /\ at = "batch"
  BY DEF Typed, TypeOK, Execute
<1>2. c \in Commands /\ c = batch[1] /\ 1 \in DOMAIN batch
  BY <1>1, TailIndex
<1>3. \/ c.type = "add" /\ AddOnReactor(c.transfer)
      \/ c.type = "cancel" /\ Remove(c.transfer)
      \/ c.type = "cancelOwner" /\ RemoveOwner(c.owner)
      \/ c.type = "shutdown" /\ UNCHANGED <<curlVars, doneVars>>
  BY DEF Execute
<1>4. Seated(transfers)
  BY TypedSeated
<1>5. \A t \in Transfers : t \in Driven <=> transfers[HandleOf[t]] = t
  BY <1>4, DrivenWhere, ReactorAssumption DEF Driven
<1>6. Driven \in SUBSET Transfers
  BY DEF Driven, Typed, TypeOK
<1>7. \A t \in Transfers : t \in Adding <=> c.type = "add" /\ t = c.transfer
  BY DEF Adding, IsAdd
<1>8. Adding \in SUBSET Transfers
  BY DEF Adding
<1>9. HandleOf \in [Transfers -> Handles] /\ NoTransfer \notin Transfers
  BY ReactorAssumption
<1> HIDE DEF c
<1>10. CASE c.type = "add" /\ AddOnReactor(c.transfer)
  <2>1. c.transfer \in Transfers
    BY <1>2, <1>10, CommandCases
  <2>2. PICK t \in Transfers : t = c.transfer
    BY <2>1
  <2>3. Has(batch, t)
    BY <1>2, <1>10, <2>2 DEF Has, IsAdd
  <2>4. t \notin Driven
    BY <2>3 DEF Places, InPlace
  <2>5. shuttingDown => t \in revoked
    BY <1>1 DEF Turn
  <2>6. \A u \in Transfers : u \in Adding <=> u = t
    BY <1>7, <1>10, <2>2
  <2>7. \/ Effect(transfers, {t})
        \/ /\ transfers[HandleOf[t]] = NoTransfer
           /\ \E S \in SUBSET Transfers :
                /\ Effect([transfers EXCEPT ![HandleOf[t]] = t], S)
                /\ S \subseteq {[transfers EXCEPT ![HandleOf[t]] = t][h] : h \in Handles}
    BY <1>10, <2>2, <2>4, <2>5, AddEffect
  <2>8. CASE Effect(transfers, {t})
    <3>1. PICK S : S = {t}
      OBVIOUS
    <3> QED BY <1>4, <1>5, <1>6, <1>8, <2>6, <2>8, <3>1, ExecutedKeeps
  <2>9. ASSUME NEW S \in SUBSET Transfers, NEW d, d = [transfers EXCEPT ![HandleOf[t]] = t],
               Effect(d, S), S \subseteq {d[h] : h \in Handles}, transfers[HandleOf[t]] = NoTransfer
        PROVE  IInv' /\ Step
    <3>1. Seated(d)
      BY <1>4, <1>9, <2>9 DEF Seated
    <3>2. \A u \in Transfers : d[HandleOf[u]] = u <=> u \in Driven \/ u = t
      BY <1>4, <1>5, <1>9, <2>9 DEF Seated
    <3>3. \A u \in S : u \in Driven \/ u \in Adding
      <4> SUFFICES ASSUME NEW u \in S PROVE u \in Driven \/ u \in Adding
        OBVIOUS
      <4>1. u \in Transfers /\ u \in {d[h] : h \in Handles}
        BY <2>9
      <4>2. d[HandleOf[u]] = u
        BY <3>1, <4>1, DrivenWhere
      <4> QED BY <2>6, <3>2, <4>1, <4>2
    <3> QED BY <1>6, <1>8, <2>6, <2>9, <3>1, <3>2, <3>3, ExecutedKeeps
  <2> QED BY <2>7, <2>8, <2>9
<1>11. CASE c.type = "cancel" /\ Remove(c.transfer)
  <2>1. c.transfer \in Transfers /\ c.transfer \in revoked
    BY <1>2, <1>11, CommandCases DEF Queues, Vouched
  <2>2. Effect(transfers, {c.transfer})
    BY <1>11, <2>1, RemoveEffect
  <2>3. PICK S : S = {c.transfer}
    OBVIOUS
  <2>4. \A u \in Transfers : u \notin Adding
    BY <1>7, <1>11
  <2> QED BY <1>4, <1>5, <1>6, <1>8, <2>1, <2>2, <2>3, <2>4, ExecutedKeeps
<1>12. CASE c.type = "cancelOwner" /\ RemoveOwner(c.owner)
  <2>1. \A t \in Driven : OwnerOf[t] = c.owner => t \in revoked
    <3>1. ASSUME NEW t \in Driven, OwnerOf[t] = c.owner, t \notin revoked PROVE FALSE
      <4>1. Spared(batch, 1, t) /\ t \in Transfers
        BY <1>2, <1>6, <1>12, <3>1 DEF Spared
      <4> QED BY <1>2, <3>1, <4>1 DEF Queues, InOrder
    <3> QED BY <3>1
  <2>2. PICK S : S = {t \in Driven : OwnerOf[t] = c.owner}
    OBVIOUS
  <2>3. Effect(transfers, S)
    BY <1>12, <2>1, <2>2, RemoveOwnerEffect
  <2>4. \A u \in Transfers : u \notin Adding
    BY <1>7, <1>12
  <2> QED BY <1>4, <1>5, <1>6, <1>8, <2>2, <2>3, <2>4, ExecutedKeeps
<1>13. CASE c.type = "shutdown" /\ UNCHANGED <<curlVars, doneVars>>
  <2>1. PICK S : S = {}
    OBVIOUS
  <2>2. Clears(transfers, S)
    BY <1>13, <2>1 DEF Clears, curlVars, Typed, TypeOK
  <2>3. Reports(S)
    BY <1>13, <2>1 DEF Reports, Settles, doneVars, CompletedOnce, Typed, TypeOK
  <2>4. Effect(transfers, S)
    BY <1>13, <2>1, <2>2, <2>3 DEF Effect, KeepsContract, doneVars
  <2>5. \A u \in Transfers : u \notin Adding
    BY <1>7, <1>13
  <2> QED BY <1>4, <1>5, <1>6, <1>8, <2>1, <2>4, <2>5, ExecutedKeeps
<1> QED BY <1>3, <1>10, <1>11, <1>12, <1>13
-----------------------------------------------------------------------------
(* The calls of other threads.  A command that is pushed finds no shutdown *)
(* before it.                                                              *)
LEMMA CommandTypes ==
    /\ \A t \in Transfers : /\ Add(t) \in Commands /\ Cancel(t) \in Commands
                            /\ Add(t).type = "add" /\ Add(t).transfer = t
                            /\ Cancel(t).type = "cancel" /\ Cancel(t).transfer = t
                            /\ Add(t) # Shutdown /\ Cancel(t) # Shutdown
    /\ \A o \in Owners : /\ CancelOwner(o) \in Commands
                         /\ CancelOwner(o).type = "cancelOwner" /\ CancelOwner(o).owner = o
                         /\ CancelOwner(o) # Shutdown
    /\ Shutdown \in Commands /\ Shutdown.type = "shutdown"
<1>1. Shutdown.type = "shutdown"
  BY DEF Shutdown
<1>2. \A t \in Transfers : /\ Add(t).type = "add" /\ Add(t).transfer = t
                           /\ Cancel(t).type = "cancel" /\ Cancel(t).transfer = t
  BY DEF Add, Cancel
<1>3. \A o \in Owners : CancelOwner(o).type = "cancelOwner" /\ CancelOwner(o).owner = o
  BY DEF CancelOwner
<1>4. /\ \A t \in Transfers : Add(t) \in Commands /\ Cancel(t) \in Commands
      /\ \A o \in Owners : CancelOwner(o) \in Commands
      /\ Shutdown \in Commands
  BY DEF Commands
<1> QED BY <1>1, <1>2, <1>3, <1>4

LEMMA PushedKeeps ==
    ASSUME IInv, ~shutdownEnqueued, NEW c \in Commands, EnqueueAlways(c),
           UNCHANGED <<eventfd, at, nested, batch, ready, shuttingDown, curlVars, pollFailed>>,
           revoked' \in SUBSET Transfers,
           c = Shutdown => revoked' = Transfers,
           result' \in [Transfers -> {"idle", "pending", "ok", "error", "failed_init", "aborted"}],
           completions' \in [Transfers -> Nat]
    PROVE  /\ Typed' /\ OwnHandle' /\ Turn' /\ Awake'
           /\ commands' = Append(commands, c) /\ Driven' = Driven
           /\ at = "stopped" => pollFailed
<1> USE DEF IInv
<1>1. /\ commands' = Append(commands, c) /\ unsignalled' = unsignalled + 1
      /\ shutdownEnqueued' = (shutdownEnqueued \/ c = Shutdown)
      /\ UNCHANGED <<transfers, messages>>
  BY DEF EnqueueAlways, curlVars
<1>2. commands \in Seq(Commands) /\ unsignalled \in Nat
  BY DEF Typed, TypeOK
<1>3. commands' \in Seq(Commands)
  BY <1>1, <1>2, AppendIndex
<1>4. Typed'
  BY <1>1, <1>2, <1>3 DEF Typed, TypeOK
<1>5. OwnHandle' /\ Driven' = Driven
  BY <1>1 DEF OwnHandle, Driven
<1>6. shuttingDown => pollFailed
  BY DEF Turn
<1>7. Turn'
  BY <1>1, <1>6 DEF Turn
<1>8. Awake'
  BY <1>1, <1>2 DEF Awake
<1>9. at = "stopped" => pollFailed
  BY <1>6 DEF Turn
<1> QED BY <1>1, <1>4, <1>5, <1>7, <1>8, <1>9

(* A push that adds nothing leaves every transfer where it is. *)
LEMMA PushedPlaces ==
    ASSUME IInv, NEW c \in Commands, commands' = Append(commands, c), c.type # "add",
           UNCHANGED <<batch, transfers, result, at, pollFailed>>, revoked \subseteq revoked'
    PROVE  Places'
<1> SUFFICES ASSUME NEW t \in Transfers PROVE InPlace(t)' /\ Somewhere(t)'
  BY DEF Places
<1>1. InPlace(t) /\ Somewhere(t)
  BY DEF IInv, Places
<1>2. Has(commands', t) <=> Has(commands, t)
  BY HasAppend DEF IsAdd, IInv, Typed, TypeOK
<1>3. Driven' = Driven /\ (Has(batch', t) <=> Has(batch, t))
  BY DEF Driven
<1> QED BY <1>1, <1>2, <1>3 DEF InPlace, Somewhere

LEMMA CallAddIInv ==
    ASSUME IInv, NEW t \in Transfers, CallAdd(t)
    PROVE  IInv' /\ Step
<1> USE DEF IInv
<1>1. /\ result[t] = "idle"
      /\ UNCHANGED <<eventfd, at, nested, batch, ready, shuttingDown, curlVars, revoked, pollFailed>>
  BY DEF CallAdd
<1>2. /\ result \in [Transfers -> {"idle", "pending", "ok", "error", "failed_init", "aborted"}]
      /\ completions \in [Transfers -> Nat] /\ commands \in Seq(Commands)
      /\ revoked \in SUBSET Transfers
  BY DEF Typed, TypeOK
<1>3. \A u \in Transfers : InPlace(u) /\ Somewhere(u)
  BY DEF Places
<1>4. t \notin Driven /\ ~Has(commands, t) /\ ~Has(batch, t)
  BY <1>1, <1>3 DEF InPlace
<1>5. CASE /\ Push(Add(t))
           /\ result' = [result EXCEPT ![t] = "pending"]
           /\ UNCHANGED completions
  <2>1. PICK c \in Commands : c = Add(t)
    BY CommandTypes
  <2>2. c # Shutdown /\ c.type = "add" /\ c.transfer = t /\ ~shutdownEnqueued /\ EnqueueAlways(c)
    BY <1>5, <2>1, CommandTypes DEF Push
  <2>3. result' \in [Transfers -> {"idle", "pending", "ok", "error", "failed_init", "aborted"}]
    BY <1>2, <1>5
  <2>4. /\ Typed' /\ OwnHandle' /\ Turn' /\ Awake'
        /\ commands' = Append(commands, c) /\ Driven' = Driven
        /\ at = "stopped" => pollFailed
    BY <1>1, <1>2, <1>5, <2>2, <2>3, PushedKeeps
  <2>5. \A u \in Transfers : IsAdd(c, u) <=> u = t
    BY <2>2 DEF IsAdd
  <2>6. UNCHANGED <<batch, transfers>>
    BY <1>1 DEF curlVars
  <2>7. Queues'
    BY <1>1, <1>4, <2>2, <2>4, <2>5, <2>6, QueuesPushed
  <2>8. Places'
    <3> SUFFICES ASSUME NEW u \in Transfers PROVE InPlace(u)' /\ Somewhere(u)'
      BY DEF Places
    <3>1. InPlace(u) /\ Somewhere(u)
      BY <1>3
    <3>2. Has(commands', u) <=> Has(commands, u) \/ u = t
      BY <1>2, <2>4, <2>5, HasAppend
    <3>3. Has(batch', u) <=> Has(batch, u)
      BY <2>6
    <3>4. result'[u] = IF u = t THEN "pending" ELSE result[u]
      BY <1>2, <1>5
    <3>5. CASE u = t
      BY <1>1, <1>4, <2>4, <2>6, <3>2, <3>3, <3>4, <3>5 DEF InPlace, Somewhere
    <3>6. CASE u # t
      BY <1>1, <2>4, <2>6, <3>1, <3>2, <3>3, <3>4, <3>6 DEF InPlace, Somewhere
    <3> QED BY <3>5, <3>6
  <2>9. CompletedOnce'
    BY <1>1, <1>2, <1>5 DEF CompletedOnce
  <2>10. Contract!Accept(t)
    BY <1>1, <1>5 DEF Contract!Accept
  <2>11. Step
    BY <2>10 DEF Step, Contract!Next
  <2> QED BY <2>4, <2>7, <2>8, <2>9, <2>11
<1>6. CASE /\ shutdownEnqueued
           /\ result' = [result EXCEPT ![t] = "aborted"]
           /\ completions' = [completions EXCEPT ![t] = @ + 1]
           /\ UNCHANGED <<commands, unsignalled, shutdownEnqueued>>
  <2>1. t \in revoked
    BY <1>6 DEF Turn
  <2>2. UNCHANGED <<transfers, messages, batch>> /\ Driven' = Driven
    BY <1>1 DEF curlVars, Driven
  <2>3. Typed'
    BY <1>1, <1>2, <1>6, <2>2 DEF Typed, TypeOK
  <2>4. OwnHandle' /\ Turn' /\ Awake'
    BY <1>1, <1>6, <2>2 DEF OwnHandle, Turn, Awake
  <2>5. Queues'
    BY <1>1, <1>6, <2>2, QueuesKept
  <2>6. Places'
    <3> SUFFICES ASSUME NEW u \in Transfers PROVE InPlace(u)' /\ Somewhere(u)'
      BY DEF Places
    <3>1. InPlace(u) /\ Somewhere(u)
      BY <1>3
    <3>2. Has(commands', u) <=> Has(commands, u)
      BY <1>6
    <3>3. Has(batch', u) <=> Has(batch, u)
      BY <2>2
    <3>4. result'[u] = IF u = t THEN "aborted" ELSE result[u]
      BY <1>2, <1>6
    <3>5. CASE u = t
      BY <1>4, <2>1, <2>2, <3>2, <3>3, <3>4, <3>5 DEF InPlace, Somewhere
    <3>6. CASE u # t
      BY <1>1, <2>2, <3>1, <3>2, <3>3, <3>4, <3>6 DEF InPlace, Somewhere
    <3> QED BY <3>5, <3>6
  <2>7. CompletedOnce'
    <3>1. completions[t] = 0
      BY <1>1 DEF CompletedOnce
    <3> QED BY <1>2, <1>6, <3>1 DEF CompletedOnce
  <2>8. Contract!Refuse(t)
    BY <1>1, <1>6, <2>1 DEF Contract!Refuse
  <2>9. Step
    BY <2>8 DEF Step, Contract!Next
  <2> QED BY <2>3, <2>4, <2>5, <2>6, <2>7, <2>9
<1> QED BY <1>5, <1>6 DEF CallAdd
LEMMA CallCancelIInv ==
    ASSUME IInv, NEW t \in Transfers, CallCancel(t)
    PROVE  IInv' /\ Step
<1> USE DEF IInv
<1>1. /\ revoked' = revoked \cup {t}
      /\ UNCHANGED <<eventfd, at, nested, batch, ready, shuttingDown, curlVars, pollFailed>>
  BY DEF CallCancel
<1>2. /\ result \in [Transfers -> {"idle", "pending", "ok", "error", "failed_init", "aborted"}]
      /\ completions \in [Transfers -> Nat] /\ commands \in Seq(Commands)
      /\ revoked \in SUBSET Transfers
  BY DEF Typed, TypeOK
<1>3. UNCHANGED <<transfers, messages, batch>> /\ Driven' = Driven
  BY <1>1 DEF curlVars, Driven
<1>4. CASE Push(Cancel(t)) /\ UNCHANGED doneVars
  <2>1. PICK c \in Commands : c = Cancel(t)
    BY CommandTypes
  <2>2. c # Shutdown /\ c.type = "cancel" /\ c.transfer = t /\ ~shutdownEnqueued /\ EnqueueAlways(c)
    BY <1>4, <2>1, CommandTypes DEF Push
  <2>3. UNCHANGED <<result, completions>>
    BY <1>4 DEF doneVars
  <2>4. revoked' \in SUBSET Transfers /\ revoked \subseteq revoked' /\ t \in revoked'
    BY <1>1, <1>2
  <2>5. /\ Typed' /\ OwnHandle' /\ Turn' /\ Awake'
        /\ commands' = Append(commands, c)
    BY <1>1, <1>2, <2>2, <2>3, <2>4, PushedKeeps
  <2>6. \A u \in Transfers : ~IsAdd(c, u)
    BY <2>2 DEF IsAdd
  <2>7. Queues'
    BY <1>3, <2>2, <2>4, <2>5, <2>6, QueuesPushed
  <2>8. Places'
    BY <1>1, <1>3, <2>2, <2>3, <2>4, <2>5, PushedPlaces
  <2>9. CompletedOnce'
    BY <2>3 DEF CompletedOnce
  <2>10. PICK S \in SUBSET Transfers : S = {t}
    OBVIOUS
  <2>11. Contract!Revoke(S)
    BY <1>1, <2>3, <2>10 DEF Contract!Revoke
  <2>12. Step
    BY <2>11 DEF Step, Contract!Next
  <2> QED BY <2>5, <2>7, <2>8, <2>9, <2>12
<1>5. CASE /\ shutdownEnqueued /\ CompleteAll({t}, "aborted")
           /\ UNCHANGED <<commands, unsignalled, shutdownEnqueued>>
  <2>1. revoked = Transfers /\ revoked' = revoked
    BY <1>1, <1>5 DEF Turn
  <2>2. PICK S \in SUBSET Transfers : S = {t}
    OBVIOUS
  <2>3. Reports(S) /\ KeepsContract
    BY <1>5, <2>1, <2>2, CompletingAll DEF Outcomes
  <2>4. Typed'
    BY <1>1, <1>2, <1>3, <1>5, <2>1, <2>3 DEF Typed, TypeOK, Reports
  <2>5. OwnHandle' /\ Turn' /\ Awake'
    BY <1>1, <1>3, <1>5, <2>1 DEF OwnHandle, Turn, Awake
  <2>6. Queues'
    BY <1>3, <1>5, <2>1, QueuesKept
  <2>7. Places'
    <3> SUFFICES ASSUME NEW u \in Transfers PROVE InPlace(u)' /\ Somewhere(u)'
      BY DEF Places
    <3>1. InPlace(u) /\ Somewhere(u)
      BY DEF Places
    <3>2. (Has(commands', u) <=> Has(commands, u)) /\ (Has(batch', u) <=> Has(batch, u))
      BY <1>3, <1>5
    <3>3. (result'[u] = "pending" => result[u] = "pending") /\ (result'[u] = "idle" => result[u] = "idle")
      BY <2>3 DEF Reports, Settles
    <3>4. u \in revoked'
      BY <2>1
    <3> QED BY <1>1, <1>3, <3>1, <3>2, <3>3, <3>4 DEF InPlace, Somewhere
  <2>8. CompletedOnce' /\ Step
    BY <2>1, <2>3 DEF Reports, KeepsContract, Step
  <2> QED BY <2>4, <2>5, <2>6, <2>7, <2>8
<1> QED BY <1>4, <1>5 DEF CallCancel

(* The transfers of the owner that CancelOwner does not mean were not      *)
(* handed to the reactor, or have left it.                                 *)
LEMMA CallCancelOwnerIInv ==
    ASSUME IInv, NEW o \in Owners, CallCancelOwner(o)
    PROVE  IInv' /\ Step
<1> USE DEF IInv
<1>1. /\ Push(CancelOwner(o))
      /\ revoked' = revoked \cup {t \in Transfers : OwnerOf[t] = o /\ result[t] = "pending"}
      /\ UNCHANGED <<eventfd, at, nested, batch, ready, shuttingDown, curlVars, pollFailed>>
      /\ UNCHANGED <<result, completions, transfers>>
  BY DEF CallCancelOwner, doneVars, curlVars
<1>2. /\ result \in [Transfers -> {"idle", "pending", "ok", "error", "failed_init", "aborted"}]
      /\ completions \in [Transfers -> Nat] /\ revoked \in SUBSET Transfers
  BY DEF Typed, TypeOK
<1>3. PICK c \in Commands : c = CancelOwner(o)
  BY CommandTypes
<1>4. c # Shutdown /\ c.type = "cancelOwner" /\ c.owner = o /\ ~shutdownEnqueued /\ EnqueueAlways(c)
  BY <1>1, <1>3, CommandTypes DEF Push
<1>5. revoked' \in SUBSET Transfers /\ revoked \subseteq revoked'
  BY <1>1, <1>2
<1>6. /\ Typed' /\ OwnHandle' /\ Turn' /\ Awake'
      /\ commands' = Append(commands, c)
  BY <1>1, <1>2, <1>4, <1>5, PushedKeeps
<1>7. \A u \in Transfers : ~IsAdd(c, u)
  BY <1>4 DEF IsAdd
<1>8. \A u \in Transfers : OwnerOf[u] = c.owner /\ u \notin revoked' =>
                             u \notin Driven /\ ~Has(commands, u) /\ ~Has(batch, u)
  <2> SUFFICES ASSUME NEW u \in Transfers, OwnerOf[u] = c.owner, u \notin revoked'
               PROVE  u \notin Driven /\ ~Has(commands, u) /\ ~Has(batch, u)
    OBVIOUS
  <2>1. u \notin revoked /\ result[u] # "pending"
    BY <1>1, <1>4
  <2>2. InPlace(u)
    BY DEF Places
  <2> QED BY <2>1, <2>2 DEF InPlace
<1>9. Queues'
  BY <1>1, <1>4, <1>5, <1>6, <1>7, <1>8, QueuesPushed
<1>10. Places'
  BY <1>1, <1>4, <1>5, <1>6, PushedPlaces
<1>11. CompletedOnce'
  BY <1>1 DEF CompletedOnce
<1>12. PICK S \in SUBSET Transfers : S = {t \in Transfers : OwnerOf[t] = o /\ result[t] = "pending"}
  OBVIOUS
<1>13. Contract!Revoke(S)
  BY <1>1, <1>12 DEF Contract!Revoke
<1>14. Step
  BY <1>13 DEF Step, Contract!Next
<1> QED BY <1>6, <1>9, <1>10, <1>11, <1>14

LEMMA CallShutdownIInv ==
    ASSUME IInv, CallShutdown
    PROVE  IInv' /\ Step
<1> USE DEF IInv
<1>1. /\ ~shutdownEnqueued /\ EnqueueAlways(Shutdown) /\ revoked' = Transfers
      /\ UNCHANGED <<eventfd, at, nested, batch, ready, shuttingDown, curlVars, pollFailed>>
      /\ UNCHANGED <<result, completions, transfers>>
  BY DEF CallShutdown, Push, doneVars, curlVars
<1>2. /\ result \in [Transfers -> {"idle", "pending", "ok", "error", "failed_init", "aborted"}]
      /\ completions \in [Transfers -> Nat] /\ revoked \in SUBSET Transfers
  BY DEF Typed, TypeOK
<1>3. PICK c \in Commands : c = Shutdown
  BY CommandTypes
<1>4. c.type = "shutdown" /\ EnqueueAlways(c)
  BY <1>1, <1>3, CommandTypes
<1>5. /\ Typed' /\ OwnHandle' /\ Turn' /\ Awake'
      /\ commands' = Append(commands, c)
  BY <1>1, <1>2, <1>4, PushedKeeps
<1>6. shutdownEnqueued' /\ revoked \subseteq revoked'
  BY <1>1, <1>2 DEF EnqueueAlways
<1>7. \A u \in Transfers : ~IsAdd(c, u)
  BY <1>4 DEF IsAdd
<1>8. Queues'
  BY <1>1, <1>4, <1>5, <1>6, <1>7, QueuesPushed
<1>9. Places'
  BY <1>1, <1>4, <1>5, <1>6, PushedPlaces
<1>10. CompletedOnce'
  BY <1>1 DEF CompletedOnce
<1>11. Contract!Revoke(Transfers)
  BY <1>1, <1>2 DEF Contract!Revoke
<1>12. Step
  BY <1>11 DEF Step, Contract!Next
<1> QED BY <1>5, <1>8, <1>9, <1>10, <1>12
-----------------------------------------------------------------------------
(* Every step keeps the invariant and is a step of the contract.           *)
LEMMA NextIInv ==
    ASSUME IInv, [Next]_vars
    PROVE  IInv' /\ Step
<1>1. CASE UNCHANGED vars
  <2>1. UNCHANGED <<commands, batch, shutdownEnqueued, revoked, transfers, messages, result, completions,
                    pollFailed, at, eventfd, nested, ready, shuttingDown, unsignalled>>
    BY <1>1 DEF vars, callVars, curlVars, doneVars
  <2>2. /\ OwnHandle' /\ Queues' /\ Places' /\ CompletedOnce' /\ Step
    BY <2>1, QuietKeeps DEF Step
  <2>3. Typed'
    BY <2>1 DEF IInv, Typed, TypeOK
  <2>4. Turn' /\ Awake'
    BY <2>1 DEF IInv, Turn, Awake
  <2> QED BY <2>2, <2>3, <2>4 DEF IInv
<1>2. CASE \E t \in Transfers : CallAdd(t) \/ CallCancel(t)
  BY <1>2, CallAddIInv, CallCancelIInv
<1>3. CASE \E o \in Owners : CallCancelOwner(o)
  BY <1>3, CallCancelOwnerIInv
<1>4. CASE CallShutdown
  BY <1>4, CallShutdownIInv
<1>5. CASE Wake \/ Return \/ EpollWait \/ Drain \/ EventsHandled
  BY <1>5, MoveIInv
<1>6. CASE EpollFails
  BY <1>6, EpollFailsIInv
<1>7. CASE Swap
  BY <1>7, SwapIInv
<1>8. CASE Execute
  BY <1>8, ExecuteIInv
<1>9. CASE SocketAction
  BY <1>9, SocketIInv
<1>10. CASE EndOfTurn
  BY <1>10, EndOfTurnIInv
<1>11. CASE Exit
  BY <1>11, ExitIInv
<1> QED BY <1>1, <1>2, <1>3, <1>4, <1>5, <1>6, <1>7, <1>8, <1>9, <1>10, <1>11 DEF Next, Reactor

LEMMA Invariance == Spec => []IInv
<1>1. IInv /\ [Next]_vars => IInv'
  BY NextIInv
<1> QED BY <1>1, InitIInv, PTL DEF Spec

(* However calls and the reactor thread interleave, on_complete runs       *)
(* exactly once for a transfer that is reported complete: the done flag    *)
(* that Complete tests decides between a late Cancel and libcurl's result. *)
THEOREM ReactorCompletesOnce == Spec => []CompletedOnce
<1>1. IInv => CompletedOnce
  BY DEF IInv
<1> QED BY <1>1, Invariance, PTL

(* A call signals the eventfd after it let command_mutex_ go, and the      *)
(* reactor drains it before it swaps the queue: no order of the two lets   *)
(* the reactor sleep on a command.                                         *)
THEOREM ReactorNeverOversleeps == Spec => []NoLostWakeup
<1>1. IInv => NoLostWakeup
  BY DEF IInv, Awake, NoLostWakeup
<1> QED BY <1>1, Invariance, PTL

(* A pending transfer is queued, in the batch or driven on its own easy    *)
(* handle, and a reactor that stopped with one has seen epoll_wait fail.   *)
THEOREM ReactorLosesNoTransfer == Spec => []NoTransferLost
<1>1. ASSUME NEW q \in Seq(Commands), NEW t \in Transfers, Has(q, t)
      PROVE  Add(t) \in Range(q)
  <2>1. PICK i \in DOMAIN q : q[i].type = "add" /\ q[i].transfer = t
    BY <1>1 DEF Has, IsAdd
  <2>2. q[i] \in Commands
    OBVIOUS
  <2>3. q[i] = Add(t)
    <3>1. \/ \E u \in Transfers : q[i] = Add(u) \/ q[i] = Cancel(u)
          \/ \E o \in Owners : q[i] = CancelOwner(o)
          \/ q[i] = Shutdown
      BY <2>2 DEF Commands
    <3> QED BY <2>1, <3>1, CommandTypes
  <2> QED BY <2>3 DEF Range
<1>2. IInv => NoTransferLost
  <2> SUFFICES ASSUME IInv, NEW t \in Transfers, result[t] = "pending"
               PROVE  /\ Queued(t) \/ transfers[HandleOf[t]] = t
                      /\ at = "stopped" => pollFailed
    BY DEF NoTransferLost
  <2>1. commands \in Seq(Commands) /\ batch \in Seq(Commands)
    BY DEF IInv, Typed, TypeOK
  <2>2. Somewhere(t)
    BY DEF IInv, Places
  <2> QED BY <1>1, <2>1, <2>2 DEF Somewhere, Queued
<1> QED BY <1>2, Invariance, PTL

(* The reactor implements the contract its clients program against: it     *)
(* completes a transfer at most once and aborts it only if its Cancel, its *)
(* owner's CancelOwner or a Shutdown asked for that.                       *)
THEOREM ReactorImplementsContract == Spec => ImplementsContract
<1>1. Init => Contract!Init
  BY DEF Init, Contract!Init
<1>2. IInv /\ [Next]_vars => [Contract!Next]_Contract!contractVars
  BY NextIInv DEF Step, Contract!contractVars
<1> QED BY <1>1, <1>2, Invariance, PTL DEF Spec, ImplementsContract, Contract!Spec
=============================================================================
