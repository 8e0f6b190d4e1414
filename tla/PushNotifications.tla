--------------------------- MODULE PushNotifications ---------------------------
(***************************************************************************)
(* Push-notification configs and their delivery: the in-memory store with  *)
(* its list and the index beside it, clients that register, replace, read, *)
(* page through and delete configs, and executors whose NotifyTaskUpdated  *)
(* delivers a task update to every webhook registered for the task, over   *)
(* an HTTP client that may lose the response to a request the webhook      *)
(* processed.  Every store operation holds the store's mutex for its whole *)
(* body and is one step.  Tasks are never removed from the task store.     *)
(***************************************************************************)
EXTENDS Integers, Sequences, FiniteSets, SequencesExt

CONSTANTS
    Tasks,          \* task ids, some of them unknown to the task store
    KnownTasks,
    Configs,        \* config ids
    Urls,           \* webhook URLs
    BadUrls,        \* those that are neither http nor https
    Notifiers,      \* threads that call NotifyTaskUpdated
    PageSizes,      \* page sizes of ListConfigs; 0: everything
    MaxWrites,      \* registrations and deletions
    MaxUpdates,     \* updates of tasks
    fallback        \* whether a fallback_http_version other than the first is set

PushAssumption ==
    /\ KnownTasks \subseteq Tasks /\ BadUrls \subseteq Urls
    /\ PageSizes \subseteq Nat /\ MaxWrites \in Nat /\ MaxUpdates \in Nat /\ fallback \in BOOLEAN

VARIABLES
    list,           \* per task, list_response: a sequence of [id, url]
    index,          \* per task, config_indices
    stored,         \* what clients were told is stored: per task, id -> url
    writes,
    updates,        \* the updates there were
    notify,         \* per notifier, its call
    hooks,          \* what webhooks processed: <<delivery, attempt>>
    accepted,       \* what webhooks answered with 2xx and the sender knows of
    listing         \* one client's walk through the pages

vars == <<list, index, stored, writes, updates, notify, hooks, accepted, listing>>

Without(f, x) == [y \in DOMAIN f \ {x} |-> f[y]]
Put(f, x, v) == [y \in DOMAIN f \cup {x} |-> IF y = x THEN v ELSE f[y]]
Empty == [x \in {} |-> x]

Config(id, url) == [id |-> id, url |-> url]

-----------------------------------------------------------------------------
(* InMemoryPushNotificationStore. *)

CreateOrUpdate(t, id, url) ==
    IF id \in DOMAIN index[t]
    THEN /\ list' = [list EXCEPT ![t][index[t][id]] = Config(id, url)]
         /\ UNCHANGED index
    ELSE /\ index' = [index EXCEPT ![t] = Put(@, id, Len(list[t]) + 1)]
         /\ list' = [list EXCEPT ![t] = Append(@, Config(id, url))]

(* What Get returns for a known config. *)
Get(t, id) == list[t][index[t][id]]

(* Mutant: the configs behind the deleted one keep their index. *)
DeleteUnshifted(t, id) ==
    IF id \notin DOMAIN index[t] THEN UNCHANGED <<list, index>>
    ELSE /\ list' = [list EXCEPT ![t] = RemoveAt(@, index[t][id])]
         /\ index' = [index EXCEPT ![t] = Without(@, id)]

(* Mutant: the config stays in the list. *)
DeleteFromIndex(t, id) ==
    /\ index' = [index EXCEPT ![t] = IF id \in DOMAIN @ THEN Without(@, id) ELSE @]
    /\ UNCHANGED list

(* Those behind the deleted config move up, and their index with them. *)
Delete(t, id) ==
    IF id \notin DOMAIN index[t] THEN UNCHANGED <<list, index>>
    ELSE LET config_index == index[t][id]
         IN  /\ list' = [list EXCEPT ![t] = RemoveAt(@, config_index)]
             /\ index' = [index EXCEPT ![t] = [j \in DOMAIN @ \ {id} |->
                            IF @[j] > config_index THEN @[j] - 1 ELSE @[j]]]

(* Mutant: the next token counts from the start of the page. *)
ListPageRelative(t, page_size, start) ==
    LET remaining == Len(list[t]) - start
        result_size == IF page_size = 0 THEN remaining ELSE Min({page_size, remaining})
    IN  IF start > Len(list[t]) THEN [ok |-> FALSE, configs |-> <<>>, next |-> 0]
        ELSE [ok |-> TRUE, configs |-> SubSeq(list[t], start + 1, start + result_size),
              next |-> IF result_size < remaining THEN result_size ELSE 0]

(* List: the page at an offset, an error for an offset beyond the end.       *)
(* The token 0 is the empty one; a page without a next token has next = 0.   *)
ListPage(t, page_size, start) ==
    LET remaining == Len(list[t]) - start
        result_size == IF page_size = 0 THEN remaining ELSE Min({page_size, remaining})
    IN  IF list[t] = <<>> THEN [ok |-> TRUE, configs |-> <<>>, next |-> 0]
        ELSE IF start > Len(list[t]) THEN [ok |-> FALSE, configs |-> <<>>, next |-> 0]
        ELSE [ok |-> TRUE, configs |-> SubSeq(list[t], start + 1, start + result_size),
              next |-> IF result_size < remaining THEN start + result_size ELSE 0]

-----------------------------------------------------------------------------
Idle == [pc |-> "idle", task |-> CHOOSE t \in Tasks : TRUE, update |-> 0, configs |-> <<>>,
         attempt |-> 1, gone |-> {}]
NoListing == [pc |-> "idle", task |-> CHOOSE t \in Tasks : TRUE, size |-> 0, next |-> 0, seen |-> <<>>,
              whole |-> TRUE, first |-> {}]

Init ==
    /\ list = [t \in Tasks |-> <<>>] /\ index = [t \in Tasks |-> Empty]
    /\ stored = [t \in Tasks |-> Empty]
    /\ writes = 0 /\ updates = 0
    /\ notify = [n \in Notifiers |-> Idle] /\ hooks = {} /\ accepted = {}
    /\ listing = NoListing

(* CreateConfig, and RegisterInlineConfigIfPresent with a config: the task   *)
(* must be in the task store.                                                *)
CreateConfig(t, id, url) ==
    /\ writes < MaxWrites /\ t \in KnownTasks
    /\ CreateOrUpdate(t, id, url)
    /\ stored' = [stored EXCEPT ![t] = Put(@, id, url)]
    /\ writes' = writes + 1
    /\ UNCHANGED <<updates, notify, hooks, accepted, listing>>

(* DeleteConfig returns ok for a config that is not there. *)
DeleteConfig(t, id) ==
    /\ writes < MaxWrites
    /\ Delete(t, id)
    /\ stored' = [stored EXCEPT ![t] = Without(@, id)]
    /\ writes' = writes + 1
    /\ listing' = [listing EXCEPT !.whole = @ /\ ~(listing.task = t /\ id \in DOMAIN stored[t])]
    /\ UNCHANGED <<updates, notify, hooks, accepted>>

(* ListConfigs: a client asks for a page and follows the tokens. *)
ListStart(t, size) ==
    /\ listing.pc = "idle" /\ t \in KnownTasks
    /\ LET page == ListPage(t, size, 0)
       IN  listing' = [pc |-> IF page.next = 0 THEN "done" ELSE "more", task |-> t, size |-> size, next |-> page.next,
                       seen |-> page.configs, whole |-> TRUE, first |-> DOMAIN stored[t]]
    /\ UNCHANGED <<list, index, stored, writes, updates, notify, hooks, accepted>>

ListMore ==
    /\ listing.pc = "more"
    /\ LET page == ListPage(listing.task, listing.size, listing.next)
       IN  listing' = [listing EXCEPT !.pc = IF ~page.ok THEN "error" ELSE IF page.next = 0 THEN "done" ELSE "more",
                                      !.next = page.next, !.seen = @ \o page.configs]
    /\ UNCHANGED <<list, index, stored, writes, updates, notify, hooks, accepted>>

-----------------------------------------------------------------------------
(* NotifyTaskUpdated: the configs are listed once, then delivered to in      *)
(* turn; the first failure ends the call.                                    *)
NotifyStart(n, t) ==
    /\ notify[n].pc # "deliver" /\ updates < MaxUpdates /\ t \in KnownTasks
    /\ updates' = updates + 1
    /\ notify' = [notify EXCEPT ![n] = [pc |-> IF list[t] = <<>> THEN "ok" ELSE "deliver", task |-> t,
                    update |-> updates + 1, configs |-> list[t], attempt |-> 1,
                    gone |-> Configs \ DOMAIN stored[t]]]
    /\ UNCHANGED <<list, index, stored, writes, hooks, accepted, listing>>

Current(n) == Head(notify[n].configs)
Delivery(n) == <<notify[n].update, notify[n].task, Current(n).id, Current(n).url>>

DeliveredOne(n) ==
    notify' = [notify EXCEPT ![n].configs = Tail(@), ![n].attempt = 1,
                             ![n].pc = IF Len(notify[n].configs) = 1 THEN "ok" ELSE "deliver"]

(* Mutant: the update goes on to the next webhook. *)
AttemptFailedGoOn(n) ==
    IF fallback /\ notify[n].attempt = 1 THEN notify' = [notify EXCEPT ![n].attempt = 2]
    ELSE notify' = [notify EXCEPT ![n].configs = Tail(@), ![n].attempt = 1,
                                  ![n].pc = IF Len(notify[n].configs) = 1 THEN "ok" ELSE "deliver"]

(* A failed attempt is repeated once with the fallback version. *)
AttemptFailed(n) ==
    IF fallback /\ notify[n].attempt = 1 THEN notify' = [notify EXCEPT ![n].attempt = 2]
    ELSE notify' = [notify EXCEPT ![n].pc = "failed"]

(* DeliverHttpRequest when the webhook answers, with 2xx or another status. *)
Answered(n, success) ==
    /\ notify[n].pc = "deliver" /\ Current(n).url \notin BadUrls
    /\ hooks' = hooks \cup {<<Delivery(n), notify[n].attempt>>}
    /\ IF success THEN accepted' = accepted \cup {Delivery(n)} /\ DeliveredOne(n)
       ELSE AttemptFailed(n) /\ UNCHANGED accepted
    /\ UNCHANGED <<list, index, stored, writes, updates, listing>>

(* No answer in time: the webhook may have processed the request. *)
Unanswered(n, processed) ==
    /\ notify[n].pc = "deliver" /\ Current(n).url \notin BadUrls
    /\ hooks' = IF processed THEN hooks \cup {<<Delivery(n), notify[n].attempt>>} ELSE hooks
    /\ AttemptFailed(n)
    /\ UNCHANGED <<list, index, stored, writes, updates, accepted, listing>>

(* ValidateUrlScheme refuses before any attempt. *)
UrlRefused(n) ==
    /\ notify[n].pc = "deliver" /\ Current(n).url \in BadUrls
    /\ notify' = [notify EXCEPT ![n].pc = "failed"]
    /\ UNCHANGED <<list, index, stored, writes, updates, hooks, accepted, listing>>

Next ==
    \/ \E t \in Tasks, id \in Configs, url \in Urls : CreateConfig(t, id, url)
    \/ \E t \in Tasks, id \in Configs : DeleteConfig(t, id)
    \/ \E t \in Tasks, size \in PageSizes : ListStart(t, size)
    \/ ListMore
    \/ \E n \in Notifiers :
         \/ \E t \in Tasks : NotifyStart(n, t)
         \/ \E success \in BOOLEAN : Answered(n, success)
         \/ \E processed \in BOOLEAN : Unanswered(n, processed)
         \/ UrlRefused(n)

Spec == Init /\ [][Next]_vars

-----------------------------------------------------------------------------
TypeOK ==
    /\ \A t \in Tasks : /\ DOMAIN index[t] \subseteq Configs
                        /\ \A i \in DOMAIN list[t] : list[t][i] \in [id : Configs, url : Urls]
                        /\ Cardinality({list[t][i].id : i \in DOMAIN list[t]}) = Len(list[t])
    /\ writes \in 0..MaxWrites /\ updates \in 0..MaxUpdates
    /\ listing.pc \in {"idle", "more", "done", "error"}
    /\ \A n \in Notifiers : notify[n].pc \in {"idle", "deliver", "ok", "failed"} /\ notify[n].attempt \in 1..2

(* The list with its index is the map clients were told of: Get finds every  *)
(* config that is registered, as it was last written, and only those,        *)
(* whatever was deleted before it in the list.                               *)
StoreExact ==
    \A t \in Tasks :
      /\ DOMAIN index[t] = DOMAIN stored[t] /\ Len(list[t]) = Cardinality(DOMAIN stored[t])
      /\ \A id \in DOMAIN stored[t] : index[t][id] \in DOMAIN list[t] /\ Get(t, id) = Config(id, stored[t][id])

(* A walk through the pages of ListConfigs, when nothing it lists is         *)
(* deleted meanwhile, ends with every config that was registered when it     *)
(* began, none of them twice, and does not fail; replacing configs and       *)
(* registering new ones does not disturb it.                                 *)
ListingWhole ==
    listing.whole =>
      /\ listing.pc # "error"
      /\ Cardinality({listing.seen[i].id : i \in DOMAIN listing.seen}) = Len(listing.seen)
      /\ listing.pc = "done" => listing.first \subseteq {listing.seen[i].id : i \in DOMAIN listing.seen}

Processed(d) == {h \in hooks : h[1] = d}

(* NotifyTaskUpdated returns success only when every webhook registered as   *)
(* it began acknowledged the update, and it goes on to a webhook only after  *)
(* the one before acknowledged: a failure is never passed over.              *)
SuccessMeansAcknowledged ==
    \A n \in Notifiers : notify[n].pc \in {"ok", "deliver"} /\ notify[n].update > 0 =>
      \A id \in Configs \ (notify[n].gone \cup {notify[n].configs[i].id : i \in DOMAIN notify[n].configs}) :
        \E url \in Urls : <<notify[n].update, notify[n].task, id, url>> \in accepted

(* A webhook processes an update at most twice, twice only with a fallback   *)
(* configured: a lost answer costs one repetition, not a storm.              *)
AtMostTwice ==
    \A h \in hooks : Cardinality(Processed(h[1])) <= IF fallback THEN 2 ELSE 1

(* A config that was deleted before an update is not delivered that update.  *)
QuietAfterDelete ==
    \A n \in Notifiers : notify[n].pc = "deliver" => Current(n).id \notin notify[n].gone
=============================================================================
