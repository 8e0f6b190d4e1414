------------------------------ MODULE MCCalls ------------------------------
(***************************************************************************)
(* Calls through their interceptors, in the client and in the server, card *)
(* discovery and push notifications: instances of the components side by   *)
(* side.  They share no state in these instances; a behaviour is one of    *)
(* one part, which the initial state chooses, and each property is about   *)
(* one part.  A variable that two parts name is the running part's.        *)
(***************************************************************************)
EXTENDS Naturals, Sequences, TLC

CONSTANTS Off,  \* of a variable the running part does not have
          c1, c2, c3

VARIABLES part,
    (* Dispatcher and ClientCalls; call also of Discovery *)
    interceptors, call,
    (* Dispatcher *)
    security, owner, stream, reading, delivered,
    (* ClientCalls *)
    mutex, transport, calls,
    (* Discovery *)
    served, trusted, verifying, cache, result, clock, changes,
    (* PushNotifications *)
    list, index, stored, writes, updates, notify, hooks, accepted, listing

-----------------------------------------------------------------------------
(* A call of the dispatcher with two interceptors, and one with two tasks  *)
(* and two principals.                                                     *)
Hooked == INSTANCE Dispatcher WITH
    Calls <- {"c1"}, Interceptors <- {"h1", "h2"}, Tasks <- {"t1"}, Principals <- {"p1"},
    NoTask <- "no task", Nobody <- "nobody"
Secured == INSTANCE Dispatcher WITH
    Calls <- {"c1"}, Interceptors <- {"h1"}, Tasks <- {"t1", "t2"}, Principals <- {"p1", "p2"},
    NoTask <- "no task", Nobody <- "nobody"

dispatcherVars == <<security, owner, stream, reading, delivered>>
DispatcherOff == security = Off /\ owner = Off /\ stream = Off /\ reading = Off /\ delivered = Off

-----------------------------------------------------------------------------
(* Two threads that call one client and register two interceptors.         *)
Client == INSTANCE ClientCalls WITH
    Threads <- {"t1", "t2"}, Interceptors <- {"i1", "i2"}, MaxCalls <- 3

clientVars == <<mutex, transport, calls>>
ClientOff == mutex = Off /\ transport = Off /\ calls = Off

-----------------------------------------------------------------------------
(* One host, and a card of each kind that the checks tell apart.           *)
Interface(binding, endpoint) == [binding |-> binding, endpoint |-> endpoint, version |-> "1.0"]
Card(key, interfaces) ==
    [key |-> key, parses |-> TRUE, interfaces |-> interfaces, requirements |-> {"oauth"}, schemes |-> {"oauth", "basic"}]
Plain == Card("k1", <<Interface("HTTP+JSON", "http")>>)
Many == Card("k2", <<Interface("GRPC", "host:port"), Interface("JSONRPC", "http"), Interface("HTTP+JSON", "http")>>)
Misplaced == Card("k1", <<Interface("JSONRPC", "grpc")>>)
Custom == Card("k1", <<Interface("HTTP+JSON", "http"), Interface("CUSTOM", "http")>>)
Unmet == [Plain EXCEPT !.requirements = {"mtls"}]
Broken == [Plain EXCEPT !.parses = FALSE]

Cards == INSTANCE Discovery WITH
    Hosts <- {"h1"}, Cards <- {Plain, Many, Misplaced, Custom, Unmet, Broken}, Keys <- {"k1", "k2"},
    Ttl <- 1, MaxTime <- 2, MaxChanges <- 1

cardVars == <<served, trusted, verifying, cache, result, clock, changes>>
CardsOff ==
    /\ served = Off /\ trusted = Off /\ verifying = Off /\ cache = Off /\ result = Off
    /\ clock = Off /\ changes = Off

-----------------------------------------------------------------------------
(* Three configs of a known and an unknown task, and one update.           *)
Push == INSTANCE PushNotifications WITH
    Tasks <- {"t1", "t2"}, KnownTasks <- {"t1"}, Configs <- {c1, c2, c3}, Urls <- {"http", "ftp"},
    BadUrls <- {"ftp"}, Notifiers <- {"n1"}, PageSizes <- {0, 1}, MaxWrites <- 4, MaxUpdates <- 1,
    fallback <- TRUE

pushVars == <<list, index, stored, writes, updates, notify, hooks, accepted, listing>>
PushOff ==
    /\ list = Off /\ index = Off /\ stored = Off /\ writes = Off /\ updates = Off /\ notify = Off
    /\ hooks = Off /\ accepted = Off /\ listing = Off

(* Config ids are only compared.                                           *)
Symmetry == Permutations({c1, c2, c3})

-----------------------------------------------------------------------------
(* What the components assume of their constants. *)
ASSUME
    /\ Hooked!DispatcherAssumption /\ Secured!DispatcherAssumption /\ Client!ClientCallsAssumption
    /\ Cards!DiscoveryAssumption /\ Push!PushAssumption

vars == <<part, interceptors, call, dispatcherVars, clientVars, cardVars, pushVars>>

Init ==
    \/ part = "hooked" /\ Hooked!Init /\ ClientOff /\ CardsOff /\ PushOff
    \/ part = "secured" /\ Secured!Init /\ ClientOff /\ CardsOff /\ PushOff
    \/ part = "client" /\ Client!Init /\ DispatcherOff /\ CardsOff /\ PushOff
    \/ part = "cards" /\ Cards!Init /\ interceptors = Off /\ DispatcherOff /\ ClientOff /\ PushOff
    \/ part = "push" /\ Push!Init /\ interceptors = Off /\ call = Off /\ DispatcherOff /\ ClientOff /\ CardsOff

Next ==
    \/ part = "hooked" /\ Hooked!Next /\ UNCHANGED <<part, clientVars, cardVars, pushVars>>
    \/ part = "secured" /\ Secured!Next /\ UNCHANGED <<part, clientVars, cardVars, pushVars>>
    \/ part = "client" /\ Client!Next /\ UNCHANGED <<part, dispatcherVars, cardVars, pushVars>>
    \/ part = "cards" /\ Cards!Next /\ UNCHANGED <<part, interceptors, dispatcherVars, clientVars, pushVars>>
    \/ part = "push" /\ Push!Next /\ UNCHANGED <<part, interceptors, call, dispatcherVars, clientVars, cardVars>>

Spec == Init /\ [][Next]_vars

-----------------------------------------------------------------------------
(* Properties of the parts *)

(* Every interceptor that saw a call begin sees it end, once and in        *)
(* reverse order, in the client's methods as in Dispatch, and with the     *)
(* authenticated principal.                                                *)
HooksPaired ==
    /\ part = "hooked" => Hooked!HooksPaired /\ Hooked!PrincipalKept
    /\ part = "secured" => Secured!HooksPaired /\ Secured!PrincipalKept
    /\ part = "client" => Client!ClientHooksPaired

(* Under a policy Dispatch answers, and its streams deliver, only what the *)
(* caller may access, judged on the full task and cut as it was asked for. *)
AnswersOwn ==
    part = "secured" => Secured!AnswersOwn /\ Secured!StreamsOwn /\ Secured!JudgedInFull

(* Discovery returns no card that the verifier would refuse or that is     *)
(* older than the cache's time, and what it returns always resolves.       *)
NeverUntrusted == part = "cards" => Cards!NeverUntrusted /\ Cards!FreshWithinTtl /\ Cards!Resolves

(* The push store is the map its clients were told of, and its pages list  *)
(* it whole.                                                               *)
StoreExact == part = "push" => Push!StoreExact /\ Push!ListingWhole

(* NotifyTaskUpdated succeeds only when every webhook acknowledged; none   *)
(* gets an update more than twice, or after its config was deleted.        *)
SuccessMeansAcknowledged ==
    part = "push" => Push!SuccessMeansAcknowledged /\ Push!AtMostTwice /\ Push!QuietAfterDelete
=============================================================================
