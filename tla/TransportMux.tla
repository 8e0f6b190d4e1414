---------------------------- MODULE TransportMux ----------------------------
(***************************************************************************)
(* The request router in front of the JSON-RPC and REST transports.  Its   *)
(* routes are registered before it serves; connections' threads then call  *)
(* RouteRequest on the one object (the pattern of                          *)
(* tests/sut/tck_sut_http_server.cpp).  RouteRequest is const, but a miss  *)
(* goes through the mutable member last_route_miss_, field by field, and   *)
(* the default not-found handler reads it back through the object it was   *)
(* constructed in.                                                         *)
(*                                                                         *)
(* A path is a sequence of tokens, of which "/" and "?" are the            *)
(* characters the code looks for.                                          *)
(***************************************************************************)
EXTENDS Integers, SequencesExt

CONSTANTS Threads,      \* threads that serve connections
          Objects,      \* TransportMux objects, First and copies of it
          First,
          Policy,       \* Options::normalization_policy
          DefaultPath,  \* Options::default_path
          Registrable,  \* routes the application may register
          Requests,     \* requests clients may send
          MaxRequests   \* bound on the requests served

RpcPath == <<"/", "rpc">>
RestApiPrefix == <<"/", "a2a">>
WellKnownPrefix == <<"/", ".well-known", "/">>
ExtendedAgentCard == <<"/", "extendedAgentCard">>

NoMiss == [method |-> "", path |-> <<>>, reason |-> "no route"]
NoRequest == [method |-> "", target |-> <<>>]
Resting == [pc |-> "idle", mux |-> First, request |-> NoRequest, matched |-> FALSE]
NoAnswer == [kind |-> "none"]

MuxAssumption ==
    /\ First \in Objects
    /\ Policy \in {"none", "trim trailing slash", "root to default path"}
    /\ MaxRequests \in Nat

VARIABLES routes,     \* routes_ of every object: names and priorities, in the order they are tried
          captured,   \* the object that not_found_handler_ reads
          miss,       \* last_route_miss_ of every object
          call,       \* the RouteRequest each thread is in
          answer,     \* what its last one returned
          served

vars == <<routes, captured, miss, call, answer, served>>

Init ==
    /\ routes = [o \in Objects |-> <<>>]
    /\ captured = [o \in Objects |-> IF o = First THEN o ELSE "unborn"]
    /\ miss = [o \in Objects |-> NoMiss]
    /\ call = [t \in Threads |-> Resting]
    /\ answer = [t \in Threads |-> NoAnswer]
    /\ served = 0

-----------------------------------------------------------------------------
(* Paths *)

QueryStart(target) == SelectInSeq(target, LAMBDA x : x = "?")  \* 0: npos

PathOf(target) == IF QueryStart(target) = 0 THEN target ELSE SubSeq(target, 1, QueryStart(target) - 1)

(* Mutant: one slash is trimmed. *)
TrimOnce(p) == IF Len(p) > 1 /\ p[Len(p)] = "/" THEN SubSeq(p, 1, Len(p) - 1) ELSE p

(* The first character stays. *)
Trim(p) == SubSeq(p, 1, Max({1} \cup {i \in 1 .. Len(p) : p[i] # "/"}))

NormalizePath(target) ==
    LET path == PathOf(target)
        rooted == IF path = <<>> THEN <<"/">> ELSE IF path[1] # "/" THEN <<"/">> \o path ELSE path
        trimmed == IF Policy = "none" THEN rooted ELSE Trim(rooted)
    IN  IF Policy = "root to default path" /\ trimmed = <<"/">> /\ DefaultPath # <<>> THEN DefaultPath ELSE trimmed

NormalizeTargetForHandler(target) ==
    LET q == QueryStart(target) IN
    IF q = 0 THEN NormalizePath(target) ELSE NormalizePath(target) \o SubSeq(target, q, Len(target))

IsTenantExtendedAgentCardPath(path) ==
    LET end == Len(path) - Len(ExtendedAgentCard) IN
    /\ IsPrefix(<<"/">>, path) /\ IsSuffix(ExtendedAgentCard, path)
    /\ end > 1
    /\ ~Contains(SubSeq(path, 2, end), "/")

(* The matchers of RegisterJsonRpcRoute and RegisterRestRoute, and one of  *)
(* the application's own that also says which methods a path has.          *)
Matches(route, method, path) ==
    CASE route.name = "jsonrpc" -> method = "POST" /\ path = RpcPath
      [] route.name = "rest" -> \/ path = ExtendedAgentCard
                                \/ IsTenantExtendedAgentCardPath(path)
                                \/ IsPrefix(RestApiPrefix, path)
                                \/ IsPrefix(WellKnownPrefix, path)
      [] OTHER -> method \in {"GET", "*"} /\ path = route.path

-----------------------------------------------------------------------------
(* Before the mux serves *)

Configuring == served = 0

(* Mutant: the routes are left in the order of registration. *)
RegisterRouteUnsorted(o, route) ==
    /\ Configuring /\ captured[o] # "unborn"
    /\ \A i \in DOMAIN routes[o] : routes[o][i] # route
    /\ routes' = [routes EXCEPT ![o] = Append(@, route)]
    /\ UNCHANGED <<captured, miss, call, answer, served>>

(* push_back and the stable sort by falling priority. *)
RegisterRoute(o, route) ==
    /\ Configuring /\ captured[o] # "unborn"
    /\ \A i \in DOMAIN routes[o] : routes[o][i] # route
    /\ routes' = [routes EXCEPT ![o] = SelectSeq(@, LAMBDA r : r.priority >= route.priority) \o <<route>>
                                       \o SelectSeq(@, LAMBDA r : r.priority < route.priority)]
    /\ UNCHANGED <<captured, miss, call, answer, served>>

(* The implicit copy constructor: the handler's closure is copied with the *)
(* object it captured.                                                     *)
Copy(o, x) ==
    /\ Configuring /\ captured[o] # "unborn" /\ captured[x] = "unborn"
    /\ captured' = [captured EXCEPT ![x] = captured[o]]
    /\ routes' = [routes EXCEPT ![x] = routes[o]]
    /\ miss' = [miss EXCEPT ![x] = miss[o]]
    /\ UNCHANGED <<call, answer, served>>

-----------------------------------------------------------------------------
(* RouteRequest *)

(* The loop over the routes, which no longer change. *)
RouteRequest(t, o, request) ==
    LET path == NormalizePath(request.target)
        first == SelectInSeq(routes[o], LAMBDA r : Matches(r, request.method, path))
    IN  /\ call[t].pc = "idle" /\ captured[o] # "unborn"
        /\ served < MaxRequests /\ served' = served + 1
        /\ \/ /\ first # 0
              /\ answer' = [answer EXCEPT ![t] = [kind |-> "handled", mux |-> o, request |-> request,
                               route |-> routes[o][first],
                               target |-> NormalizeTargetForHandler(request.target)]]
              /\ UNCHANGED call
           \/ /\ first = 0
              /\ call' = [call EXCEPT ![t] = [pc |-> "method", mux |-> o, request |-> request,
                             matched |-> \E i \in DOMAIN routes[o] : Matches(routes[o][i], "*", path)]]
              /\ UNCHANGED answer
        /\ UNCHANGED <<routes, captured, miss>>

ReasonOf(matched) == IF matched THEN "method not allowed" ELSE "no route"

(* The assignment to last_route_miss_, a member at a time. *)
AssignMiss(t) ==
    LET c == call[t]
        Assign(field, value, next) ==
            /\ c.pc = field
            /\ miss' = [miss EXCEPT ![c.mux][field] = value]
            /\ call' = [call EXCEPT ![t].pc = next]
    IN  /\ \/ Assign("method", c.request.method, "path")
           \/ Assign("path", NormalizePath(c.request.target), "reason")
           \/ Assign("reason", ReasonOf(c.matched), "build")
        /\ UNCHANGED <<routes, captured, answer, served>>

(* not_found_handler_ reads the member back.  A string that another thread *)
(* is assigning is torn.                                                   *)
BuildDefaultNotFound(t) ==
    LET o == captured[call[t].mux]
        Read(field, garbage) ==
            {miss[o][field]} \cup {garbage : x \in {x \in Threads \ {t} : call[x].mux = o /\ call[x].pc = field}}
    IN  /\ call[t].pc = "build"
        /\ \E method \in Read("method", "torn"), path \in Read("path", <<"torn">>) :
             answer' = [answer EXCEPT ![t] = [kind |-> "missed", mux |-> call[t].mux, request |-> call[t].request,
                            matched |-> call[t].matched, method |-> method, path |-> path,
                            status |-> IF miss[o].reason = "method not allowed" THEN 405 ELSE 404]]
        /\ call' = [call EXCEPT ![t] = Resting]
        /\ UNCHANGED <<routes, captured, miss, served>>

-----------------------------------------------------------------------------
Next ==
    \/ \E o \in Objects, route \in Registrable : RegisterRoute(o, route)
    \/ \E o, x \in Objects : Copy(o, x)
    \/ \E t \in Threads, o \in Objects, request \in Requests : RouteRequest(t, o, request)
    \/ \E t \in Threads : AssignMiss(t) \/ BuildDefaultNotFound(t)

Spec == Init /\ [][Next]_vars

-----------------------------------------------------------------------------
(* Properties *)

(* A request is given to a route that matches it, and no other matching    *)
(* route has a higher priority, whatever the order of the RegisterRoute    *)
(* calls.                                                                  *)
BestRouteServes ==
    \A t \in Threads : answer[t].kind = "handled" =>
        LET path == NormalizePath(answer[t].request.target)
            all == ToSet(routes[answer[t].mux])
        IN  /\ Matches(answer[t].route, answer[t].request.method, path)
            /\ \A r \in all : Matches(r, answer[t].request.method, path) => r.priority <= answer[t].route.priority

(* What the transport behind a route receives is the path that was         *)
(* matched, which it may normalise again, and the client's query, whole.   *)
TargetKept ==
    \A t \in Threads : answer[t].kind = "handled" =>
        LET sent == answer[t].request.target
            got == answer[t].target
            Query(x) == IF QueryStart(x) = 0 THEN <<>> ELSE SubSeq(x, QueryStart(x), Len(x))
        IN  NormalizePath(got) = NormalizePath(sent) /\ Query(got) = Query(sent)

=============================================================================
