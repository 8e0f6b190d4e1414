------------------------------ MODULE MCUnaryCall ------------------------------
(***************************************************************************)
(* Calls, requests of other clients and answers of other servers for       *)
(* UnaryCall: every operation with and without its ids, page sizes around  *)
(* the limits and the integers' widths, versions, extensions, credentials, *)
(* envelopes and targets, one dimension varied at a time.                  *)
(***************************************************************************)
EXTENDS UnaryCall

CONSTANTS
    Sizes,          \* page sizes of calls and of other clients' requests
    Peers           \* of {"sdk", "client", "server"}: whose requests and answers there are

-----------------------------------------------------------------------------
(* Calls of the SDK. *)


BaseCall(op) ==
    [operation |-> op, task |-> "t1", config |-> "c1", size |-> 0, token |-> "", history |-> <<>>,
     version |-> <<1, 0>>, extensions |-> RequiredExtensions, credential |-> "valid"]

IdCalls == {[BaseCall(op) EXCEPT !.task = t, !.config = c, !.history = h] :
              op \in UnaryOperations, t \in {"", "t1"}, c \in {"", "c1"}, h \in {<<>>, <<2>>}}
PageCalls == {[BaseCall("ListTasks") EXCEPT !.size = n, !.token = t] : n \in Sizes, t \in {"", "p1"}}
             \cup {[BaseCall("ListPushConfigs") EXCEPT !.size = n, !.token = t] :
                     n \in {m \in Sizes : m < Modulus32 \div 2}, t \in {"", "p1"}}
HeaderCalls == {[BaseCall(op) EXCEPT !.version = v, !.extensions = e, !.credential = k] :
                  op \in {"GetTask", "ListTasks"},
                  v \in {<<>>, <<1, 0>>, <<1, 0, 42>>, <<0, 3>>, <<1, NotNumeric>>, <<1>>},
                  e \in {{}, RequiredExtensions, {"other"}, RequiredExtensions \cup {InvalidToken}},
                  k \in {"none", "empty", "valid", "wrong"}}
MCCalls == IF "sdk" \notin Peers THEN {} ELSE IdCalls \cup PageCalls \cup HeaderCalls

-----------------------------------------------------------------------------
(* Requests of other clients. *)

RawHeaders == {[version |-> v, extensions |-> e, authorization |-> <<"valid">>] :
                 v \in {<<>>, << <<>> >>, << <<1, 0>> >>, << <<1, 1>> >>},
                 e \in {<<>>, <<RequiredExtensions>>, <<RequiredExtensions \cup {InvalidToken}>>}}
GoodHeaders == [version |-> << <<1, 0, 7>> >>, extensions |-> <<RequiredExtensions>>,
                authorization |-> <<"valid">>]

ListArgs == {[shape |-> s, task |-> "", config |-> "", size |-> n, token |-> "p1", history |-> h,
              filters |-> f] :
               s \in {"ok", "malformed"}, n \in {<<>>, <<NotNumeric>>} \cup {<<m>> : m \in Sizes},
               h \in {<<>>, <<NotNumeric>>, <<2>>},
               f \in {{}, {"contextId", "includeArtifacts"}, {"status", "contextId"}}}
TaskArgs == {[shape |-> s, task |-> "t1", config |-> "c1", size |-> <<>>, token |-> "",
              history |-> <<>>, filters |-> {}] : s \in {"ok", "malformed", "notObject"}}

JsonBody(method, args) ==
    [json |-> TRUE, version |-> TRUE, id |-> <<"number", 7>>, method |-> method,
     params |-> "object", args |-> args]
JsonRequest(headers, body) ==
    [method |-> "POST", path |-> "rpc", type |-> "none", headers |-> headers, body |-> body]

RawJson ==
    {JsonRequest(GoodHeaders, JsonBody(<<"ListTasks", "legacy">>, a)) : a \in ListArgs}
    \cup {JsonRequest(h, JsonBody(<<op, s>>, a)) :
            h \in {GoodHeaders}, s \in {"canonical", "legacy"}, a \in TaskArgs,
            op \in (UnaryOperations \ {"ListTasks"}) \cup {"Unknown"}}
    \cup {[method |-> m, path |-> p, type |-> t, headers |-> h,
           body |-> [JsonBody(<<"GetTask", "canonical">>, a) EXCEPT
                       !.json = j, !.id = i, !.params = k]] :
            m \in {"POST", "GET"}, p \in {"rpc", "other"}, t \in {"json", "other"}, h \in RawHeaders,
            a \in {b \in TaskArgs : b.shape = "ok"}, j \in BOOLEAN,
            i \in {<<"string", 9>>, <<"null", 0>>, <<"absent", 0>>}, k \in {"object", "absent", "other"}}

Targets ==
    {Rest!Collection(r) : r \in {"message:send", "message:stream", "tasks", "other"}}
    \cup {Rest!TaskTarget(t, a) : t \in {"", "t1"}, a \in {"", "cancel", "subscribe"}}
    \cup {Rest!PushTarget(t, p, c) : t \in {"", "t1"}, p \in {"collection", "item"}, c \in {"", "c1"}}
    \cup {[Rest!Collection("tasks") EXCEPT !.base = FALSE], [Rest!Collection("tasks") EXCEPT !.query = FALSE]}

RestRequest(method, target, type, headers, args) ==
    [method |-> method, target |-> target, type |-> type, headers |-> headers,
     shape |-> args.shape, config |-> args.config, size |-> args.size, token |-> args.token,
     history |-> args.history, filters |-> args.filters]

RawRest ==
    {RestRequest("GET", Rest!Collection("tasks"), "none", GoodHeaders, a) : a \in ListArgs}
    \cup {RestRequest(m, t, k, GoodHeaders, [a EXCEPT !.history = h]) :
            m \in {"GET", "POST", "DELETE", "PUT"}, t \in Targets, k \in {"none", "other"},
            a \in {b \in TaskArgs : b.shape # "notObject"}, h \in {<<>>, <<NotNumeric>>}}
    \cup {RestRequest("GET", Rest!TaskTarget("t1", ""), "none", h, CHOOSE a \in TaskArgs : a.shape = "ok") :
            h \in RawHeaders}

RawGrpc ==
    {[headers |-> h, message |-> [operation |-> "ListTasks", task |-> "", config |-> "",
                                  size |-> a.size, token |-> a.token, history |-> a.history,
                                  filters |-> a.filters]] :
       h \in RawHeaders \cup {GoodHeaders}, a \in {b \in ListArgs : b.shape = "ok"}}

MCRawRequests(b) ==
    CASE "client" \notin Peers -> {}
      [] b = "jsonrpc" /\ "client" \in Peers -> RawJson
      [] b = "rest" /\ "client" \in Peers -> RawRest
      [] b = "grpc" /\ "client" \in Peers -> RawGrpc

(* Answers of other servers to a call with one response type. *)
MCForeignAnswers(b, c) ==
    IF "server" \notin Peers \/ c # <<BaseCall("GetTask")>> THEN {}
    ELSE
    CASE b = "jsonrpc" ->
           [status : {200, 500}, version : {<<>>, << <<1, 0>> >>, << <<0, 3>> >>}, activated : {{}},
            body : [json : BOOLEAN, version : BOOLEAN,
                    id : {<<"string", RequestId>>, <<"string", 2>>, JsonRpc!NullId}, reason : {<<>>},
                    result : {<<>>, <<"Task">>, <<"malformed">>}, error : {<<>>, <<-32001>>, <<NoCode>>}]]
      [] b = "rest" ->
           [status : {200, 204, 404, 500}, version : {<<>>, << <<1, 0>> >>, << <<0, 3>> >>},
            activated : {{}}, code : {NoCode, -32001}, payload : {<<>>, <<"Task">>, <<"malformed">>},
            reason : {<<>>}]
      [] b = "grpc" ->
           [status : {0, 4, 5, 12, 13, 14, 16}, trailer : {NoCode}, reason : {<<>>}, activated : {{}},
            payload : {<<"Task">>}]
=============================================================================
