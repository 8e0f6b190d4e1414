------------------------------- MODULE UnaryCall -------------------------------
(***************************************************************************)
(* A unary call of the SDK end to end: a client transport encodes it, the  *)
(* server transport of the same binding refuses or dispatches it, security *)
(* and an executor decide, the answer is encoded and the client decodes    *)
(* it.  The request and the answer may be lost (the requester's timeout,   *)
(* gRPC's deadline), the request may come from another implementation, and *)
(* the answer may.  Agent cards and the events of the two streaming        *)
(* operations are not part of this module.                                 *)
(***************************************************************************)
EXTENDS Wire

CONSTANTS
    Bindings,           \* of {"jsonrpc", "rest", "grpc"}
    Calls,              \* the calls a program makes through the SDK's client
    RawRequests(_),     \* the requests of other clients, per binding
    ForeignAnswers(_, _) \* the answers of other servers, per binding and call

JsonRpc == INSTANCE JsonRpcBinding
Rest == INSTANCE RestBinding
Grpc == INSTANCE GrpcBinding

VARIABLES
    phase,          \* "idle", "sent", "dispatched", "answered" or "returned"
    binding,
    call,           \* the caller's arguments, <<>> when the client is another
    wire,           \* the request on the wire
    dispatched,     \* the DispatchRequest, when there was one
    outcome,        \* what the dispatcher returned
    answer,         \* the response on the wire
    foreign,        \* the answer is another server's
    result          \* what the call returned

vars == <<phase, binding, call, wire, dispatched, outcome, answer, foreign, result>>

RequestId == 1

-----------------------------------------------------------------------------
(* The transports of a binding. *)

Encode(b, c) ==
    CASE b = "jsonrpc" -> JsonRpc!SendJsonRpcRequest(c, RequestId)
      [] b = "rest" -> Rest!SendRequest(c)
      [] b = "grpc" -> Grpc!SendRequest(c)

BeforeDispatch(b, w) ==
    CASE b = "jsonrpc" -> JsonRpc!BeforeDispatch(w)
      [] b = "rest" -> Rest!BeforeDispatch(w)
      [] b = "grpc" -> Grpc!BeforeDispatch(w)

AfterDispatch(b, w, d, o) ==
    CASE b = "jsonrpc" -> JsonRpc!AfterDispatch(w, d, o)
      [] b = "rest" -> Rest!AfterDispatch(w, d, o)
      [] b = "grpc" -> Grpc!AfterDispatch(w, d, o)

Decode(b, c, a) ==
    CASE b = "jsonrpc" -> JsonRpc!Receive(c, RequestId, a)
      [] b = "rest" -> Rest!Receive(c, a)
      [] b = "grpc" -> Grpc!Receive(c, a)

(* No answer: the requester's error, or a status of the gRPC library. *)
NoAnswer(b) ==
    IF b = "grpc" THEN {Grpc!BuildGrpcError(Grpc!DEADLINE_EXCEEDED), Grpc!BuildGrpcError(Grpc!UNAVAILABLE)}
    ELSE {Network}

-----------------------------------------------------------------------------
Idle ==
    /\ phase = "idle" /\ binding = "none" /\ call = <<>> /\ wire = <<>> /\ dispatched = <<>>
    /\ outcome = <<>> /\ answer = <<>> /\ foreign = FALSE /\ result = <<>>

Init == Idle

(* A call of the SDK: the client refuses it or puts the request on the wire. *)
Call(b, c) ==
    /\ phase = "idle"
    /\ LET encoded == Encode(b, c)
       IN  IF encoded.ok
           THEN phase' = "sent" /\ wire' = <<encoded.value>> /\ UNCHANGED result
           ELSE phase' = "returned" /\ result' = <<encoded>> /\ UNCHANGED wire
    /\ binding' = b /\ call' = <<c>>
    /\ UNCHANGED <<dispatched, outcome, answer, foreign>>

(* A request of another client. *)
RawRequest(b, w) ==
    /\ phase = "idle"
    /\ phase' = "sent" /\ binding' = b /\ wire' = <<w>>
    /\ UNCHANGED <<call, dispatched, outcome, answer, foreign, result>>

(* Handle up to the dispatcher. *)
Handle ==
    /\ phase = "sent"
    /\ LET handled == BeforeDispatch(binding, wire[1])
       IN  IF handled.ok
           THEN phase' = "dispatched" /\ dispatched' = <<handled.value>> /\ UNCHANGED answer
           ELSE phase' = "answered" /\ answer' = <<handled.response>> /\ UNCHANGED dispatched
    /\ UNCHANGED <<binding, call, wire, outcome, foreign, result>>

(* Dispatch: security first, then the executor, which may answer with any   *)
(* error, with its payload, with another alternative, or with a payload     *)
(* that has no JSON form.  Then the rest of Handle.                         *)
Execute(o) ==
    /\ phase = "dispatched"
    /\ LET authenticated == Authenticate(wire[1].headers)
           decided == IF authenticated.ok THEN o ELSE authenticated
       IN  /\ outcome' = <<decided>>
           /\ answer' = <<AfterDispatch(binding, wire[1], dispatched[1], decided)>>
    /\ phase' = "answered"
    /\ UNCHANGED <<binding, call, wire, dispatched, foreign, result>>

Outcomes == ExecutorErrors \cup {Ok("mismatch"), Ok("unserialisable")}
            \cup (IF dispatched = <<>> THEN {} ELSE {Ok(PayloadType(dispatched[1].operation))})

(* Another server answers the SDK's request. *)
ForeignServer(a) ==
    /\ phase = "sent" /\ call # <<>>
    /\ phase' = "answered" /\ answer' = <<a>> /\ foreign' = TRUE
    /\ UNCHANGED <<binding, call, wire, dispatched, outcome, result>>

(* The request or the answer does not arrive: the client gives up. *)
GiveUp(e) ==
    /\ phase \in {"sent", "dispatched", "answered"} /\ call # <<>>
    /\ phase' = "returned" /\ result' = <<e>> /\ answer' = <<>>
    /\ UNCHANGED <<binding, call, wire, dispatched, outcome, foreign>>

Receive ==
    /\ phase = "answered" /\ call # <<>>
    /\ phase' = "returned" /\ result' = <<Decode(binding, call[1], answer[1])>>
    /\ UNCHANGED <<binding, call, wire, dispatched, outcome, answer, foreign>>

(* The next call. *)
Finish ==
    /\ phase = "returned" \/ (phase = "answered" /\ call = <<>>)
    /\ phase' = "idle" /\ binding' = "none" /\ call' = <<>> /\ wire' = <<>> /\ dispatched' = <<>>
    /\ outcome' = <<>> /\ answer' = <<>> /\ foreign' = FALSE /\ result' = <<>>

Next ==
    \/ \E b \in Bindings : \E c \in Calls : Call(b, c)
    \/ \E b \in Bindings : \E w \in RawRequests(b) : RawRequest(b, w)
    \/ Handle
    \/ \E o \in Outcomes : Execute(o)
    \/ \E a \in ForeignAnswers(binding, call) : ForeignServer(a)
    \/ \E e \in NoAnswer(binding) : GiveUp(e)
    \/ Receive
    \/ Finish

Spec == Init /\ [][Next]_vars

-----------------------------------------------------------------------------
TypeOK ==
    /\ phase \in {"idle", "sent", "dispatched", "answered", "returned"}
    /\ binding \in Bindings \cup {"none"}
    /\ \A v \in {call, wire, dispatched, outcome, answer, result} : Len(v) <= 1
    /\ foreign \in BOOLEAN
    /\ answer # <<>> => answer[1].status \in IF binding = "grpc" THEN 0..16 ELSE 100..599

(* What each binding prescribes for an error: a JSON-RPC code in an HTTP    *)
(* 200 (the status for a failure to authenticate), an HTTP status, a gRPC   *)
(* status.                                                                  *)
Prescribed(error) ==
    CASE error = Unauthenticated -> [rpc |-> -32603, http |-> 401, grpc |-> 16]
      [] error = PermissionDenied -> [rpc |-> -32603, http |-> 403, grpc |-> 7]
      [] error = TaskNotFound -> [rpc |-> -32001, http |-> 404, grpc |-> 5]
      [] error = TaskNotCancelable -> [rpc |-> -32002, http |-> 409, grpc |-> 9]
      [] error = PushNotificationNotSupported -> [rpc |-> -32003, http |-> 400, grpc |-> 12]
      [] error = UnsupportedOperation -> [rpc |-> -32004, http |-> 400, grpc |-> 12]
      [] error = InvalidAgentResponse -> [rpc |-> -32006, http |-> 502, grpc |-> 9]
      [] error = ExtendedAgentCardNotConfigured -> [rpc |-> -32007, http |-> 400, grpc |-> 9]
      [] error = ExtensionSupportRequired -> [rpc |-> -32008, http |-> 400, grpc |-> 9]
      [] error = VersionNotSupported -> [rpc |-> -32009, http |-> 400, grpc |-> 12]
      [] error = Validation -> [rpc |-> -32602, http |-> 400, grpc |-> 3]
      [] error = Network -> [rpc |-> -32603, http |-> 503, grpc |-> 14]
      [] error \in {Internal, Serialization} -> [rpc |-> -32603, http |-> 500, grpc |-> 13]

Reports(b, observed, error) ==
    /\ ~observed.ok /\ observed.code = "kRemoteProtocol"
    /\ CASE b = "jsonrpc" -> /\ observed.protocol_code = Prescribed(error).rpc
                             /\ observed.http_status = IF error.http_status \in {401, 403}
                                                       THEN error.http_status ELSE 200
         [] b = "rest" -> observed.http_status = Prescribed(error).http
         [] b = "grpc" -> observed.protocol_code = Prescribed(error).grpc

Delivered == phase = "returned" /\ call # <<>> /\ ~foreign /\ answer # <<>>

(* An error of the server's application reaches the caller as its binding   *)
(* prescribes it, whatever the operation: the three error tables of the     *)
(* servers and the three decoders of the clients compose to what            *)
(* shared_binding_test.cpp expects for the errors it tries.                 *)
PrescribedErrors ==
    Delivered /\ outcome # <<>> =>
      (~outcome[1].ok => Reports(binding, result[1], outcome[1]))

(* A request without a version the server speaks, or without the extensions *)
(* it requires, is never dispatched, and an SDK caller sees the code its     *)
(* binding prescribes (VER-SERVER-002, VER-SERVER-003).                      *)
SpeaksVersion(headers) ==
    headers.version # <<>> /\ Len(headers.version[1]) \in {2, 3} /\ SubSeq(headers.version[1], 1, 2) = <<1, 0>>
Supports(headers) ==
    RequiredExtensions = {} \/ (/\ headers.extensions # <<>>
                                /\ RequiredExtensions \subseteq headers.extensions[1])
Acceptable(headers) ==
    /\ SpeaksVersion(headers) /\ Supports(headers)
    /\ headers.extensions # <<>> => InvalidToken \notin headers.extensions[1]
RefusedUndispatched ==
    wire # <<>> /\ ~Acceptable(wire[1].headers) =>
      /\ dispatched = <<>>
      /\ Delivered => Reports(binding, result[1],
                        IF ~SpeaksVersion(wire[1].headers) THEN VersionNotSupported
                        ELSE IF Supports(wire[1].headers) THEN Validation
                        ELSE ExtensionSupportRequired)

(* What the executor is asked is what the caller asked, on every binding:   *)
(* encoding, routing and parsing lose no id, size, token or history, and an *)
(* omitted page size is the default.                                        *)
DispatchedAsCalled ==
    call # <<>> /\ dispatched # <<>> =>
      dispatched[1] =
        Request(call[1].operation, call[1].task, call[1].config,
                IF call[1].operation = "ListTasks" /\ call[1].size = 0
                THEN kDefaultListTasksPageSize ELSE call[1].size,
                call[1].token, IF call[1].operation = "GetTask" THEN call[1].history ELSE <<>>, {})

(* A call whose answer arrives succeeds exactly when the executor succeeded *)
(* with the payload its operation has; another server's answer makes a call *)
(* succeed only when it answers this request, in a version the client       *)
(* speaks, with a result and no error.                                      *)
SuccessMeansSuccess ==
    phase = "returned" /\ call # <<>> /\ answer # <<>> =>
      IF foreign
      THEN result[1].ok =>
             CASE binding = "jsonrpc" ->
                    /\ answer[1].body.id = <<"string", RequestId>> /\ answer[1].body.error = <<>>
                    /\ answer[1].body.result = <<"Task">> /\ answer[1].status = 200
                    /\ answer[1].version # << <<0, 3>> >>
               [] binding = "rest" ->
                    /\ answer[1].payload = <<"Task">> /\ answer[1].status \in {200, 204}
                    /\ answer[1].version # << <<0, 3>> >>
               [] binding = "grpc" -> answer[1].status = 0
      ELSE result[1].ok <=>
             /\ outcome # <<>> /\ outcome[1].ok
             /\ \/ call[1].operation = "DeletePushConfig"
                \/ outcome[1].value = PayloadType(call[1].operation)
                \/ outcome[1].value = "unserialisable" /\ binding = "grpc"

(* The errors of the protocol that all three servers name carry the same    *)
(* ErrorInfo reason on every binding.                                       *)
NamedErrors == {TaskNotFound, TaskNotCancelable, PushNotificationNotSupported, UnsupportedOperation}
NameOf(error) ==
    CASE error = TaskNotFound -> "TASK_NOT_FOUND"
      [] error = TaskNotCancelable -> "TASK_NOT_CANCELABLE"
      [] error = PushNotificationNotSupported -> "PUSH_NOTIFICATION_NOT_SUPPORTED"
      [] error = UnsupportedOperation -> "UNSUPPORTED_OPERATION"
AnswerReason == IF binding = "jsonrpc" THEN answer[1].body.reason ELSE answer[1].reason
SameReason ==
    phase = "answered" /\ outcome # <<>> /\ outcome[1] \in NamedErrors =>
      AnswerReason = <<NameOf(outcome[1])>>

(* An answer names extensions as activated only to a client that asked for  *)
(* them in a version the server speaks.                                     *)
ActivatedWhenAsked ==
    phase = "answered" /\ ~foreign /\ answer[1].activated # {} =>
      /\ wire[1].headers.extensions # <<>>
      /\ answer[1].activated \subseteq wire[1].headers.extensions[1]
      /\ SpeaksVersion(wire[1].headers)

(* Routes() is the truth about RestTransport::Handle: a request is          *)
(* dispatched only as the operation the table gives its method and path,    *)
(* and one that the table matches is refused only for its content type, its *)
(* body or its query.                                                       *)
TaskPattern(target) ==
    CASE target.push = "collection" -> "/tasks/{task_id}/pushNotificationConfigs"
      [] target.push = "item" /\ target.config # "" -> "/tasks/{task_id}/pushNotificationConfigs/{id}"
      [] target.push = "none" /\ target.action = "" -> "/tasks/{id}"
      [] target.push = "none" /\ target.action = "cancel" -> "/tasks/{id}:cancel"
      [] target.push = "none" /\ target.action = "subscribe" -> "/tasks/{id}:subscribe"
      [] OTHER -> "none"
Pattern(target) ==
    IF ~target.base THEN "none"
    ELSE IF target.root = "message:send" THEN "/message:send"
    ELSE IF target.root = "message:stream" THEN "/message:stream"
    ELSE IF target.root # "tasks" THEN "none"
    ELSE IF ~target.resource THEN "/tasks"
    ELSE IF target.task = "" THEN "none" ELSE TaskPattern(target)

RoutesTrue ==
    binding = "rest" /\ phase \in {"dispatched", "answered"} /\ ~foreign =>
      LET routes == {r \in Rest!kRoutes : r[1] = wire[1].method /\ r[2] = Pattern(wire[1].target)}
      IN  IF dispatched # <<>> THEN \E r \in routes : r[3] = dispatched[1].operation
          ELSE routes # {} => \/ ~Acceptable(wire[1].headers)
                              \/ wire[1].type = "other" \/ wire[1].shape = "malformed"
                              \/ ~wire[1].target.query
                              \/ NotNumeric \in {wire[1].size[i] : i \in DOMAIN wire[1].size}
                                                \cup {wire[1].history[i] : i \in DOMAIN wire[1].history}
                              \/ \E n \in {wire[1].size[i] : i \in DOMAIN wire[1].size} : n \notin 1..100

(* An explicit page size of a ListTasks request is dispatched as it was     *)
(* asked and only when it is between 1 and 100.                             *)
AskedSize ==
    IF call # <<>> THEN IF call[1].size = 0 THEN <<>> ELSE <<call[1].size>>
    ELSE CASE binding = "jsonrpc" -> wire[1].body.args.size
           [] binding = "rest" -> wire[1].size
           [] binding = "grpc" -> wire[1].message.size
ExplicitSizesChecked ==
    dispatched # <<>> =>
      (dispatched[1].operation = "ListTasks" =>
         IF AskedSize = <<>> THEN dispatched[1].size = 50
         ELSE AskedSize[1] \in 1..100 /\ dispatched[1].size = AskedSize[1])

-----------------------------------------------------------------------------
(* What the runs check, of the three bindings. *)

(* Every error has the status, code and reason its binding prescribes for   *)
(* it, and a request in a version the server does not speak, or without the *)
(* extensions it requires, is refused before it is dispatched.              *)
ErrorsPrescribed == PrescribedErrors /\ RefusedUndispatched /\ SameReason


(* A call succeeds exactly when its answer is a success, and extensions are *)
(* named as activated only to a client that asked for them.                 *)
AnswersArrive == SuccessMeansSuccess /\ ActivatedWhenAsked
=============================================================================
