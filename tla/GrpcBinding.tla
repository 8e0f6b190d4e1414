------------------------------ MODULE GrpcBinding ------------------------------
(***************************************************************************)
(* The gRPC binding: the request GrpcTransport sends for a call, what the  *)
(* handlers of GrpcServerTransport make of it before and after the         *)
(* dispatcher, and what the client makes of the status.  The method of a   *)
(* request is the handler gRPC calls; an answer is a status code, the      *)
(* a2a-protocol-code trailer and a message.                                *)
(***************************************************************************)
EXTENDS Wire

OK == 0
INVALID_ARGUMENT == 3
DEADLINE_EXCEEDED == 4
NOT_FOUND == 5
PERMISSION_DENIED == 7
FAILED_PRECONDITION == 9
UNIMPLEMENTED == 12
INTERNAL == 13
UNAVAILABLE == 14
UNAUTHENTICATED == 16

-----------------------------------------------------------------------------
(* The client. *)

RequiredFields(call) ==
    Check(/\ call.operation \in {"GetTask", "CancelTask"} => call.task # ""
          /\ call.operation \in {"GetPushConfig", "DeletePushConfig"} => call.config # "",
          Validation)

(* ListTasks narrows the size to the message's int32; other calls send the  *)
(* message the caller made.                                                 *)
BuildRequest(call) ==
    [operation |-> call.operation, task |-> call.task, config |-> call.config,
     size |-> CASE call.operation = "ListTasks" /\ call.size > 0 -> <<ToInt32(call.size)>>
                [] call.operation = "ListPushConfigs" -> <<call.size>>
                [] OTHER -> <<>>,
     token |-> call.token, history |-> IF call.operation = "GetTask" THEN call.history ELSE <<>>,
     filters |-> {}]

(* BuildContext, and the call of the stub. *)
SendRequest(call) ==
    LET headers == RequestHeaders(call)
    IN  FirstRefusal(<<RequiredFields(call), headers>>,
                     Ok([headers |-> headers.value, message |-> BuildRequest(call)]))

-----------------------------------------------------------------------------
(* The server. *)

RemoteProtocolStatusCode(error) ==
    CASE error.http_status = 401 -> UNAUTHENTICATED
      [] error.http_status = 403 -> PERMISSION_DENIED
      [] error.http_status \notin {401, 403} /\ error.protocol_code = -32001 -> NOT_FOUND
      [] error.http_status \notin {401, 403} /\ error.protocol_code \in {-32003, -32004} -> UNIMPLEMENTED
      [] OTHER -> FAILED_PRECONDITION

ToStatusCode(error) ==
    CASE error.code = "kValidation" -> INVALID_ARGUMENT
      [] error.code = "kUnsupportedVersion" -> UNIMPLEMENTED
      [] error.code = "kNetwork" -> UNAVAILABLE
      [] error.code = "kRemoteProtocol" -> RemoteProtocolStatusCode(error)
      [] OTHER -> INTERNAL

ErrorInfoReason(error) ==
    CASE error.protocol_code = -32001 -> "TASK_NOT_FOUND"
      [] error.protocol_code = -32002 -> "TASK_NOT_CANCELABLE"
      [] error.protocol_code = -32003 -> "PUSH_NOTIFICATION_NOT_SUPPORTED"
      [] error.protocol_code = -32004 -> "UNSUPPORTED_OPERATION"
      [] error.protocol_code = -32007 -> "EXTENDED_AGENT_CARD_NOT_CONFIGURED"
      [] error.protocol_code = -32008 -> "EXTENSION_SUPPORT_REQUIRED"
      [] OTHER ->
           CASE error.code = "kValidation" -> "VALIDATION_ERROR"
             [] error.code = "kUnsupportedVersion" -> "VERSION_NOT_SUPPORTED"
             [] error.code = "kNetwork" -> "NETWORK_ERROR"
             [] error.code = "kRemoteProtocol" -> "REMOTE_PROTOCOL_ERROR"
             [] error.code = "kSerialization" -> "SERIALIZATION_ERROR"
             [] OTHER -> "INTERNAL_ERROR"

Status(code, trailer, reason, activated, payload) ==
    [status |-> code, trailer |-> trailer, reason |-> reason, activated |-> activated,
     payload |-> payload]

ToGrpcStatus(error, activated) ==
    [ok |-> FALSE,
     response |-> Status(ToStatusCode(error), error.protocol_code, <<ErrorInfoReason(error)>>,
                         activated, <<>>)]

(* Mutant: the version is not validated. *)
ContextWithoutVersion(headers) == RequiredExtensionsValidator(headers)

BuildRequestContext(headers) ==
    FirstRefusal(<<VersionHeaderValidator(headers), RequiredExtensionsValidator(headers)>>, Ok(<<>>))

(* ListTasks rebuilds the dispatcher's request, checking its numbers. *)
ListTasksRequest(message) ==
    LET size == NormalizeListTasksPageSize(message.size)
    IN  FirstRefusal(<< size, Check(message.history = <<>> \/ message.history[1] >= 0, Validation) >>,
          Ok(Request("ListTasks", "", "", size.value, message.token, message.history,
                     message.filters)))

(* SubscribeToTask keeps only the task of its request. *)
DispatchRequestOf(message) ==
    IF message.operation = "ListTasks" THEN ListTasksRequest(message)
    ELSE Ok(Request(message.operation, message.task, message.config,
                    IF message.size = <<>> THEN 0 ELSE message.size[1], message.token,
                    IF message.operation = "SubscribeTask" THEN <<>> ELSE message.history, {}))

BeforeDispatch(request) ==
    LET context == BuildRequestContext(request.headers)
        dispatch == DispatchRequestOf(request.message)
    IN  IF ~context.ok THEN ToGrpcStatus(context, {})
        ELSE IF ~dispatch.ok THEN ToGrpcStatus(dispatch, RequiredExtensions)
        ELSE dispatch

(* A payload of another alternative is InternalStatus, without trailers; an  *)
(* Empty answer looks at none.                                              *)
AfterDispatch(request, dispatched, outcome) ==
    CASE ~outcome.ok -> ToGrpcStatus(outcome, RequiredExtensions).response
      [] outcome.ok /\ dispatched.operation = "DeletePushConfig" ->
           Status(OK, NoCode, <<>>, RequiredExtensions, <<"none">>)
      [] outcome.ok /\ dispatched.operation # "DeletePushConfig" /\ outcome.value = "mismatch" ->
           Status(INTERNAL, NoCode, <<>>, {}, <<>>)
      [] OTHER -> Status(OK, NoCode, <<>>, RequiredExtensions, <<outcome.value>>)

-----------------------------------------------------------------------------
(* The client, with a status. *)

BuildGrpcError(status) == RemoteProtocol(NoStatus, status)

Receive(call, response) ==
    IF response.status # OK THEN BuildGrpcError(response.status)
    ELSE Ok(IF response.payload = <<>> THEN "none" ELSE response.payload[1])
=============================================================================
