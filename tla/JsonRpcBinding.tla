---------------------------- MODULE JsonRpcBinding ----------------------------
(***************************************************************************)
(* The JSON-RPC binding: what JsonRpcTransport sends for a call, what      *)
(* JsonRpcServerTransport::Handle makes of a request before and after the  *)
(* dispatcher, and what the client makes of the answer.  A method name is  *)
(* <<operation, spelling>>; the arguments of params are one record for all *)
(* operations, whose shape tells how the JSON fails to be the message.     *)
(***************************************************************************)
EXTENDS Wire

kJsonRpcParseError == -32700
kJsonRpcInvalidRequest == -32600
kJsonRpcMethodNotFound == -32601
kJsonRpcInvalidParams == -32602
kJsonRpcInternalError == -32603
kJsonRpcServerErrorMin == -32099
kJsonRpcServerErrorMax == -32000

NullId == <<"null", 0>>

-----------------------------------------------------------------------------
(* The client: JsonRpcTransport's calls, InvokeForResultJson and            *)
(* SendJsonRpcRequest up to the requester.                                  *)

RequiredFields(call) ==
    Check(/\ call.operation \in {"GetTask", "CancelTask"} => call.task # ""
          /\ call.operation \in {"GetPushConfig", "DeletePushConfig"} => call.config # "",
          Validation)

(* BuildJsonRpcEnvelope of the request message, or of ListTasks' Struct. *)
BuildJsonRpcEnvelope(call, id) ==
    [json |-> TRUE, version |-> TRUE, id |-> <<"string", id>>,
     method |-> <<call.operation, "sdk">>, params |-> "object",
     args |-> [shape |-> "ok", task |-> call.task, config |-> call.config,
               size |-> IF call.size > 0 THEN <<call.size>> ELSE <<>>, token |-> call.token,
               history |-> IF call.operation = "GetTask" THEN call.history ELSE <<>>,
               filters |-> {}]]

SendJsonRpcRequest(call, id) ==
    LET headers == RequestHeaders(call)
    IN  FirstRefusal(<<RequiredFields(call), headers>>,
          Ok([method |-> "POST", path |-> "rpc", type |-> "json", headers |-> headers.value,
              body |-> BuildJsonRpcEnvelope(call, id)]))

-----------------------------------------------------------------------------
(* The server, before the dispatcher. *)

ErrorInfoReason(error) ==
    CASE error.protocol_code = -32001 -> "TASK_NOT_FOUND"
      [] error.protocol_code = -32002 -> "TASK_NOT_CANCELABLE"
      [] error.protocol_code = -32003 -> "PUSH_NOTIFICATION_NOT_SUPPORTED"
      [] error.protocol_code = -32004 -> "UNSUPPORTED_OPERATION"
      [] error.protocol_code = -32005 -> "CONTENT_TYPE_NOT_SUPPORTED"
      [] error.protocol_code = -32006 -> "INVALID_AGENT_RESPONSE"
      [] error.protocol_code = -32007 -> "EXTENDED_AGENT_CARD_NOT_CONFIGURED"
      [] error.protocol_code = -32008 -> "EXTENSION_SUPPORT_REQUIRED"
      [] error.protocol_code = -32009 -> "VERSION_NOT_SUPPORTED"
      [] OTHER ->
           CASE error.code = "kValidation" -> "INVALID_PARAMS"
             [] error.code = "kUnsupportedVersion" -> "VERSION_NOT_SUPPORTED"
             [] error.code = "kRemoteProtocol" -> "UNSUPPORTED_OPERATION"
             [] OTHER -> "INVALID_AGENT_RESPONSE"

JsonRpcCodeFromError(error) ==
    CASE error.code = "kValidation" -> kJsonRpcInvalidParams
      [] error.code = "kUnsupportedVersion" -> -32009
      [] error.code = "kRemoteProtocol" /\ error.protocol_code <= kJsonRpcServerErrorMax ->
           error.protocol_code
      [] OTHER -> kJsonRpcInternalError

ParseErrorCodeForRequestParsing(error) ==
    IF error.code = "kSerialization" THEN kJsonRpcParseError ELSE JsonRpcCodeFromError(error)

(* The envelope of an error carries an ErrorInfo for server errors. *)
BuildJsonRpcErrorEnvelope(code, id, error) ==
    [json |-> TRUE, version |-> TRUE, id |-> id, result |-> <<>>, error |-> <<code>>,
     reason |-> IF code \in kJsonRpcServerErrorMin..kJsonRpcServerErrorMax
                THEN <<ErrorInfoReason(error)>> ELSE <<>>]

(* Mutant: every error names the server's extensions. *)
ErrorResponseActivating(code, id, error, status, activated) ==
    [ok |-> FALSE,
     response |-> [status |-> status, version |-> << <<1, 0>> >>, activated |-> RequiredExtensions,
                   body |-> BuildJsonRpcErrorEnvelope(code, id, error)]]

BuildErrorResponse(code, id, error, status, activated) ==
    [ok |-> FALSE,
     response |-> [status |-> status, version |-> << <<1, 0>> >>, activated |-> activated,
                   body |-> BuildJsonRpcErrorEnvelope(code, id, error)]]

MethodToOperation(method) ==
    IF /\ method[1] \in UnaryOperations \cup StreamOperations
       /\ method[2] = "legacy" => method[1] \in {"SendMessage", "GetTask", "CancelTask", "ListTasks"}
    THEN <<method[1]>> ELSE <<>>

(* ParseListTasksPayload: the page size, then the other members' kinds. *)
ParseListTasksPayload(args) ==
    LET size == NormalizeListTasksPageSize(args.size)
    IN  FirstRefusal(
          << size, Check(args.shape # "malformed", Validation),
             Check(args.history = <<>> \/ args.history[1] >= 0, Validation) >>,
          Ok(Request("ListTasks", "", "", size.value, args.token, args.history, args.filters)))

(* The request of a method whose params are a protobuf message. *)
ParseProtoPayload(op, args) ==
    FirstRefusal(<< Check(args.shape # "malformed", Serialization) >>,
      Ok(Request(op, args.task, args.config, IF args.size = <<>> THEN 0 ELSE args.size[1],
                 args.token, args.history, {})))

ParseCreatePushConfigPayload(args) ==
    FirstRefusal(<< Check(args.shape # "notObject", Validation) >>,
                 ParseProtoPayload("CreatePushConfig", args))

BuildDispatchRequestFromMethod(method, args) ==
    LET op == MethodToOperation(method)
    IN  CASE op = <<>> -> RemoteProtocol(NoStatus, kJsonRpcMethodNotFound)
          [] op = <<"CreatePushConfig">> -> ParseCreatePushConfigPayload(args)
          [] op = <<"ListTasks">> -> ParseListTasksPayload(args)
          [] OTHER -> ParseProtoPayload(op[1], args)

ParseJsonRpcEnvelope(body) ==
    FirstRefusal(
      << Check(body.json, Serialization), Check(body.version, Validation),
         Check(body.id[1] \in {"string", "number", "null"}, Validation),
         Check(body.method # <<>>, Validation), Check(body.params # "other", Validation) >>,
      Ok(body.id))

NoArguments == [shape |-> "ok", task |-> "", config |-> "", size |-> <<>>, token |-> "",
                history |-> <<>>, filters |-> {}]

(* Handle up to the dispatcher: a DispatchRequest, or the answer. *)
BeforeDispatch(request) ==
    LET envelope == ParseJsonRpcEnvelope(request.body)
        version == VersionHeaderValidator(request.headers)
        extensions == RequiredExtensionsValidator(request.headers)
        parsed == BuildDispatchRequestFromMethod(request.body.method,
                    IF request.body.params = "absent" THEN NoArguments ELSE request.body.args)
        id == request.body.id
    IN  IF request.method # "POST" \/ request.path # "rpc"
          THEN BuildErrorResponse(kJsonRpcInvalidRequest, NullId, Internal, 200, {})
        ELSE IF request.type = "other"
          THEN BuildErrorResponse(JsonRpcCodeFromError(ContentTypeNotSupported), NullId,
                                  ContentTypeNotSupported, 200, {})
        ELSE IF ~envelope.ok
          THEN BuildErrorResponse(ParseErrorCodeForRequestParsing(envelope), NullId, envelope, 200, {})
        ELSE IF ~version.ok
          THEN BuildErrorResponse(JsonRpcCodeFromError(version), id, version, 200, {})
        ELSE IF ~extensions.ok
          THEN BuildErrorResponse(JsonRpcCodeFromError(extensions), id, extensions, 200, {})
        ELSE IF ~parsed.ok
          THEN BuildErrorResponse(ParseErrorCodeForRequestParsing(parsed), id, parsed, 200,
                                  RequiredExtensions)
        ELSE parsed

-----------------------------------------------------------------------------
(* The server, after the dispatcher: outcome is Ok of a payload, a payload   *)
(* of another alternative, one that does not serialise, or an error.        *)

(* Mutant: a failure to authenticate answered like any other. *)
HttpStatusAlwaysOk(error) == 200

HttpStatusFromError(error) == IF error.http_status \in {401, 403} THEN error.http_status ELSE 200

(* Mutant: the payload's alternative is not looked at. *)
SerializeUnchecked(op, outcome) == outcome

SerializeDispatchResult(op, outcome) ==
    CASE ~outcome.ok -> outcome
      [] op = "DeletePushConfig" -> Ok("none")
      [] outcome.value = "mismatch" -> InvalidAgentResponse
      [] outcome.value = "unserialisable" -> Serialization
      [] OTHER -> outcome

BuildSuccessEnvelopeFromJson(id, value) ==
    [json |-> TRUE, version |-> TRUE, id |-> id, result |-> <<value>>, error |-> <<>>, reason |-> <<>>]

BuildSuccessResponse(id, value) ==
    [status |-> 200, version |-> << <<1, 0>> >>, activated |-> RequiredExtensions,
     body |-> BuildSuccessEnvelopeFromJson(id, value)]

AfterDispatch(request, dispatched, outcome) ==
    LET result == SerializeDispatchResult(dispatched.operation, outcome)
    IN  IF result.ok THEN BuildSuccessResponse(request.body.id, result.value)
        ELSE BuildErrorResponse(JsonRpcCodeFromError(result), request.body.id, result,
                                HttpStatusFromError(result), RequiredExtensions).response

-----------------------------------------------------------------------------
(* The client, with an answer. *)

BuildJsonRpcEnvelopeError(response) == RemoteProtocol(response.status, NoCode)

BuildRemoteJsonRpcError(response) == RemoteProtocol(response.status, response.body.error[1])

ParseResponseResult(response, expected_id) ==
    LET body == response.body IN
    FirstRefusal(
      << Check(body.json, WithHttpStatus(Serialization, response.status)),
         Check(body.version, BuildJsonRpcEnvelopeError(response)),
         Check(body.id[1] = "string", BuildJsonRpcEnvelopeError(response)),
         Check(body.id = <<"string", expected_id>>, BuildJsonRpcEnvelopeError(response)),
         Check(body.error = <<>> \/ body.result = <<>>, BuildJsonRpcEnvelopeError(response)),
         IF body.error = <<>> THEN Ok(<<>>) ELSE BuildRemoteJsonRpcError(response),
         Check(body.result # <<>>, BuildJsonRpcEnvelopeError(response)) >>,
      Ok(body.result))

(* ParseResultMessage, or ParseListTasksResult. *)
ParseResult(call, response) ==
    Check(response.body.result # <<"malformed">>,
          WithHttpStatus(Serialization, IF call.operation = "ListTasks" THEN response.status ELSE 200))

(* InvokeForResultJson after the requester. *)
Receive(call, id, response) ==
    FirstRefusal(
      << ValidateResponseVersion(response.version), ParseResponseResult(response, id),
         Check(response.status \in 200..299, BuildJsonRpcEnvelopeError(response)),
         ParseResult(call, response) >>,
      Ok(IF response.body.result = <<>> THEN "none" ELSE response.body.result[1]))
=============================================================================
