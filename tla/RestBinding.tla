------------------------------ MODULE RestBinding ------------------------------
(***************************************************************************)
(* The HTTP+JSON binding: what HttpJsonTransport sends for a call, what    *)
(* RestServerTransport and RestTransport make of a request before and      *)
(* after the dispatcher, and what the client makes of the answer.  A       *)
(* target is the record of its parts: base tells that it starts with       *)
(* rest_api_base_path, root is the collection or "other", resource that a  *)
(* "/" and a task follow, action the suffix of the task, push what follows *)
(* "/pushNotificationConfigs", query that every escape of it decodes.      *)
(***************************************************************************)
EXTENDS Wire

Target(root, resource, task, action, push, config) ==
    [base |-> TRUE, root |-> root, resource |-> resource, task |-> task, action |-> action,
     push |-> push, config |-> config, query |-> TRUE]
Collection(root) == Target(root, FALSE, "", "", "none", "")
TaskTarget(task, action) == Target("tasks", TRUE, task, action, "none", "")
PushTarget(task, push, config) == Target("tasks", TRUE, task, "", push, config)

-----------------------------------------------------------------------------
(* The client: the method, the endpoint and the query of every call. *)

RequiredFields(call) ==
    Check(/\ UsesTaskId(call.operation) => call.task # ""
          /\ call.operation \in {"GetPushConfig", "DeletePushConfig"} => call.config # "",
          Validation)

HttpMethod(op) ==
    CASE op \in {"SendMessage", "CancelTask", "CreatePushConfig"} -> "POST"
      [] op = "DeletePushConfig" -> "DELETE"
      [] OTHER -> "GET"

Endpoint(call) ==
    CASE call.operation = "SendMessage" -> Collection("message:send")
      [] call.operation = "ListTasks" -> Collection("tasks")
      [] call.operation = "GetTask" -> TaskTarget(call.task, "")
      [] call.operation = "CancelTask" -> TaskTarget(call.task, "cancel")
      [] call.operation \in {"CreatePushConfig", "ListPushConfigs"} ->
           PushTarget(call.task, "collection", "")
      [] OTHER -> PushTarget(call.task, "item", call.config)

SendRequest(call) ==
    LET headers == RequestHeaders(call)
    IN  FirstRefusal(<<RequiredFields(call), headers>>,
          Ok([method |-> HttpMethod(call.operation), target |-> Endpoint(call), type |-> "json",
              headers |-> headers.value, shape |-> "ok", config |-> call.config,
              size |-> IF UsesPage(call.operation) /\ call.size > 0 THEN <<call.size>> ELSE <<>>,
              token |-> IF UsesPage(call.operation) THEN call.token ELSE "",
              history |-> IF call.operation = "GetTask" THEN call.history ELSE <<>>,
              filters |-> {}]))

-----------------------------------------------------------------------------
(* RestTransport: the paths and the queries of the routes. *)

(* Routes(), the table the server publishes. *)
kRoutes ==
    {<<"POST", "/message:send", "SendMessage">>,
     <<"POST", "/message:stream", "SendStreamingMessage">>,
     <<"GET", "/tasks/{id}", "GetTask">>,
     <<"GET", "/tasks", "ListTasks">>,
     <<"POST", "/tasks/{id}:cancel", "CancelTask">>,
     <<"GET", "/tasks/{id}:subscribe", "SubscribeTask">>,
     <<"POST", "/tasks/{id}:subscribe", "SubscribeTask">>,
     <<"POST", "/tasks/{task_id}/pushNotificationConfigs", "CreatePushConfig">>,
     <<"GET", "/tasks/{task_id}/pushNotificationConfigs/{id}", "GetPushConfig">>,
     <<"GET", "/tasks/{task_id}/pushNotificationConfigs", "ListPushConfigs">>,
     <<"DELETE", "/tasks/{task_id}/pushNotificationConfigs/{id}", "DeletePushConfig">>}

ParseTaskIdFromPath(target, for_cancel) ==
    IF /\ target.root = "tasks" /\ target.resource
       /\ target.push = "none"
       /\ target.task # ""
       /\ IF for_cancel THEN target.action = "cancel" ELSE target.action = ""
    THEN <<target.task>> ELSE <<>>

ParseTaskIdFromActionPath(target) ==
    IF /\ target.root = "tasks" /\ target.resource
       /\ target.push = "none"
       /\ target.task # ""
       /\ target.action = "subscribe"
    THEN <<target.task>> ELSE <<>>

ParsePushConfigPath(target) ==
    IF /\ target.root = "tasks" /\ target.resource
       /\ target.push # "none"
       /\ target.task # ""
       /\ target.push = "item" => target.config # ""
    THEN <<target.push>> ELSE <<>>

(* The digits of a query value; NotNumeric when one is no digit. *)
ParsePageSize(raw) ==
    LET parsed == raw % Modulus64
    IN  IF raw = NotNumeric \/ parsed > (Modulus32 \div 2) - 1 THEN NotNumeric ELSE parsed

(* Mutant: the query is not read. *)
ParseQueryDropped(raw) == <<>>

ParseQuery(raw) == IF raw = <<>> THEN <<>> ELSE <<ParsePageSize(raw[1])>>

ExpectsJsonRequestBody(request) ==
    /\ request.method = "POST"
    /\ \/ request.target.root \in {"message:send", "message:stream"}
       \/ ParseTaskIdFromPath(request.target, TRUE) # <<>>
       \/ ParsePushConfigPath(request.target) = <<"collection">>

BuildPushConfigDispatchRequest(request) ==
    LET path == ParsePushConfigPath(request.target)
        size == ParseQuery(request.size)
        Build(op, config) == << Request(op, request.target.task, config,
                                        IF size = <<>> THEN 0 ELSE size[1], request.token, <<>>, {}) >>
    IN  CASE request.method = "POST" /\ path = <<"collection">> /\ request.shape = "ok" ->
               Build("CreatePushConfig", request.config)
          [] request.method = "GET" /\ path = <<"collection">> -> Build("ListPushConfigs", "")
          [] request.method = "GET" /\ path = <<"item">> ->
               Build("GetPushConfig", request.target.config)
          [] request.method = "DELETE" /\ path = <<"item">> ->
               Build("DeletePushConfig", request.target.config)
          [] OTHER -> <<>>

BuildMessageDispatchRequest(request) ==
    IF /\ request.method = "POST" /\ request.shape = "ok"
       /\ request.target.root \in {"message:send", "message:stream"}
    THEN << Request(IF request.target.root = "message:stream" THEN "SendStreamingMessage"
                    ELSE "SendMessage", "", "", 0, "", <<>>, {}) >>
    ELSE <<>>

(* BuildListTasksDispatchRequest reads no status and no statusTimestampAfter. *)
BuildListTasksDispatchRequest(request) ==
    LET size == ParseQuery(request.size)
        normalized == NormalizeListTasksPageSize(size)
        history == ParseQuery(request.history)
    IN  IF /\ request.method = "GET"
           /\ request.target.root = "tasks" /\ ~request.target.resource
           /\ normalized.ok
           /\ history # <<NotNumeric>>
        THEN << Request("ListTasks", "", "", normalized.value, request.token, history,
                        request.filters \cap {"contextId", "includeArtifacts"}) >>
        ELSE <<>>

BuildTaskDispatchRequest(request, op, task) ==
    LET history == ParseQuery(request.history)
    IN  IF task # <<>> /\ (op # "CancelTask" => history # <<NotNumeric>>)
        THEN << Request(op, task[1], "", 0, "", history, {}) >> ELSE <<>>

BuildGetTaskDispatchRequest(request) ==
    IF request.method # "GET" THEN <<>>
    ELSE BuildTaskDispatchRequest(request, "GetTask", ParseTaskIdFromPath(request.target, FALSE))

BuildCancelTaskDispatchRequest(request) ==
    IF request.method # "POST" THEN <<>>
    ELSE BuildTaskDispatchRequest(request, "CancelTask", ParseTaskIdFromPath(request.target, TRUE))

BuildDispatchRequest(request) ==
    LET push == BuildPushConfigDispatchRequest(request)
        message == BuildMessageDispatchRequest(request)
        list == BuildListTasksDispatchRequest(request)
        get == BuildGetTaskDispatchRequest(request)
    IN  IF push # <<>> THEN push ELSE IF message # <<>> THEN message
        ELSE IF list # <<>> THEN list ELSE IF get # <<>> THEN get
        ELSE BuildCancelTaskDispatchRequest(request)

-----------------------------------------------------------------------------
(* Errors of RestTransport and of RestServerTransport. *)

ToHttpStatus(error) ==
    CASE error.http_status # NoStatus -> error.http_status
      [] error.code \in {"kValidation", "kUnsupportedVersion"} /\ error.http_status = NoStatus -> 400
      [] error.code = "kNetwork" /\ error.http_status = NoStatus -> 503
      [] error.code = "kRemoteProtocol" /\ error.http_status = NoStatus -> 502
      [] OTHER -> 500

ErrorInfoReason(error) ==
    CASE error.protocol_code = -32001 -> "TASK_NOT_FOUND"
      [] error.protocol_code = -32002 -> "TASK_NOT_CANCELABLE"
      [] error.protocol_code = -32003 -> "PUSH_NOTIFICATION_NOT_SUPPORTED"
      [] error.protocol_code = -32004 -> "UNSUPPORTED_OPERATION"
      [] error.protocol_code = -32005 -> "CONTENT_TYPE_NOT_SUPPORTED"
      [] OTHER ->
           CASE error.code = "kUnsupportedVersion" -> "VERSION_NOT_SUPPORTED"
             [] error.code \in {"kRemoteProtocol", "kValidation"} -> "UNSUPPORTED_OPERATION"
             [] OTHER -> "INVALID_AGENT_RESPONSE"

(* The body nests its code under "error": no top-level string for the client. *)
BuildJsonErrorResponse(status, reason, activated) ==
    [ok |-> FALSE,
     response |-> [status |-> status, version |-> << <<1, 0>> >>, activated |-> activated,
                   code |-> NoCode, payload |-> <<>>, reason |-> <<reason>>]]

BuildErrorResponse(error) ==
    BuildJsonErrorResponse(ToHttpStatus(error), ErrorInfoReason(error), RequiredExtensions)

NoRoute == WithHttpStatus(Validation, 404)

(* RestTransport::Handle up to the dispatcher; a subscription comes first. *)
Route(request) ==
    LET subscribe == ParseTaskIdFromActionPath(request.target)
        dispatch == BuildDispatchRequest(request)
        stream == BuildTaskDispatchRequest(request, "SubscribeTask", subscribe)
    IN  IF request.method \in {"GET", "POST"} /\ subscribe # <<>>
          THEN IF stream = <<>> THEN BuildErrorResponse(NoRoute) ELSE Ok(stream[1])
        ELSE IF ExpectsJsonRequestBody(request) /\ request.type = "other"
          THEN BuildErrorResponse(ContentTypeNotSupported)
        ELSE IF dispatch = <<>>
          THEN BuildErrorResponse(IF /\ request.method = "GET"
                                     /\ request.target.root = "tasks" /\ ~request.target.resource
                                  THEN Validation ELSE NoRoute)
        ELSE Ok(dispatch[1])

(* ParseQueryString refuses an escape that does not decode. *)
ParseQueryString(target) == Check(target.query, Validation)

(* BuildRestRequest: the target without the base path, and its query. *)
BuildRestRequest(request) ==
    FirstRefusal(<< Check(request.target.base, Validation), ParseQueryString(request.target) >>, Ok(request))

(* RestServerTransport::Handle for a target that is no agent card. *)
BeforeDispatch(request) ==
    LET version == VersionHeaderValidator(request.headers)
        extensions == RequiredExtensionsValidator(request.headers)
    IN  IF ~version.ok THEN BuildJsonErrorResponse(400, "VERSION_NOT_SUPPORTED", {})
        ELSE IF ~extensions.ok THEN BuildJsonErrorResponse(400, "EXTENSION_SUPPORT_REQUIRED", {})
        ELSE IF ~BuildRestRequest(request).ok
          THEN BuildJsonErrorResponse(404, "UNSUPPORTED_OPERATION", RequiredExtensions)
        ELSE Route(request)

(* SerializeDispatchResponse, or the dispatcher's error. *)
SerializeDispatchResponse(op, outcome) ==
    CASE ~outcome.ok -> outcome
      [] op = "DeletePushConfig" -> Ok("none")
      [] outcome.value = "mismatch" -> Internal
      [] outcome.value = "unserialisable" -> Serialization
      [] OTHER -> outcome

AfterDispatch(request, dispatched, outcome) ==
    LET result == SerializeDispatchResponse(dispatched.operation, outcome)
    IN  IF result.ok
        THEN [status |-> 200, version |-> << <<1, 0>> >>, activated |-> RequiredExtensions,
              code |-> NoCode, payload |-> <<result.value>>, reason |-> <<>>]
        ELSE BuildErrorResponse(result).response

-----------------------------------------------------------------------------
(* The client, with an answer. *)

BuildHttpError(response) == RemoteProtocol(response.status, response.code)

ParseBodyOrMapError(call, response) ==
    Check(/\ response.payload # <<"malformed">>
          /\ response.payload = <<>> => call.operation = "DeletePushConfig",
          WithHttpStatus(Serialization, response.status))

Receive(call, response) ==
    FirstRefusal(
      << ValidateResponseVersion(response.version),
         Check(response.status \in 200..299, BuildHttpError(response)),
         ParseBodyOrMapError(call, response) >>,
      Ok(IF response.payload = <<>> THEN "none" ELSE response.payload[1]))
=============================================================================
