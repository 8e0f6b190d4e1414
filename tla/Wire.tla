--------------------------------- MODULE Wire ---------------------------------
(***************************************************************************)
(* What the three bindings share: core::Error and the errors the protocol  *)
(* prescribes, protocol versions, the extensions a server requires, the    *)
(* headers of a request, and the size of a page of tasks.  An optional     *)
(* value is a sequence of at most one element.  A protocol code, text in   *)
(* the code, is the integer it spells; NoCode stands for no code and       *)
(* VersionText for text that spells no integer.                            *)
(***************************************************************************)
EXTENDS Integers, Sequences, FiniteSets

CONSTANTS
    RequiredExtensions,     \* options.required_extensions of the server
    Modulus32,              \* 2^32, scaled down: width of an int32_t
    Modulus64               \* 2^64, scaled down: width of a size_t

ASSUME WidthsFit == /\ Modulus32 \in Nat /\ Modulus64 \in Nat
                    /\ Modulus32 % 2 = 0 /\ 200 < Modulus32 /\ Modulus32 < Modulus64

kMaxListTasksPageSize == 100
kDefaultListTasksPageSize == 50

NoCode == 0
NoStatus == 0
VersionText == 1000

Ok(v) == [ok |-> TRUE, value |-> v]
Error(code, http_status, protocol_code) ==
    [ok |-> FALSE, code |-> code, http_status |-> http_status, protocol_code |-> protocol_code]

Validation == Error("kValidation", NoStatus, NoCode)
Network == Error("kNetwork", NoStatus, NoCode)
Serialization == Error("kSerialization", NoStatus, NoCode)
Internal == Error("kInternal", NoStatus, NoCode)
WithHttpStatus(error, status) == [error EXCEPT !.http_status = status]

RemoteProtocol(status, code) == Error("kRemoteProtocol", status, code)
Unauthenticated == RemoteProtocol(401, NoCode)
PermissionDenied == RemoteProtocol(403, NoCode)
TaskNotFound == RemoteProtocol(404, -32001)
TaskNotCancelable == RemoteProtocol(409, -32002)
PushNotificationNotSupported == RemoteProtocol(400, -32003)
UnsupportedOperation == RemoteProtocol(400, -32004)
ContentTypeNotSupported == RemoteProtocol(415, -32005)
InvalidAgentResponse == RemoteProtocol(502, -32006)
ExtendedAgentCardNotConfigured == RemoteProtocol(400, -32007)
ExtensionSupportRequired == RemoteProtocol(400, -32008)
VersionNotSupported == Error("kUnsupportedVersion", 400, -32009)

(* The errors an executor, a store or the security policy may answer with. *)
ExecutorErrors ==
    {Validation, Network, Serialization, Internal, TaskNotFound, TaskNotCancelable,
     PushNotificationNotSupported, UnsupportedOperation, InvalidAgentResponse,
     ExtendedAgentCardNotConfigured}

(* A pipeline of checks: the first that refuses decides, otherwise result. *)
FirstRefusal(checks, result) ==
    LET refused == {i \in DOMAIN checks : ~checks[i].ok}
    IN  IF refused = {} THEN result
        ELSE checks[CHOOSE i \in refused : \A j \in refused : i <= j]

Check(holds, error) == IF holds THEN Ok(<<>>) ELSE error

-----------------------------------------------------------------------------
(* Versions: the components of the text, NotNumeric for one that is no      *)
(* number or has a leading zero.  <<>> is the empty text.                   *)

NotNumeric == -1

MajorMinor(version) ==
    IF version = <<>> THEN << <<0, 3>> >>
    ELSE IF Len(version) \in {2, 3} /\ \A i \in DOMAIN version : version[i] # NotNumeric
         THEN << SubSeq(version, 1, 2) >> ELSE <<>>

IsSupported(version) == MajorMinor(version) = << <<1, 0>> >>

(* internal::ApplyProtocolVersion: the header the client sends. *)
ApplyProtocolVersion(version) ==
    IF MajorMinor(version) = <<>> THEN Validation
    ELSE Ok(IF version = <<>> THEN <<>> ELSE MajorMinor(version)[1])

(* A response's version header, when it has one. *)
ValidateResponseVersion(header) ==
    Check(header = <<>> \/ IsSupported(header[1]),
          Error("kUnsupportedVersion", NoStatus, VersionText))

VersionHeaderValidator(headers) ==
    Check(headers.version # << >> /\ headers.version[1] # <<>> /\ IsSupported(headers.version[1]),
          VersionNotSupported)

(* Extensions::Parse of a header that carries a set of tokens. *)
InvalidToken == "invalid token"
ParseExtensions(tokens) == Check(InvalidToken \notin tokens, Validation)

RequiredExtensionsValidator(headers) ==
    IF RequiredExtensions = {} THEN Ok(<<>>)
    ELSE IF headers.extensions = <<>> THEN ExtensionSupportRequired
    ELSE FirstRefusal(<< ParseExtensions(headers.extensions[1]),
                         Check(RequiredExtensions \subseteq headers.extensions[1],
                               ExtensionSupportRequired) >>, Ok(<<>>))

-----------------------------------------------------------------------------
(* Credentials: "none" is no provider, "empty" a provider without a token   *)
(* (its GetHeaders refuses), the others a token the server knows or not.    *)

ApplyCredentialProvider(credential) ==
    IF credential = "empty" THEN Validation
    ELSE Ok(IF credential = "none" THEN <<>> ELSE <<credential>>)

(* ExtractAuthMetadata and the application's Authenticate and Authorize. *)
Authenticate(headers) ==
    IF headers.authorization = <<>> THEN Unauthenticated
    ELSE IF headers.authorization[1] = "valid" THEN Ok(<<>>) ELSE PermissionDenied

(* The headers a client transport puts on a request, in the code's order. *)
RequestHeaders(call) ==
    LET authorization == ApplyCredentialProvider(call.credential)
        version == ApplyProtocolVersion(call.version)
    IN  FirstRefusal(<<authorization, version>>,
          Ok([version |-> <<version.value>>,
              extensions |-> IF call.extensions = {} THEN <<>> ELSE <<call.extensions>>,
              authorization |-> authorization.value]))

-----------------------------------------------------------------------------

(* NormalizeListTasksPageSize of an optional size. *)
NormalizeListTasksPageSize(size) ==
    IF size = <<>> THEN Ok(kDefaultListTasksPageSize)
    ELSE IF size[1] < 1 \/ size[1] > kMaxListTasksPageSize THEN Validation
    ELSE Ok(size[1])

(* static_cast<int32_t> of a size_t. *)
ToInt32(n) ==
    LET low == n % Modulus32 IN IF low < Modulus32 \div 2 THEN low ELSE low - Modulus32

-----------------------------------------------------------------------------
(* Operations of the dispatcher, the fields of a request they use, and the  *)
(* alternative of DispatchResponse they answer with.                        *)

PushOperations == {"CreatePushConfig", "GetPushConfig", "ListPushConfigs", "DeletePushConfig"}
UnaryOperations == {"SendMessage", "GetTask", "CancelTask", "ListTasks"} \cup PushOperations
StreamOperations == {"SendStreamingMessage", "SubscribeTask"}

UsesTaskId(op) == op \in {"GetTask", "CancelTask", "SubscribeTask"} \cup PushOperations
UsesConfigId(op) == op \in PushOperations \ {"ListPushConfigs"}
UsesHistory(op) == op \in {"GetTask", "ListTasks", "SubscribeTask"}
UsesPage(op) == op \in {"ListTasks", "ListPushConfigs"}

(* A DispatchRequest.  A field the operation has not is empty. *)
Request(op, task, config, size, token, history, filters) ==
    [operation |-> op,
     task      |-> IF UsesTaskId(op) THEN task ELSE "",
     config    |-> IF UsesConfigId(op) THEN config ELSE "",
     size      |-> IF UsesPage(op) THEN size ELSE 0,
     token     |-> IF UsesPage(op) THEN token ELSE "",
     history   |-> IF UsesHistory(op) THEN history ELSE <<>>,
     filters   |-> IF op = "ListTasks" THEN filters ELSE {}]

PayloadType(op) ==
    CASE op = "SendMessage" -> "SendMessageResponse"
      [] op \in {"GetTask", "CancelTask"} -> "Task"
      [] op = "ListTasks" -> "ListTasksResponse"
      [] op \in {"CreatePushConfig", "GetPushConfig"} -> "TaskPushNotificationConfig"
      [] op = "ListPushConfigs" -> "ListTaskPushNotificationConfigsResponse"
      [] op = "DeletePushConfig" -> "none"
      [] op \in StreamOperations -> "ServerStreamSession"
=============================================================================
