SPECIFICATION Spec
CONSTANTS
    RequiredExtensions = {"required"}
    Modulus32 = 512
    Modulus64 = 2048
    Bindings = {"jsonrpc", "rest", "grpc"}
    Calls <- MCCalls
    RawRequests <- MCRawRequests
    ForeignAnswers <- MCForeignAnswers
    Sizes = {0, 1, 50, 100, 101, 300, 512}
    Peers = {"sdk", "client", "server"}
INVARIANTS ErrorsPrescribed  AnswersArrive
