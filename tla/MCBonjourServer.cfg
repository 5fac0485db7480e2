CONSTANTS
    Atoms <- MCAtoms
    Local = "local"
    AtomBytes <- MCAtomBytes
    Instance <- MCInstance
    ServiceName <- MCServiceName
    Type <- MCType
    HasIPv4 = TRUE
    HasIPv6 = FALSE
    TextBytes = 9
    QueryIds = {1, 2}
    MaxQuestions = 2
    Names <- MCNames
    Packets <- MCPackets
    MaxDatagrams = 4

SPECIFICATION Spec

INVARIANT ServerTypeOK
INVARIANT SlotMatchesRequest
INVARIANT RepliesMatchDryRun
INVARIANT RepliesAnswer
PROPERTY AcceptedQueryAnswered
PROPERTY ImplementsResponder
