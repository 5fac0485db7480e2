CONSTANTS
    Atoms <- MCAtoms
    Local = "local"
    AtomBytes <- MCAtomBytes
    Instance <- MCInstance
    ServiceName <- MCServiceName
    Type <- MCType
    HasIPv4 = TRUE
    HasIPv6 = FALSE
    TextBytes = 9
    QueryIds = {1}
    MaxQuestions = 2
    Names <- MCNames
    Packets <- MCPackets

SPECIFICATION Spec

INVARIANT ParserTypeOK
INVARIANT WellFramedReply
INVARIANT MatchesPlan
INVARIANT AnswersOnlyWholeQueries
