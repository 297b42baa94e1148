CONSTANTS
    DefFile <- MCDefFile
    ValFile <- MCValFile
    MaxSet = 2
    Now = 10
    Leftover = {0, 7}
    Clients = {"a", "b", "d"}
    AccessList <- MCAccessList
    Addresses <- MCAddresses
    Modules = {"count", "jitter", "rtt_all", "text_file"}
    Pages = {"/", "/help", "/xsl/reply.xsl"}
    Scripts <- MCScripts
    KeepaliveTime = 1
    Timeout = 2
    MaxConn = 2
    Exposed = {}
SPECIFICATION Spec
INVARIANTS AnswersFitRequests AnswersTellTheRules EventsHaveRequests
PROPERTIES ConnectionsEnd
