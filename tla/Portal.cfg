CONSTANTS
    Clients = {c1, c2}
    NoClient = NoClient
    HasRemoteDesktop = TRUE
    MaxSessions = 2
    Recording = {c1}
SPECIFICATION LiveSpec
INVARIANTS OneDialog AnswerHeard
PROPERTIES NoNeedlessDialog PortalServes
