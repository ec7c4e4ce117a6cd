SPECIFICATION FairSpec
CONSTANTS
    JobQueue = TRUE
    MaxClients = 3
INVARIANTS TypeOK ConnectionsAccounted
PROPERTIES LoginSparesHosting AbandonedLoginEnds
