SPECIFICATION FairSpec
CONSTANTS
    JobQueue = FALSE
    MaxClients = 3
PROPERTIES AbandonedLoginEnds
