SPECIFICATION FairSpec
CONSTANTS
    Contact = {a, b}
    Free = Free
    NoBackup = NoBackup
    MaxRows = 3
    Targets = {1, 2, 3}
INVARIANTS TypeOK BotServesCurrent
PROPERTIES ContactsKept UpgradeCompletes
