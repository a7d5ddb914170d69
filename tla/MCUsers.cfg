CONSTANTS
    Person = {"u"}
    Role = {"A", "B"}
    Stored <- Chain
    Asked <- Docs
    Updated = {"A", "B"}
    CacheTime = 2
    Job = {1, 2}
    Deepest = 4
    MaxEdit = 2
    Troubles = {"overlap", "other", "disable", "delete", "assign"}
    MaxTrouble = 1
SPECIFICATION FairSpec
CHECK_DEADLOCK FALSE
INVARIANTS TypeOK NoCircle RolesFresh OwnEditSeen 
PROPERTIES RequestsEnd
