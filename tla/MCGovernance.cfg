SPECIFICATION MCSpec
CONSTANTS
    Dids = {1,2,3,4,5}
    Genesis = {1,2,3}
    Motions <- MCMotions
    ResetLists <- MCReset
    Limits = {4}
    PROPOSALS_MAX = 2
    COMMITTEE_MEMBERS_MAX = 4
    MaxBlock = 2
    Voters = {"v1", "v2"}
    FreeBalance <- MCFree
    Amounts = {1,2}
    MaxPips = 2
    Configs <- MCConfigs
    ConfigSteps <- MCSteps
    MaxPipBlock = 2
INVARIANTS
    PipBooksExact
PROPERTIES
    CommitteeSound
    
CHECK_DEADLOCK FALSE
