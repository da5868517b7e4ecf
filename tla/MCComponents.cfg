SPECIFICATION Spec
CONSTANTS
    Ids = {1, 2, 3}
    Commands = {1, 2, 3}
    MayRun <- CommandKinds
    Name = "n"
    OlderThan = 0
    MaxTime = 2
    Dialers = {1, 2, 3}
    Daemons = {1, 2, 3}
    Builds <- BuildsOf
    Hosts = {1, 2}
    Readers = {1}
    MaxEvents = 3
    Adapted = {1, 2}
    MaxFrames = 3
    MaxGenerations = 2
    Retained = 1
    Tools = {1}
    MaxTexts = 3
    MaxEvents2 = 4
    Calls = {1, 2}
    Policies = {1, 4, 5}
    MaxCalls = 1
    Catalog <- Modes3
    MaxTurns = 2
    MaxSends = 3
    Corrections = {1, 2}
    LastTurn = 2
    Grades = {1}
    Efforts = {0, 1}
    LastOpened = 3
    Waiting = 2
CHECK_DEADLOCK FALSE
INVARIANTS
    NoCircularWait
    NothingClaimed
    
    FollowComplete
    HistoryStaysOut
    TranscriptTellsAnswer
    NoMoreThanParent
    ExactIsAll
    MessageStateTrue
    LeavesNoOrphan
    PinnedEffort
PROPERTIES
    SweepSparesNewTurns
    OneLaunch
