SPECIFICATION FairSpec
CONSTANTS
    Streams = {s1}
    MaxStreams = 1
    MaxCommands = 1
    Readers = {s1}
    Writers = {}
PROPERTIES
    CloseWakesTasks
CHECK_DEADLOCK FALSE
