SPECIFICATION FairSpec
CONSTANTS
    Streams = {s1, s2}
    MaxStreams = 1
    MaxCommands = 1
    Readers = {}
    Writers = {s1}
PROPERTIES
    StreamsEnd
CHECK_DEADLOCK FALSE
