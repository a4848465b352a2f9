SPECIFICATION Spec
CONSTANTS
    Streams = {s1}
    MaxStreams = 1
    MaxCommands = 2
    Readers = {s1}
    Writers = {s1}
INVARIANTS
    ParkedIsAttended
    StreamsAreKept
CHECK_DEADLOCK FALSE
