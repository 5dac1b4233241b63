SPECIFICATION FairSpec
CONSTANTS
    Convs = {c1}
    NumMsgs = 2
    Tasks = {t1, t2}
    NoTask = NoTask
    Subs = {s1}
    Switchers = {}
    MaxDeltas = 2
    MaxRestarts = 1
    MaxFaults = 0
    EarlyStop = FALSE
INVARIANTS
    LiveReplyIsGenerating
    BusyMeansWorking
    StreamExact
    ReplyMatchesStream
PROPERTIES
    ReplyLifeCycle
    GenerationEnds
    StreamEnds
CHECK_DEADLOCK FALSE
