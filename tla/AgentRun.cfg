SPECIFICATION FairSpec
CONSTANTS
    Runs = {chat, eval}
    Attended = {chat}
    MaxRounds = 1
    Replies <- SomeReplies
    MaxPerReply = 2
    Answers = {"allow", "other"}
    Allow = "allow"
    Names <- TreeNames
    UsedAs <- TreeUses
    Paths <- TreePaths
    Links <- TreeLinks
    Moves <- TreeMoves
    Ancestors <- TreeAncestors
    Protected = {"keys"}
    Roots <- TreeRoots
INVARIANTS
    RegistryIsExact
    AcceptedAnswerCounts
    OutsideNeedsConsent
PROPERTIES
    NothingRunsAfterCancel
    RunEndsOrHangsInMcp
    ImplementsRunStream
CHECK_DEADLOCK FALSE
