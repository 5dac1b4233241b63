SPECIFICATION Spec
CONSTANTS
    Runs = {eval}
    Attended = {}
    MaxRounds = 1
    Replies <- FewReplies
    MaxPerReply = 2
    Answers = {"allow", "other"}
    Allow = "allow"
    Names <- TreeNames
    UsedAs <- TreeUses
    Paths <- TreePaths
    Links <- TreeLinks
    Moves <- TreeMoves
    Ancestors <- TreeAncestors
    Protected = {"keys"}
    Roots <- TreeRoots
INVARIANTS
    UnattendedNeverWaits
CHECK_DEADLOCK FALSE
