SPECIFICATION Spec
CONSTANTS
    Own = "own"
    Followed = {"kid"}
    Rite = {"step", "a", "b", "in_a", "f"}
    Of <- OfRites
    Under <- UnderRites
    None = None
    Output <- OneLineEach
    Plays <- RitesOrPrompts
    MaxLosses = 1
    OwnPrompt = {"mine"}
    FollowedPrompt = {"theirs"}
    Free = {"theirs"}
    MaxAsks = 4
    MaxActs = 5
CHECK_DEADLOCK FALSE
INVARIANTS ShownOnce OneTalks AnsweredAsHeard AskedUnlessClaimed
