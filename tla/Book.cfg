SPECIFICATION Spec
CONSTANTS
    Cast = {1, 2}
    Projects <- HereAndThere
    Rituals <- OnlyFix
    ProjectOf <- InTwoProjects
    RitualOf <- OneRitual
    Home = "here"
    Rite = {"outer", "inner"}
    Prompt = {"ask"}
    Of <- OfFirst
    AskedIn <- InOuter
    ParentMaps <- Parents
    None = None
    MaxHeard = 4
    MaxActs = 2
    MaxLit = 1
CHECK_DEADLOCK FALSE
INVARIANTS AskingReachable RitesDrawnOnce
