SPECIFICATION Spec
CONSTANTS
    Payload = {"checked", "broken", "green"}
    First = "checked"
    Done = Done
    Raise = Raise
    None = None
    NoRecord = NoRecord
    Medium <- Calling
    Answers <- Says
    Thread <- Threads
    Continues = {"fix", "polish"}
    StepOf <- MendsStep
    Recovery <- MendsRecovery
    Body <- MendsBody
    Exit <- MendsExit
    MaxVisits <- MendsVisits
    Racing = {"green"}
    Timed = {"broken"}
    MaxSteps = 3
    MaxFails = 2
    MaxResumes = 1
    MaxLost = 1
CHECK_DEADLOCK FALSE
INVARIANTS TypeOK ReplayedOwn NotRunAgain NoHole
PROPERTIES ThreadKept
