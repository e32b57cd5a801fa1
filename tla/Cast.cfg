SPECIFICATION Spec
CONSTANTS
    Kids = {"child", "grandchild", "stranger"}
    Root = Root
    None = None
    Parent <- Family
    MaxLosses = 1
CHECK_DEADLOCK FALSE
INVARIANTS
    CodeTold
PROPERTIES
    LetsGo
    CutLands
