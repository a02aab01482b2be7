SPECIFICATION Spec
CONSTANTS
    q1 = q1
    q2 = q2
    s1 = s1
    none = none
    ProviderOf <- MCProviderOf
    ParentOf <- MCParentOf
    Priority <- MCPriority
    RouteKeys = {"q", "l"}
    NoSession = none
    Dwell = 2
    SwitchMargin = 1
    GradeOf <- MCGradeOf
    NoGrade = "none"
    Req = {q1, q2}
    Session = {s1}
    Chain <- MCChain
    Strategy <- MCStrategy
    Graded = {"q"}
    Strong = "strong"
    Fallbacks = {"any", "next_grade", "strict"}
    FactSets <- MCFactSets
    StartFacts <- Level
    Latching = {"q"}
    Consecutive = 2
    LatchDwell = 2
    TurnCap = 2
    MaxTime = 3
    Scenarios <- MCScenarios
INVARIANTS EvenDeal PolicyKeepsTargets
PROPERTIES SessionStays EscalationEarned
SYMMETRY Alike
CHECK_DEADLOCK FALSE
