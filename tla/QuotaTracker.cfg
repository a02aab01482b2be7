SPECIFICATION FairSpec
CONSTANTS
    Name = {n1}
    Task = {t1, t2}
    MaxGen = 2
    Traffic = {"refresh"}
INVARIANTS RefreshGuardExact DurableReload QuietAfterClose
PROPERTIES MeasuredByThisGeneration CloseCompletes GuardReleased
CHECK_DEADLOCK FALSE
