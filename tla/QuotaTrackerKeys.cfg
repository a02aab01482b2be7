SPECIFICATION Spec
CONSTANTS
    Name = {n1, n2}
    Task = {t1}
    MaxGen = 2
    Traffic = {"poll", "one"}
INVARIANT LiveQuotaOnly
