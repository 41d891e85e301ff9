SPECIFICATION Spec
CONSTANTS
    h1 = h1
    h2 = h2
    Handler = {h1, h2}
    Db = {"-d", "tags"}
    Table = {"t"}
    Tag = {"x", "y"}
    ValidName = {"tags", "t", "x", "y"}
    BadTag = "-z"
    TagList <- MCTagList
    Date = {"day 1"}
    Ts = {1, 2}
    Value = {"a", "b"}
    NoTag = "no tag"
    NoValue = "no value"
    Batch <- MCBatch
    NewPoint <- MCNewPoint
    MaxWrites = 2
    MaxDdl = 2
    MaxRestarts = 1
CHECK_DEADLOCK FALSE
SYMMETRY MCSymmetry
INVARIANT CachesAgree
INVARIANT RawFinds
INVARIANT RejectedOnlyIfMissing
