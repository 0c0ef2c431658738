CONSTANTS
    Nil = Nil
    Key = {"k1", "k2"}
    Shard = {0, 1}
    ShardOf <- TwoShards
    MaxVersions = 2
    Gzip = FALSE
    Full = {}
    MaxFaults = 0
    MaxStarts = 2
SPECIFICATION Spec
INVARIANTS RestoresLastComplete
CHECK_DEADLOCK FALSE
