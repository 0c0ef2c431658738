CONSTANTS
    Nil = Nil
    Key = {"k1", "k2"}
    Shard = {0, 1}
    ShardOf <- TwoShards
    MaxVersions = 1
    Gzip = TRUE
    Full <- LargeFills
    MaxFaults = 1
    MaxStarts = 2
SPECIFICATION FairSpec
INVARIANTS TypeOK VersionsGrow GracefulMeansDumped RestoresLastDump CompleteSurvivesRotation
PROPERTIES SignalEndsUnlessUnheard
CHECK_DEADLOCK FALSE
