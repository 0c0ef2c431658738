CONSTANTS
    NoToken = NoToken
    NoCall = NoCall
    NoInput = NoInput
    Elem = {1, 2, 3, 4, 5}
    Root = 0
    Nil = Nil
    Client = {c1, c2}
    Item = {"k1", "k2", "k3"}
    Ruled = {"k1", "k2"}
    Token = {t1, t2, t3}
    Caller = {c1, c2}
    Context = {x1, x2, x3}
    Setter = {s1}
    Object = {"k1", "k2"}
    Row = {1, 2}
    Bucket = {1, 2}
    Hash <- TwoHashes
    MaxRotations = 1
    MaxCount = 2
    NoPair = NoPair
    NoUser = NoUser
    User = {u1, u2}
    Pair = {o1, o2, o3, o4}
    NumHeads = 3
    LetThrough = {2, 3}
    NoMap = NoMap
    QueueCap = 1
    ErrorMap = {m1, m2, m3, m4}
    Worker = {w1}
    Sampled <- Samples
    GlobalTtl = 4
    GlobalCoefficient = 50
    MaxScans = 2
    Handler = {h1}
    Exporter = {n1, n2}
    LogEvery = 2
    MaxRequests = 1
    StatCap = 1
    MaxFreed = 2
    NoFile = NoFile
    File = {"local", "default", "other"}
    Content <- Contents
    Missing <- NoConfig
    Broken <- BadConfig
    BackendId = {"b1", "b2", "b3"}
    Version = {"v1"}
    MaxApps = 3
SPECIFICATION Spec
SYMMETRY Exporters
INVARIANTS TypeOK ClearsOncePerToken PanicsOnlyOnRefusedMiss LoneProbeIsAnswered NeverUnderestimates UnknownOnlyAfterRotation KeyIsOfTheRequest DumpRestoresEntry ShardsStayListed ReadsOwn MapsApart RefreshesAddUp NoExporterRepeats ServesWhatItLoaded
CHECK_DEADLOCK FALSE
