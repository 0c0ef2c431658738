-------------------------------- MODULE MCParts --------------------------------
(* Small instances of the parts of the service that share no state: each     *)
(* behaviour runs one of them, and the others stay as they are initially.    *)
(* Of the algorithms on data, a behaviour is one input.                      *)
EXTENDS Api, Probe, Admission, Keys, Codec, MergeSort, Pools, Refresher, Stats, Start

CONSTANT NoInput

\* The two exporters are alike.
Exporters == Permutations(Exporter)

TwoHashes ==
    {[k \in Object |-> 1], [k \in Object |-> IF k = "k1" THEN 1 ELSE 2]}

FirstHash == CHOOSE h \in TwoHashes : TRUE

Strings(n, letters) == UNION {[1..i -> letters] : i \in 0..n}

Rule == [query |-> {<<97>>, <<98>>}, headers |-> {<<97>>, <<98>>}]

Pairs   == {<<97>>, <<98>>, <<97, 98>>, <<99>>} \X {<<>>, <<98>>}
Headers == {<<>>, <<97>> :> <<97>>, <<97>> :> <<98>> @@ <<98>> :> <<99>>}

KeyInputs   == [rule : {Rule}, query : UNION {[1..i -> Pairs] : i \in 0..3}, headers : Headers]
ParseInputs == [prefixes : {Rule.query}, bytes : Strings(5, {Amp, Eq, Percent, Plus, 97, 99})]
Bodies      == Strings(1, {97, 2})
CodecInputs ==
    [rules : {{<<97>>}}, key : {7},
     req  : [path : Bodies, query : Bodies, headers : {<<>>, <<<<<<97>>, <<1, 2>>>>>>}],
     resp : [status : {200}, body : Strings(2, {0, 97}),
             headers : UNION {[1..i -> {<<97>>, <<1, 98>>} \X Bodies] : i \in 0..2}]]

\* Any of the at most eight comparisons may find the weights changed.
SortInputs ==
    UNION {[list : {[i \in 1..n |-> i]}, weight : [1..n -> 1..2], changed : SUBSET (1..8)]
             \cup [list : {[i \in 1..n |-> i]}, weight : [1..n -> 1..3], changed : {{}}] : n \in 2..5}

Inputs(p) == CASE p = "keys"  -> KeyInputs
               [] p = "parse" -> ParseInputs
               [] p = "codec" -> CodecInputs
               [] p = "sort"  -> SortInputs
               [] OTHER       -> {NoInput}

\* Entries that may be refreshed by the global settings, by those of their rule,
\* not yet, and never.
Samples ==
    [hasRefresh : BOOLEAN, enabled : BOOLEAN, ttl : {0, 1}, coefficient : {0, 100}, age : {1, 4}]

\* What configuration files hold: no file, nothing valid, clusters that share a
\* backend, one that names it twice, and a single backend.
NoConfig  == [cluster |-> FALSE, backends |-> <<>>]
BadConfig == [cluster |-> TRUE, backends |-> <<>>]
ClusterOf(ids, dump, mock) ==
    [cluster |-> TRUE, enabled |-> TRUE, dump |-> dump, mock |-> mock,
     backends |-> [i \in DOMAIN ids |-> [id |-> ids[i], enabled |-> TRUE, rate |-> 1]]]
Contents ==
    {NoConfig, BadConfig,
     ClusterOf(<<"b1">>, TRUE, FALSE), ClusterOf(<<"b2", "b1">>, FALSE, TRUE),
     ClusterOf(<<"b2", "b2">>, TRUE, TRUE),
     [ClusterOf(<<"b3">>, TRUE, TRUE) EXCEPT !.cluster = FALSE, !.enabled = FALSE]}

StartIdle ==
    /\ stage = "config" /\ content = [f \in File |-> NoConfig] /\ wanted = NoFile
    /\ apps = <<>> /\ app = 0 /\ loaded = <<>> /\ gauges = {} /\ choice = "none"

Init ==
    /\ part \in {"api", "probe", "admission", "keys", "parse", "codec", "sort",
                 "pools", "errors", "refresher", "stats", "evictions", "start"}
    /\ input \in Inputs(part)
    /\ ApiInit /\ ProbeInit /\ AdmissionInit /\ PoolsInit /\ RefresherInit /\ StatsInit
    /\ IF part = "start" THEN StartInit ELSE StartIdle
    /\ part # "api" => enabled
    /\ part # "admission" =>
        door[1].hash = <<FirstHash, FirstHash>> /\ \A r \in Row : sketch[1].hash[r] = FirstHash

\* All variables but those of the part that runs.
Others(p) ==
    /\ p # "api"       => UNCHANGED apiVars
    /\ p # "probe"     => UNCHANGED probeVars
    /\ p # "admission" => UNCHANGED admissionVars
    /\ p # "pools"     => UNCHANGED poolVars
    /\ p \notin {"refresher", "errors"} => UNCHANGED refresherVars
    /\ p = "errors"    => UNCHANGED <<workVars, count, logged, swapping>>
    /\ p # "stats"     => UNCHANGED statsVars
    /\ p # "evictions" => UNCHANGED evictionVars
    /\ p # "start"     => UNCHANGED startVars

Next ==
    /\ \/ part = "api" /\ ApiNext
       \/ part = "probe" /\ ProbeNext
       \/ part = "admission" /\ AdmissionNext
       \/ part = "pools" /\ PoolsNext
       \/ part = "errors" /\ ErrorLogNext
       \/ part = "refresher" /\ RefresherNext
       \/ part = "stats" /\ StatsNext
       \/ part = "evictions" /\ EvictionsNext
       \/ part = "start" /\ StartNext
    /\ Others(part)
    /\ UNCHANGED <<part, input>>

Spec ==
    Init /\ [][Next]_<<apiVars, probeVars, admissionVars, poolVars, refresherVars, statsVars,
                       evictionVars, startVars, part, input>>

TypeOK ==
    CASE part = "api"       -> ApiTypeOK
      [] part = "probe"     -> ProbeTypeOK
      [] part = "admission" -> AdmissionTypeOK
      [] part = "pools"     -> PoolsTypeOK
      [] part = "errors"    -> ErrorLogTypeOK
      [] part = "refresher" -> ErrorLogTypeOK /\ RefresherTypeOK
      [] part \in {"stats", "evictions"} -> StatsTypeOK
      [] part = "start"     -> StartTypeOK
      [] OTHER              -> TRUE
===============================================================================
