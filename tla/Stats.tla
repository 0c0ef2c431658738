--------------------------------- MODULE Stats ---------------------------------
(***************************************************************************)
(* The numbers that the API controller reports.  Handlers bump six atomic  *)
(* counters, which all controllers of the process share; a goroutine of    *)
(* each controller exports and resets them every second, by a load and a   *)
(* store each, and sums them up for its summaries.  The sums of 1, 12 and  *)
(* 24 hours work the same way and are one here; rates and averages are     *)
(* left out.  Apart from these, the evictor sends what it freed to its     *)
(* logger.  All of it runs until the context ends.                         *)
(***************************************************************************)
EXTENDS Integers, Sequences

CONSTANTS
    Handler,
    Exporter,    \* the controllers that were built: runLoggerMetricsWriter runs in each
    LogEvery,    \* logIntervalSecs
    MaxRequests, \* bound: requests of a behaviour
    StatCap,     \* capacity of evictionStatCh
    MaxFreed     \* bound: entries that are evicted

ASSUME StatsAssumption ==
    LogEvery \in Nat \ {0} /\ MaxRequests \in Nat
        /\ StatCap \in Nat \ {0} /\ MaxFreed \in Nat

VARIABLES
    todo,     \* todo[h]: the counters that h's request has yet to bump
    begun,    \* requests so far
    tally,    \* tally[k]: the atomic counter k
    bumped,   \* history: how often k was bumped
    export,   \* export[e]: the exporter's counter, and whether it is loaded
    local,    \* local[e]: what it has loaded in this round
    exported, \* history: what it has exported
    period,   \* period[e]: requests since its last five seconds' summary (other sums go along)
    long,     \* long[e]: requests since its last summary of the hour
    summed,   \* history: the requests in its summaries of either kind
    second,   \* second[e]: i
    stats,    \* evictionStatCh: how many entries each round freed
    evicted   \* evictions so far, and those the logger has and has told

reportVars == <<export, local, exported, period, long, summed, second>>
statsVars == <<todo, begun, tally, bumped, reportVars>>
evictionVars == <<stats, evicted>>

\* The counters in the order of their export.
Kinds == <<"total", "hits", "misses", "proxied", "errered", "duration">>
Kind  == {Kinds[i] : i \in DOMAIN Kinds}
None  == [k \in Kind |-> 0]

StatsTypeOK ==
    /\ todo \in [Handler -> Seq(Kind)] /\ begun \in 0..MaxRequests
    /\ {tally, bumped} \subseteq [Kind -> Nat]
    /\ {local, exported} \subseteq [Exporter -> [Kind -> Nat]]
    /\ {period, long} \subseteq [Exporter -> Nat]
    /\ export \in [Exporter -> [at : 1..Len(Kinds) + 1, loaded : BOOLEAN]]
    /\ summed \in [Exporter -> [{"5s", "1h"} -> Nat]]
    /\ second \in [Exporter -> 0..LogEvery]
    /\ stats \in Seq(1..MaxFreed) /\ Len(stats) <= StatCap
    /\ evicted \in [freed : 0..MaxFreed, held : Nat, told : Nat]

StatsInit ==
    /\ todo = [h \in Handler |-> <<>>] /\ begun = 0
    /\ tally = None /\ bumped = None
    /\ export = [e \in Exporter |-> [at |-> 1, loaded |-> FALSE]]
    /\ local = [e \in Exporter |-> None] /\ exported = [e \in Exporter |-> None]
    /\ period = [e \in Exporter |-> 0] /\ long = [e \in Exporter |-> 0]
    /\ summed = [e \in Exporter |-> [s \in {"5s", "1h"} |-> 0]]
    /\ second = [e \in Exporter |-> LogEvery]
    /\ stats = <<>> /\ evicted = [freed |-> 0, held |-> 0, told |-> 0]

-----------------------------------------------------------------------------
(* Handlers: what a request bumps on its way, the duration at last.  An     *)
(* upstream error is not counted on the proxy path.                         *)

Ways ==
    {<<"total", "hits", "duration">>, <<"total", "misses", "duration">>,
     <<"total", "misses", "errered", "duration">>, <<"total", "proxied", "duration">>}

BeginRequest(h) ==
    /\ todo[h] = <<>> /\ begun < MaxRequests
    /\ begun' = begun + 1
    /\ \E way \in Ways : todo' = [todo EXCEPT ![h] = way]
    /\ UNCHANGED <<tally, bumped, reportVars>>

Count(h) ==
    /\ todo[h] # <<>>
    /\ LET k == Head(todo[h])
       IN  /\ tally' = [tally EXCEPT ![k] = @ + 1]
           /\ bumped' = [bumped EXCEPT ![k] = @ + 1]
    /\ todo' = [todo EXCEPT ![h] = Tail(@)]
    /\ UNCHANGED <<begun, reportVars>>

-----------------------------------------------------------------------------
(* The exporters: one of each application that was built.  An application    *)
(* that the menu replaces leaves its exporter running.                       *)

LoadTally(e) ==
    LET k == Kinds[export[e].at]
    IN  /\ export[e].at <= Len(Kinds) /\ ~export[e].loaded
        /\ local' = [local EXCEPT ![e][k] = tally[k]]
        /\ export' = [export EXCEPT ![e].loaded = TRUE]
        /\ UNCHANGED <<todo, begun, tally, bumped, exported, period, long, summed, second>>

\* Mutation: the misses are loaded and the hits are reset.
StoreZeroMixedUp(e) ==
    LET k == Kinds[export[e].at]
    IN  /\ export[e].loaded
        /\ tally' = [tally EXCEPT ![IF k = "misses" THEN "hits" ELSE k] = 0]
        /\ export' = [export EXCEPT ![e] = [at |-> export[e].at + 1, loaded |-> FALSE]]
        /\ UNCHANGED <<todo, begun, bumped, local, exported, period, long, summed, second>>

\* What was bumped between load and store is lost; what another exporter loaded
\* before it is exported by both.
StoreZero(e) ==
    LET k == Kinds[export[e].at]
    IN  /\ export[e].loaded
        /\ tally' = [tally EXCEPT ![k] = 0]
        /\ export' = [export EXCEPT ![e] = [at |-> export[e].at + 1, loaded |-> FALSE]]
        /\ UNCHANGED <<todo, begun, bumped, local, exported, period, long, summed, second>>

\* The meter sets each counter to the number of the last second.
Metered(e) == [k \in Kind |-> exported[e][k] + local[e][k]]

\* The numbers are exported and added to the sums.  Each fifth second there is a
\* summary, unless there was nothing to tell, and then the next second may have it.
Export(e) ==
    LET five == period[e] + local[e]["total"]
    IN  /\ export[e].at = Len(Kinds) + 1
        /\ export' = [export EXCEPT ![e] = [at |-> 1, loaded |-> FALSE]]
        /\ exported' = [exported EXCEPT ![e] = Metered(e)]
        /\ local' = [local EXCEPT ![e] = None]
        /\ long' = [long EXCEPT ![e] = @ + local[e]["total"]]
        /\ \/ /\ second[e] = LogEvery /\ five = 0
              /\ UNCHANGED <<period, second, summed>>
           \/ /\ second[e] = LogEvery /\ five > 0
              /\ period' = [period EXCEPT ![e] = 0]
              /\ summed' = [summed EXCEPT ![e]["5s"] = @ + five]
              /\ second' = [second EXCEPT ![e] = 1]
           \/ /\ second[e] # LogEvery
              /\ period' = [period EXCEPT ![e] = five]
              /\ second' = [second EXCEPT ![e] = @ + 1]
              /\ UNCHANGED summed
        /\ UNCHANGED <<todo, begun, tally, bumped>>

\* logLong tells nothing without requests; the sums are reset in any case.  (Hits
\* of requests that were counted the hour before are then in no summary.)
LogLong(e) ==
    /\ export[e] = [at |-> 1, loaded |-> FALSE]
    /\ long[e] > 0
    /\ summed' = [summed EXCEPT ![e]["1h"] = @ + long[e]]
    /\ long' = [long EXCEPT ![e] = 0]
    /\ UNCHANGED <<todo, begun, tally, bumped, export, local, exported, period, second>>

StatsNext ==
    \/ \E h \in Handler : BeginRequest(h) \/ Count(h)
    \/ \E e \in Exporter : LoadTally(e) \/ StoreZero(e) \/ Export(e) \/ LogLong(e)

-----------------------------------------------------------------------------
(* The evictor and its logger.                                              *)

\* A round that freed something waits for room on the channel.
SendStat ==
    /\ Len(stats) < StatCap
    /\ \E n \in 1..(MaxFreed - evicted.freed) :
          stats' = Append(stats, n) /\ evicted' = [evicted EXCEPT !.freed = @ + n]

TakeStat ==
    /\ stats # <<>> /\ stats' = Tail(stats)
    /\ evicted' = [evicted EXCEPT !.held = @ + Head(stats)]

\* Every five seconds, if there is something to tell.
TellEvictions ==
    /\ evicted.held > 0
    /\ evicted' = [evicted EXCEPT !.told = @ + evicted.held, !.held = 0]
    /\ UNCHANGED stats

EvictionsNext == SendStat \/ TakeStat \/ TellEvictions

ReportsNext ==
    \/ StatsNext /\ UNCHANGED evictionVars
    \/ EvictionsNext /\ UNCHANGED statsVars

StatsSpec == StatsInit /\ [][ReportsNext]_<<statsVars, evictionVars>>

-----------------------------------------------------------------------------
\* What an exporter has exported of a counter, what it has taken from it and what
\* it holds is at most what was counted.  Every request that it exported is in
\* one of its five seconds' summaries and in one of the hour, or in the sums of
\* the next.
CountsOnce(e) ==
    /\ \A i \in DOMAIN Kinds :
           LET k     == Kinds[i]
               taken == IF i < export[e].at THEN local[e][k] ELSE 0
           IN  exported[e][k] + taken + tally[k] <= bumped[k]
    /\ exported[e]["total"] = summed[e]["5s"] + period[e]
    /\ exported[e]["total"] = summed[e]["1h"] + long[e]

\* What the numbers on a channel add up to.
Pending(ch) ==
    LET sum[n \in 0..Len(ch)] == IF n = 0 THEN 0 ELSE sum[n - 1] + ch[n]
    IN  sum[Len(ch)]

\* No exporter reports a request twice, whatever the others reset meanwhile; two
\* of them may both report it, when both load a counter before either resets it.
\* And no eviction is told twice: they are told, held by the logger, or on the
\* channel.
NoExporterRepeats ==
    /\ \A e \in Exporter : CountsOnce(e)
    /\ evicted.freed = evicted.told + evicted.held + Pending(stats)
===============================================================================
