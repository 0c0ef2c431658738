------------------------------- MODULE ErrorLog --------------------------------
(***************************************************************************)
(* The loggers that count errors by text and print the counts every five   *)
(* seconds: the API controller has one and so has the refresher.  One      *)
(* goroutine takes errors from a channel into the current map; another     *)
(* prints the map that was current before, when it is told to.             *)
(***************************************************************************)
EXTENDS Integers, FiniteSets

CONSTANTS
    NoMap,
    QueueCap,  \* capacity of errorsCh
    ErrorMap   \* names of maps; a map nobody refers to is a new one

ASSUME ErrorLogAssumption ==
    /\ NoMap \notin ErrorMap /\ QueueCap \in Nat \ {0}
    /\ IsFiniteSet(ErrorMap) => Cardinality(ErrorMap) >= 4

VARIABLES
    done,      \* is the context cancelled?
    queue,     \* errors on the channel
    curMap, prevMap, \* the map that is written, the one to be printed
    logger,    \* the logger: "select", "renew", "trigger" or "gone"
    trigger,   \* tokens in writeTrigger, of capacity 1
    printing   \* the map that the writer iterates over

mapVars == <<curMap, prevMap, logger, trigger, printing>>
errorLogVars == <<done, queue, mapVars>>

ErrorLogTypeOK ==
    /\ done \in BOOLEAN
    /\ queue \in 0..QueueCap
    /\ curMap \in ErrorMap /\ prevMap \in ErrorMap \cup {NoMap} /\ printing \in ErrorMap \cup {NoMap}
    /\ logger \in {"select", "renew", "trigger", "gone"}
    /\ trigger \in 0..1

ErrorLogInit ==
    /\ done = FALSE /\ queue = 0
    /\ curMap = (CHOOSE m \in ErrorMap : TRUE) /\ prevMap = NoMap /\ printing = NoMap
    /\ logger = "select" /\ trigger = 0

\* The refresher waits for room on the channel, whatever the context does.
SendError == queue < QueueCap /\ queue' = queue + 1 /\ UNCHANGED <<done, mapVars>>

\* The controller drops an error that finds no room, and may after the end.
OfferError ==
    /\ \/ queue < QueueCap /\ queue' = queue + 1
       \/ (queue = QueueCap \/ done) /\ UNCHANGED queue
    /\ UNCHANGED <<done, mapVars>>

CancelAll == ~done /\ done' = TRUE /\ UNCHANGED <<queue, mapVars>>

\* The error is counted in the current map.
LogError ==
    /\ logger = "select"
    /\ queue > 0 /\ queue' = queue - 1
    /\ UNCHANGED <<done, mapVars>>

\* At a tick the current map becomes the one to print ...
KeepMap ==
    /\ logger = "select" /\ logger' = "renew"
    /\ prevMap' = curMap
    /\ UNCHANGED <<done, queue, curMap, trigger, printing>>

\* Mutation: maps are used again after one round instead of being made.
RecycleMap ==
    /\ logger = "renew" /\ logger' = "trigger"
    /\ curMap' \in ErrorMap \ {prevMap}
    /\ UNCHANGED <<done, queue, prevMap, trigger, printing>>

\* ... a new one takes its place (any name that nobody uses) ...
RenewMap ==
    /\ logger = "renew" /\ logger' = "trigger"
    /\ curMap' = CHOOSE m \in ErrorMap : m \notin {curMap, prevMap, printing}
    /\ UNCHANGED <<done, queue, prevMap, trigger, printing>>

\* ... and the writer gets a token, once it has taken the one before.
Trigger ==
    /\ logger = "trigger" /\ logger' = "select"
    /\ trigger = 0 /\ trigger' = 1
    /\ UNCHANGED <<done, queue, curMap, prevMap, printing>>

LoggerQuits ==
    /\ done /\ logger = "select" /\ logger' = "gone"
    /\ UNCHANGED <<done, queue, curMap, prevMap, trigger, printing>>

\* The writer iterates over the map that is to be printed when it gets to it:
\* if it lags behind, one map is left out and another one is printed twice.
PrintMap ==
    /\ trigger = 1 /\ trigger' = 0
    /\ printing = NoMap /\ printing' = prevMap
    /\ UNCHANGED <<done, queue, curMap, prevMap, logger>>

Printed ==
    /\ printing # NoMap /\ printing' = NoMap
    /\ UNCHANGED <<done, queue, curMap, prevMap, logger, trigger>>

Logs == LogError \/ KeepMap \/ RenewMap \/ Trigger \/ LoggerQuits \/ PrintMap \/ Printed

ErrorLogNext == OfferError \/ CancelAll \/ Logs

ErrorLogSpec == ErrorLogInit /\ [][ErrorLogNext]_errorLogVars

-----------------------------------------------------------------------------
\* The writer never iterates over the map that the logger may write to, however
\* far it lags behind: in Go this would end the process.
MapsApart == logger = "select" => printing # curMap
===============================================================================
