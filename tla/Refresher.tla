------------------------------- MODULE Refresher -------------------------------
(***************************************************************************)
(* The refresher's goroutines and what they report: workers that scan and  *)
(* wait for the rate limiters, a goroutine per refresh, the logger of the  *)
(* errors (ErrorLog) and the logger of the numbers.  The storage and the   *)
(* upstream are choices (Storage and Upstream have their steps).           *)
(***************************************************************************)
EXTENDS ErrorLog, Sequences

CONSTANTS
    Worker,
    Sampled,   \* what Rand may give: the age of an entry, and its rule's settings
    GlobalTtl, \* the settings for rules without their own, the coefficient in percent
    GlobalCoefficient,
    MaxScans   \* bound: scans of a behaviour

ASSUME RefresherAssumption ==
    /\ IsFiniteSet(Worker)
    /\ MaxScans \in Nat /\ GlobalTtl \in Nat \ {0} /\ GlobalCoefficient \in Nat

VARIABLES
    worker,    \* worker[w]: "scan", "await" (has an entry to refresh) or "gone"
    fetching,  \* refreshes under way
    failing,   \* failed refreshes that have yet to report
    count,     \* count[k]: the atomic counter k
    logged,    \* logged[k]: what has been taken from it for the logs
    swapping,  \* how many counters the logger has taken in its present round
    missed     \* history: entries found whose refresh was never started

workVars == <<worker, fetching, failing, missed>>
refresherVars == <<errorLogVars, workVars, count, logged, swapping>>

\* The counters, in the order in which the logger takes them.
Numbers == <<"success", "failed", "scans", "found">>
Number  == {Numbers[i] : i \in DOMAIN Numbers}

RefresherTypeOK ==
    /\ worker \in [Worker -> {"scan", "await", "gone"}]
    /\ fetching \in Nat /\ failing \in Nat /\ missed \in Nat
    /\ count \in [Number -> Nat] /\ logged \in [Number -> Nat]
    /\ swapping \in 0..Len(Numbers)

RefresherInit ==
    /\ ErrorLogInit
    /\ worker = [w \in Worker |-> "scan"]
    /\ fetching = 0 /\ failing = 0 /\ missed = 0
    /\ count = [k \in Number |-> 0] /\ logged = [k \in Number |-> 0]
    /\ swapping = 0

\* What has been counted as k, taken for the logs or not.
Counted(k) == count[k] + logged[k]
Bump(ks)   == count' = [k \in Number |-> IF k \in ks THEN count[k] + 1 ELSE count[k]]

-----------------------------------------------------------------------------
(* Workers.  A limiter hands out tokens, and after the context's end it     *)
(* closes its channel, from which a receive succeeds: a worker may go on    *)
(* for as long as its select does not choose Done.                          *)

\* ShouldBeRefreshed, except for its chance: settings of a rule count if they are
\* positive, and before a part of the ttl there is no chance.
MayBeRefreshed(e) ==
    LET Setting(own, global) == IF e.hasRefresh /\ own > 0 THEN own ELSE global
    IN  /\ e.hasRefresh => e.enabled
        /\ Setting(e.ttl, GlobalTtl) * Setting(e.coefficient, GlobalCoefficient)
             <= 100 * e.age

\* The storage is empty, the entry need not be refreshed, or it is found.
Scan(w) ==
    /\ worker[w] = "scan" /\ Counted("scans") < MaxScans
    /\ \/ Bump({"scans"}) /\ UNCHANGED worker
       \/ /\ \E e \in Sampled : MayBeRefreshed(e)
          /\ Bump({"scans", "found"}) /\ worker' = [worker EXCEPT ![w] = "await"]
    /\ UNCHANGED <<errorLogVars, fetching, failing, missed, logged, swapping>>

StartRefresh(w) ==
    /\ worker[w] = "await" /\ worker' = [worker EXCEPT ![w] = "scan"]
    /\ fetching' = fetching + 1
    /\ UNCHANGED <<errorLogVars, failing, missed, count, logged, swapping>>

Quit(w) ==
    /\ done /\ worker[w] # "gone"
    /\ missed' = IF worker[w] = "await" THEN missed + 1 ELSE missed
    /\ worker' = [worker EXCEPT ![w] = "gone"]
    /\ UNCHANGED <<errorLogVars, fetching, failing, count, logged, swapping>>

RefreshSucceeds ==
    /\ fetching > 0 /\ fetching' = fetching - 1
    /\ Bump({"success"})
    /\ UNCHANGED <<errorLogVars, worker, failing, missed, logged, swapping>>

RefreshFailed ==
    /\ fetching > 0 /\ fetching' = fetching - 1
    /\ failing' = failing + 1
    /\ UNCHANGED <<errorLogVars, worker, missed, count, logged, swapping>>

\* The error is sent, then counted.
ReportError ==
    /\ failing > 0 /\ failing' = failing - 1
    /\ SendError
    /\ Bump({"failed"})
    /\ UNCHANGED <<worker, fetching, missed, logged, swapping>>

-----------------------------------------------------------------------------
(* The loggers.                                                             *)

\* Mutation: a counter is loaded and not reset.
SwapLoads ==
    LET k == Numbers[swapping + 1]
    IN  /\ swapping < Len(Numbers) /\ swapping' = swapping + 1
        /\ logged' = [logged EXCEPT ![k] = @ + count[k]]
        /\ UNCHANGED <<errorLogVars, workVars, count>>

\* Every five seconds the counters are taken one after the other; the sums of
\* the long periods get what was taken.
Swap ==
    LET k == Numbers[swapping + 1]
    IN  /\ swapping < Len(Numbers) /\ swapping' = swapping + 1
        /\ logged' = [logged EXCEPT ![k] = @ + count[k]]
        /\ count' = [count EXCEPT ![k] = 0]
        /\ UNCHANGED <<errorLogVars, workVars>>

LogNumbers ==
    /\ swapping = Len(Numbers) /\ swapping' = 0
    /\ UNCHANGED <<errorLogVars, workVars, count, logged>>

LogErrors == (CancelAll \/ Logs) /\ UNCHANGED <<workVars, count, logged, swapping>>

RefresherNext ==
    \/ \E w \in Worker : Scan(w) \/ StartRefresh(w) \/ Quit(w)
    \/ RefreshSucceeds \/ RefreshFailed \/ ReportError
    \/ Swap \/ LogNumbers \/ LogErrors

RefresherSpec == RefresherInit /\ [][RefresherNext]_refresherVars

-----------------------------------------------------------------------------
\* Every entry found is accounted for once: it waits for its refresh, is being
\* refreshed, has yet to report, is counted as a success or a failure, or was
\* given up at the end of the context.  The logs lose and double nothing,
\* whatever is counted while they are written.
RefreshesAddUp ==
    Counted("found") = Cardinality({w \in Worker : worker[w] = "await"})
                         + fetching + failing + missed
                         + Counted("success") + Counted("failed")
===============================================================================
