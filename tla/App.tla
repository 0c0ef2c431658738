---------------------------------- MODULE App ----------------------------------
(***************************************************************************)
(* The life of the process: cmd/main.go, internal/cache/app.go, the HTTP   *)
(* server's start and shutdown, and the graceful shutdown of pkg/shutdown, *)
(* around the dumper.  A process loads the last dump, serves until it gets *)
(* a signal, shuts the server down, dumps and exits; or it is killed at    *)
(* any point, or main runs into its timeout and leaves.  Then another      *)
(* process may start on the same disk.                                     *)
(***************************************************************************)
EXTENDS Dump

CONSTANTS
    MaxStarts   \* bound: how many processes there are

ASSUME AppAssumption == MaxStarts \in Nat

VARIABLES
    main,     \* the main goroutine; "down": there is no process
    app,      \* the goroutine that Start makes
    serve,    \* HTTP.serve
    shut,     \* HTTP.shutdown
    ctxDone,  \* is the root context cancelled?
    handler,  \* a request in flight
    enabled,  \* cfg.IsEnabled()
    graceful, \* did main report a graceful shutdown of the last process?
    skipped,  \* history: did its Close find the cache switched off?
    starts    \* how many processes there were

process == <<main, app, serve, shut, ctxDone, handler, enabled>>
vars    == <<cache, dumper, process, graceful, skipped, starts>>

TypeOK ==
    /\ DumpTypeOK
    /\ main \in {"down", "load", "await", "cancel"}
    /\ app \in {"none", "run", "chosen", "start", "stop", "dump", "rotate", "closed",
               "done"}
    /\ serve \in {"none", "start", "listen", "ended"}
    /\ shut \in {"none", "wait", "drain", "ended"}
    /\ ctxDone \in BOOLEAN
    /\ handler \in {"none", "request", "stuck"}
    /\ enabled \in BOOLEAN
    /\ graceful \in BOOLEAN
    /\ skipped \in BOOLEAN
    /\ starts \in 0..MaxStarts

NoProcess ==
    /\ main = "down" /\ app = "none" /\ serve = "none" /\ shut = "none"
    /\ ctxDone = FALSE /\ handler = "none" /\ enabled = FALSE

Init == DumpInit /\ NoProcess /\ graceful = FALSE /\ skipped = FALSE /\ starts = 0

-----------------------------------------------------------------------------
(* main and the shutdown with its timeout.                                 *)

Start ==
    /\ main = "down" /\ starts < MaxStarts
    /\ main' = "load" /\ starts' = starts + 1 /\ enabled' \in BOOLEAN
    /\ graceful' = FALSE /\ skipped' = FALSE /\ faults' = 0
    /\ UNCHANGED <<cache, disk, job, seen, excess, complete, torn, app, serve, shut, ctxDone, handler>>

\* loadData, then Start leaves the rest to a goroutine; a load that fails is
\* logged and the service starts with what could be read.  A cache that is
\* switched off loads nothing.
LoadData ==
    /\ main = "load"
    /\ main' = "await" /\ app' = "run"
    /\ IF enabled THEN Load ELSE UNCHANGED <<cache, dumper>>
    /\ UNCHANGED <<serve, shut, ctxDone, handler, enabled, graceful, skipped, starts>>

\* Interactively: a version of the user's choice, or none.
LoadChosen ==
    /\ main = "load"
    /\ main' = "await" /\ app' = "chosen"
    /\ \/ \E i \in DOMAIN disk : LoadVersion(i)
       \/ UNCHANGED <<cache, dumper>>
    /\ UNCHANGED <<serve, shut, ctxDone, handler, enabled, graceful, skipped, starts>>

\* ListenCancelAndAwait gets a signal and cancels the root context.
Signal ==
    /\ main = "await"
    /\ main' = "cancel" /\ ctxDone' = TRUE
    /\ UNCHANGED <<cache, dumper, app, serve, shut, handler, enabled, graceful, skipped, starts>>

\* The process is gone, with all its goroutines and the cache.
Ends(ok) ==
    /\ Dies
    /\ main' = "down" /\ app' = "none" /\ serve' = "none" /\ shut' = "none"
    /\ ctxDone' = FALSE /\ handler' = "none" /\ enabled' = FALSE
    /\ graceful' = ok
    /\ UNCHANGED <<skipped, starts>>

\* NewApp or Start returns an error.
Refused  == main = "load" /\ Ends(FALSE)
\* The wait group is done before the timer fires.
Success  == main = "cancel" /\ app = "done" /\ Ends(TRUE)
Timeout  == main = "cancel" /\ Ends(FALSE)
Killed   == main # "down" /\ Ends(FALSE)

-----------------------------------------------------------------------------
(* The application's goroutine and the HTTP server.                        *)

\* db.Run, probe.Watch, and server.Start up to its wait: it starts a goroutine
\* that serves and another for the shutdown.
Serve ==
    /\ app \in {"run", "chosen"} /\ app' = "start"
    /\ serve' = "start" /\ shut' = "wait"
    /\ UNCHANGED <<cache, dumper, main, ctxDone, handler, enabled, graceful, skipped, starts>>

\* The library's ListenAndServe has its listener.
Listen ==
    /\ serve = "start" /\ serve' = "listen"
    /\ UNCHANGED <<cache, dumper, main, app, shut, ctxDone, handler, enabled, graceful, skipped, starts>>

\* ListenAndServe fails, say because the port is taken: nothing else happens,
\* since the server also waits for its shutdown goroutine.
ListenFails ==
    /\ serve \in {"start", "listen"} /\ handler = "none" /\ serve' = "ended"
    /\ UNCHANGED <<cache, dumper, main, app, shut, ctxDone, handler, enabled, graceful, skipped, starts>>

\* ShutdownWithContext closes the listener and waits for the requests.  Where
\* there is no listener, or none yet, it returns at once.
ShutdownStarts ==
    /\ shut = "wait" /\ ctxDone
    /\ \/ serve = "listen" /\ shut' = "drain" /\ serve' = "ended"
       \/ serve # "listen" /\ shut' = "ended" /\ UNCHANGED serve
    /\ UNCHANGED <<cache, dumper, main, app, ctxDone, handler, enabled, graceful, skipped, starts>>

\* Mutation: the shutdown has no timeout of its own.
WaitsForAll ==
    /\ shut = "drain" /\ handler = "none" /\ shut' = "ended"
    /\ UNCHANGED <<cache, dumper, main, app, serve, ctxDone, handler, enabled, graceful, skipped, starts>>

\* All requests are answered, or ten seconds are over.
ShutdownEnds ==
    /\ shut = "drain" /\ shut' = "ended"
    /\ UNCHANGED <<cache, dumper, main, app, serve, ctxDone, handler, enabled, graceful, skipped, starts>>

\* Mutation: the goroutine does not wait for the dump.
StopsFirst ==
    /\ app = "start" /\ serve = "ended" /\ shut = "ended"
    /\ app' = "closed"
    /\ UNCHANGED <<cache, dumper, main, serve, shut, ctxDone, handler, enabled, graceful, skipped, starts>>

\* server.Start returns when serve and shutdown have both ended.
ServerStops ==
    /\ app = "start" /\ serve = "ended" /\ shut = "ended"
    /\ app' = "stop"
    /\ UNCHANGED <<cache, dumper, main, serve, shut, ctxDone, handler, enabled, graceful, skipped, starts>>

\* db.Close dumps, or gets an error, which is only logged.  A cache that is
\* switched off by then is not dumped, and nothing is logged.
Close ==
    /\ app = "stop"
    /\ \/ enabled /\ app' = "dump" /\ DumpStarts /\ UNCHANGED skipped
       \/ enabled /\ app' = "closed" /\ DumpRefused /\ UNCHANGED skipped
       \/ ~enabled /\ app' = "closed" /\ skipped' = TRUE /\ UNCHANGED <<cache, dumper>>
    /\ UNCHANGED <<main, serve, shut, ctxDone, handler, enabled, graceful, starts>>

DumpShard(s) ==
    /\ app = "dump"
    /\ Create(s) \/ CreateFails(s) \/ Write(s) \/ WriteFails(s) \/ Rename(s)
    /\ UNCHANGED <<process, graceful, skipped, starts>>

Dumped ==
    /\ app = "dump" /\ app' = "rotate"
    /\ DumpEnds
    /\ UNCHANGED <<main, serve, shut, ctxDone, handler, enabled, graceful, skipped, starts>>

Rotate ==
    /\ app = "rotate"
    /\ \/ RemoveFiles /\ UNCHANGED app
       \/ RemoveDir /\ UNCHANGED app
       \/ excess = <<>> /\ app' = "closed" /\ UNCHANGED <<cache, dumper>>
    /\ UNCHANGED <<main, serve, shut, ctxDone, handler, enabled, graceful, skipped, starts>>

\* stop has returned: gsh.Done.
Done ==
    /\ app = "closed" /\ app' = "done"
    /\ UNCHANGED <<cache, dumper, main, serve, shut, ctxDone, handler, enabled, graceful, skipped, starts>>

-----------------------------------------------------------------------------
(* Requests, and the background goroutines of the storage.                 *)

Request ==
    /\ serve = "listen" /\ handler = "none" /\ handler' = "request"
    /\ UNCHANGED <<cache, dumper, main, app, serve, shut, ctxDone, enabled, graceful, skipped, starts>>

\* A request may store an entry; it may be late for the shutdown.
Answer ==
    /\ handler = "request" /\ handler' = "none"
    /\ \/ \E k \in Key : cache' = cache \cup {k}
       \/ UNCHANGED cache
    /\ UNCHANGED <<dumper, main, app, serve, shut, ctxDone, enabled, graceful, skipped, starts>>

\* WalkShards clears shard by shard; once the context is done it returns early
\* and then waits for shards that it never started.
Clear ==
    /\ handler = "request"
    /\ \/ ~ctxDone /\ cache' = {} /\ handler' = "none"
       \/ /\ ctxDone /\ handler' = "stuck"
          /\ \E S \in (SUBSET Shard) \ {Shard} : cache' = {k \in cache : ShardOf[k] \notin S}
    /\ UNCHANGED <<dumper, main, app, serve, shut, ctxDone, enabled, graceful, skipped, starts>>

\* GET /cache/on and /cache/off.
Switch ==
    /\ handler = "request" /\ handler' = "none" /\ enabled' \in BOOLEAN
    /\ UNCHANGED <<cache, dumper, main, app, serve, shut, ctxDone, graceful, skipped, starts>>

\* The evictor, which may be in a pass when the context ends.
Evict ==
    /\ app \notin {"none", "run", "chosen"}
    /\ \E k \in cache : cache' = cache \ {k}
    /\ UNCHANGED <<dumper, process, graceful, skipped, starts>>

Next ==
    \/ Start \/ LoadData \/ LoadChosen \/ Signal \/ Refused \/ Success \/ Timeout \/ Killed
    \/ Serve \/ Listen \/ ListenFails \/ ShutdownStarts \/ ShutdownEnds \/ ServerStops
    \/ Close \/ (\E s \in Shard : DumpShard(s)) \/ Dumped \/ Rotate \/ Done
    \/ Request \/ Answer \/ Clear \/ Switch \/ Evict

Spec == Init /\ [][Next]_vars

\* Each goroutine goes on: main, the application's, the two of the server and
\* those of the dump.  Of the timers only the ten seconds of the server's
\* shutdown are relied on, not the timeout of main.
Fairness ==
    /\ WF_vars(LoadData \/ Success)
    /\ WF_vars(Serve \/ ServerStops \/ Close \/ Dumped \/ Rotate \/ Done)
    /\ WF_vars(Listen)
    /\ WF_vars(ShutdownStarts \/ ShutdownEnds)
    /\ \A s \in Shard : WF_vars(DumpShard(s))

FairSpec == Spec /\ Fairness

-----------------------------------------------------------------------------
(* Properties.                                                             *)

\* Version numbers follow the times of modification, across crashes, failed
\* dumps and rotations: the newest version is both the highest and the last
\* one written, which rotation (by time) and numbering (by name) rely on.
\* Only a removal that stops halfway leaves an old version as the newest.
VersionsGrow ==
    ~torn /\ ~Begun => \A i, j \in 1..Len(disk) : i < j => disk[i].ver < disk[j].ver

\* "Service was gracefully shut down" is only said when the dump is on disk, or
\* the cache was switched off when Close looked: then it is said of a cache
\* that is lost.
GracefulMeansDumped ==
    graceful /\ main = "down" /\ faults = 0 /\ ~skipped =>
        disk # <<>> /\ Last(disk).whole

Loaded == main = "await" /\ app = "run" /\ enabled

\* When the last dump was complete, the next process restores exactly it, or so
\* much of it that memory is at its threshold, where admission may refuse the
\* rest; unless a removal stopped halfway: its remains would be loaded instead.
RestoresLastDump ==
    Loaded /\ ~torn =>
        \A i \in DOMAIN disk : disk[i].ver = Newest /\ disk[i].whole =>
            cache = complete \/ (cache \subseteq complete /\ cache \in Full)

\* The last complete dump is only removed for MaxVersions newer, broken ones.
CompleteSurvivesRotation ==
    complete # Nil /\ (\A i \in 1..Len(disk) : ~disk[i].whole) =>
        MaxVersions > 0 /\ Len(disk) >= MaxVersions

\* The shutdown looked for the listener before there was one: the server goes
\* on listening, until the timeout of main.
Unheard == serve = "listen" /\ shut = "ended"

\* A signal ends the process without the timeout of main: nobody in the chain
\* from the context to the wait group waits for somebody who waits for it.  Only
\* a signal that comes before the server listens may not be heard.
SignalEndsUnlessUnheard == main = "cancel" ~> main = "down" \/ Unheard

\* "Load restores last complete snapshot" (README.md).
RestoresLastComplete == Loaded /\ complete # Nil => cache = complete
===============================================================================
