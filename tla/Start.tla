--------------------------------- MODULE Start ---------------------------------
(***************************************************************************)
(* How the service gets from its command line to the application that      *)
(* serves: the configuration, the building of the application, and the     *)
(* menu of an interactive start, from which the operator can replace the   *)
(* application by one with another configuration.  All of it is the main   *)
(* goroutine; what the operator, the files and the backends do are choices.*)
(* App has the dumps on disk and the life after.                           *)
(***************************************************************************)
EXTENDS Integers, Sequences

CONSTANTS
    NoFile,
    File,      \* configuration files, "local" and "default" among them
    Content,   \* what the files may hold: configurations, see Config
    Missing,   \* the content of a file that does not exist
    Broken,    \* a content that is no valid configuration
    BackendId, \* names of backends
    Version,   \* versions in the dump directory
    MaxApps    \* bound: applications that are built

\* One backend of a configuration, or several in a cluster.
Config ==
    [cluster : BOOLEAN, backends : Seq([id : BackendId, enabled : BOOLEAN, rate : Nat]),
     enabled : BOOLEAN, dump : BOOLEAN, mock : BOOLEAN]

\* The last conjunct: what the operator chooses tells files, versions and the
\* other items of the menu apart.
ASSUME StartAssumption ==
    /\ NoFile \notin File /\ {"local", "default"} \subseteq File
    /\ {Missing, Broken} \subseteq Content /\ MaxApps \in Nat \ {0}
    /\ Content \ {Missing, Broken} \subseteq Config
    /\ Version \cap File = {} /\ {"none", "nothing", "mocks"} \cap (File \cup Version) = {}

VARIABLES
    stage,     \* where main is
    content,   \* content[f]: the configuration in file f
    wanted,    \* the file that is to be loaded
    apps,      \* the applications built so far: the configuration of each
    app,       \* the one that c points to
    loaded,    \* loaded[a]: what was loaded into the storage of a
    gauges,    \* backends whose gauges are registered (process-wide)
    choice     \* history: what the operator chose, or the file loaded last

startVars == <<stage, content, wanted, apps, app, loaded, gauges, choice>>

Stage == {"config", "build", "menu", "files", "retry", "data", "save", "serving",
          "stopped", "ended", "panicked"}

StartTypeOK ==
    /\ stage \in Stage
    /\ content \in [File -> Content] /\ wanted \in File \cup {NoFile}
    /\ \A a \in DOMAIN apps : apps[a] \in Config
    /\ app \in 0..Len(apps) /\ DOMAIN loaded = DOMAIN apps
    /\ gauges \subseteq BackendId

\* The operator starts with a file, or without.
StartInit ==
    /\ stage = "config" /\ content \in [File -> Content] /\ wanted \in File \cup {NoFile}
    /\ apps = <<>> /\ app = 0 /\ loaded = <<>> /\ gauges = {}
    /\ choice = "none"

Goto(s) == stage' = s

-----------------------------------------------------------------------------
(* Configuration and application.                                           *)

\* LoadConfig gives a configuration or fails.
Loads(f) == content[f] \notin {Missing, Broken}

\* loadCfg: the file that was given, or else the local one and then the other.
LoadCfg ==
    /\ stage = "config"
    /\ LET f == IF wanted # NoFile THEN wanted
                ELSE IF Loads("local") THEN "local" ELSE "default"
       IN  IF Loads(f) THEN Goto("build") /\ wanted' = f /\ choice' = f
                       ELSE Goto("ended") /\ UNCHANGED <<wanted, choice>>
    /\ UNCHANGED <<content, apps, app, loaded, gauges>>

\* A gauge that exists already makes the process panic.
newBackendMetrics(r, id) ==
    IF id \in gauges THEN [r EXCEPT !.outcome = "panic"] ELSE [r EXCEPT !.made = @ \cup {id}]

\* One backend of the configuration: it is left out, named twice, or made.
AddBackend(r, b) ==
    IF ~b.enabled \/ r.outcome # "ok" THEN r
    ELSE IF b.id \in r.made THEN [r EXCEPT !.outcome = "error"]
    ELSE newBackendMetrics(r, b.id)

\* initBackends: the outcome, and the backends whose slots, and with them their
\* gauges, were made.
InitBackends(cfg) ==
    LET nothing == [outcome |-> "ok", made |-> {}]
        added[n \in 0..Len(cfg.backends)] ==
            IF n = 0 THEN nothing ELSE AddBackend(added[n - 1], cfg.backends[n])
    IN  IF ~cfg.cluster THEN nothing
        ELSE IF \/ \A n \in DOMAIN cfg.backends : cfg.backends[n].rate = 0
                \/ \A n \in DOMAIN cfg.backends : ~cfg.backends[n].enabled
             THEN [nothing EXCEPT !.outcome = "error"]
        ELSE added[Len(cfg.backends)]

\* NewApp for the file that is wanted, and where its caller goes on.  c is replaced
\* by the new application.
Build(onSuccess, onError) ==
    LET cfg == content[wanted]
        r   == InitBackends(cfg)
    IN  /\ Len(apps) < MaxApps
        /\ gauges' = gauges \cup r.made
        /\ \/ /\ r.outcome = "ok"
              /\ apps' = Append(apps, cfg) /\ loaded' = Append(loaded, {})
              /\ app' = Len(apps) + 1
              /\ stage' \in onSuccess
           \/ r.outcome = "error" /\ Goto(onError) /\ UNCHANGED <<apps, app, loaded>>
           \/ r.outcome = "panic" /\ Goto("panicked") /\ UNCHANGED <<apps, app, loaded>>
        /\ UNCHANGED <<content, wanted, choice>>

\* main builds the first application; the start is interactive or not.
BuildFirst == stage = "build" /\ apps = <<>> /\ Build({"menu", "data"}, "ended")

\* Mutation: the pointer is moved instead of what it points to, and main keeps
\* the old application.
RebuildLost ==
    /\ stage = "build" /\ apps # <<>>
    /\ LET r == InitBackends(content[wanted])
       IN  /\ Len(apps) < MaxApps
           /\ gauges' = gauges \cup r.made
           /\ IF r.outcome = "ok"
              THEN /\ apps' = Append(apps, content[wanted])
                   /\ loaded' = Append(loaded, {})
                   /\ Goto("data")
              ELSE Goto("retry") /\ UNCHANGED <<apps, loaded>>
           /\ UNCHANGED <<content, wanted, choice, app>>

Rebuild == stage = "build" /\ apps # <<>> /\ Build({"data"}, "retry")

-----------------------------------------------------------------------------
(* The menu.                                                                *)

Chosen(c) == choice' = c

\* A version is confirmed and loaded, or the start fails.
ChooseVersion(v) ==
    /\ stage = "menu"
    /\ \/ Goto("save") /\ Chosen(v) /\ loaded' = [loaded EXCEPT ![app] = @ \cup {v}]
       \/ Goto("ended") /\ UNCHANGED <<choice, loaded>>
    /\ UNCHANGED <<content, wanted, apps, app, gauges>>

ChooseNothing ==
    /\ stage = "menu" /\ Goto("save") /\ Chosen("nothing")
    /\ UNCHANGED <<content, wanted, apps, app, loaded, gauges>>

\* The mocks are stored by a goroutine of their own, which goes on while serving.
ChooseMocks ==
    /\ stage = "menu" /\ Goto("save") /\ Chosen("mocks")
    /\ loaded' = [loaded EXCEPT ![app] = @ \cup {"mocks"}]
    /\ UNCHANGED <<content, wanted, apps, app, gauges>>

\* The dump directory cannot be read, the selection is aborted, or "Exit".
LeaveMenu ==
    /\ stage \in {"menu", "files"} /\ Goto("ended")
    /\ UNCHANGED <<content, wanted, apps, app, loaded, gauges, choice>>

ChooseFiles ==
    /\ stage = "menu" /\ Goto("files")
    /\ UNCHANGED <<content, wanted, apps, app, loaded, gauges, choice>>

\* "Back", or there are no files.
BackToMenu ==
    /\ stage = "files" /\ Goto("menu")
    /\ UNCHANGED <<content, wanted, apps, app, loaded, gauges, choice>>

\* A file that does not load leaves the list of files on the screen.  The pattern
\* of their names does not match the default file's.
ChooseFile(f) ==
    /\ stage = "files" /\ f # "default" /\ content[f] # Missing
    /\ IF Loads(f) THEN Goto("build") /\ wanted' = f /\ Chosen(f)
                   ELSE UNCHANGED <<stage, wanted, choice>>
    /\ UNCHANGED <<content, apps, app, loaded, gauges>>

\* The local file, or else the default one, is edited and loaded.  (If no editor
\* runs the menu comes again.)
EditFile(c) ==
    LET f == IF content["local"] # Missing THEN "local" ELSE "default"
    IN  /\ stage = "menu" /\ c # Missing
        /\ IF content[f] = Missing THEN UNCHANGED content
                                  ELSE content' = [content EXCEPT ![f] = c]
        /\ IF Missing # content[f] /\ c # Broken
           THEN Goto("build") /\ wanted' = f /\ Chosen(f)
           ELSE Goto("ended") /\ UNCHANGED <<wanted, choice>>
        /\ UNCHANGED <<apps, app, loaded, gauges>>

\* The application could not be built: "Continue anyway?"
AskRetry ==
    /\ stage = "retry" /\ stage' \in {"menu", "ended"}
    /\ UNCHANGED <<content, wanted, apps, app, loaded, gauges, choice>>

-----------------------------------------------------------------------------
(* Data, serving and the end.                                               *)

\* loadData without questions: what the configuration of c says.  A dump that
\* does not load is only logged.
LoadFromConfig ==
    /\ stage = "data" /\ Goto("serving")
    /\ LET cfg  == apps[app]
           mock == IF cfg.mock THEN {"mocks"} ELSE {}
       IN  \E dump \in SUBSET {"dump"} :
             /\ dump # {} => cfg.dump
             /\ loaded' = [loaded EXCEPT ![app] = IF cfg.enabled THEN @ \cup dump \cup mock ELSE @]
    /\ UNCHANGED <<content, wanted, apps, app, gauges, choice>>

\* "Save cache state ... on termination?"  A no leaves the configuration as it is.
AskSave ==
    /\ stage = "save" /\ Goto("serving")
    /\ apps' \in {apps, [apps EXCEPT ![app].dump = TRUE]}
    /\ UNCHANGED <<content, wanted, app, loaded, gauges, choice>>

Stop ==
    /\ stage = "serving" /\ Goto("stopped")
    /\ UNCHANGED <<content, wanted, apps, app, loaded, gauges, choice>>

StartNext ==
    \/ LoadCfg \/ BuildFirst \/ Rebuild \/ LoadFromConfig \/ AskSave \/ AskRetry \/ Stop
    \/ ChooseNothing \/ ChooseMocks \/ ChooseFiles \/ LeaveMenu \/ BackToMenu
    \/ \E v \in Version : ChooseVersion(v)
    \/ \E f \in File : ChooseFile(f)
    \/ \E c \in Content : EditFile(c)

StartSpec == StartInit /\ [][StartNext]_startVars

-----------------------------------------------------------------------------
\* The application that serves is the last one built; it has in its storage what
\* was chosen last, or what the configuration in the file chosen last, which then
\* is its own, says; and nothing went into the storage of another application.
ServesWhatItLoaded ==
    stage \in {"serving", "stopped"} =>
        /\ app = Len(apps)
        /\ \A a \in DOMAIN apps \ {app} : loaded[a] = {}
        /\ choice \in File => apps[app] = content[choice]
        /\ loaded[app] \subseteq
              CASE choice \in Version -> {choice}
                [] choice = "nothing" -> {}
                [] choice = "mocks"   -> {"mocks"}
                [] choice \in File    -> {s \in {"dump", "mocks"} :
                                           /\ apps[app].enabled
                                           /\ s = "dump" => apps[app].dump
                                           /\ s = "mocks" => apps[app].mock}
===============================================================================
