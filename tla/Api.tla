---------------------------------- MODULE Api ----------------------------------
(***************************************************************************)
(* The HTTP API of internal/cache/api: the index handler with its cache    *)
(* and proxy paths, the switch, and clearing the cache with a token.  The  *)
(* storage is the set of keys it has an entry for (Storage has its steps), *)
(* the upstream an environment that answers or fails (Upstream).           *)
(* Counters and the log of errors are left out.                            *)
(***************************************************************************)
EXTENDS Integers, FiniteSets

CONSTANTS
    NoToken,
    Client,   \* requests that are handled at a time
    Item,     \* keys that requests ask for
    Ruled,    \* those whose path has a cache rule
    Token     \* bound: tokens that are generated

ASSUME ApiAssumption == Ruled \subseteq Item /\ NoToken \notin Token

VARIABLES
    enabled,  \* cfg.IsEnabled()
    store,    \* the keys found in the cache
    token,    \* ClearController.token
    fresh,    \* is it before its expiry?
    request,  \* request[c]: what c does, and its key or its token
    cleared,  \* history: cleared[t]: how often token t was accepted
    panicked

apiVars == <<enabled, store, token, fresh, request, cleared, panicked>>

Request ==
    [pc : {"idle", "generate", "clear"}]
      \cup [pc : {"proxy"}, key : Item] \cup [pc : {"get", "miss", "set"}, key : Ruled]
      \cup [pc : {"respond"}, key : Ruled, status : {200, 404}, entry : BOOLEAN]

ApiTypeOK ==
    /\ enabled \in BOOLEAN
    /\ store \subseteq Ruled
    /\ token \in Token \cup {NoToken} /\ fresh \in BOOLEAN
    /\ request \in [Client -> Request]
    /\ cleared \in [Token -> Nat]
    /\ panicked \in BOOLEAN

Idle == [pc |-> "idle"]

ApiInit ==
    /\ enabled \in BOOLEAN
    /\ store = {}
    /\ token = NoToken /\ fresh = FALSE
    /\ request = [c \in Client |-> Idle]
    /\ cleared = [t \in Token |-> 0]
    /\ panicked = FALSE

Goes(c, r) == request' = [request EXCEPT ![c] = r]
AtPc(c, pc)  == request[c].pc = pc

-----------------------------------------------------------------------------
(* Index.                                                                  *)

\* Mutation: paths without a rule are cached, too.
IndexWithoutRule(c, k) ==
    /\ AtPc(c, "idle")
    /\ Goes(c, [pc |-> IF enabled THEN "get" ELSE "proxy", key |-> k])
    /\ UNCHANGED <<enabled, store, token, fresh, cleared, panicked>>

\* The switch is read once; a path without a rule is proxied.
Index(c, k) ==
    /\ AtPc(c, "idle")
    /\ Goes(c, [pc |-> IF enabled /\ k \in Ruled THEN "get" ELSE "proxy", key |-> k])
    /\ UNCHANGED <<enabled, store, token, fresh, cleared, panicked>>

\* A hit is answered from its entry: a payload is never empty, which is all
\* that could send a hit to the proxy.
Get(c) ==
    /\ AtPc(c, "get")
    /\ LET k == request[c].key
       IN  Goes(c, IF k \in store THEN Idle ELSE [pc |-> "miss", key |-> k])
    /\ UNCHANGED <<enabled, store, token, fresh, cleared, panicked>>

Respond(k, status, entry) ==
    [pc |-> "respond", key |-> k, status |-> status, entry |-> entry]

\* The upstream fails and the answer is 503, or it answers; with another status
\* than 200 (404 stands for any) there is no entry.
Fetch(c) ==
    /\ AtPc(c, "miss")
    /\ LET k == request[c].key
       IN  \/ Goes(c, Idle)
           \/ Goes(c, [pc |-> "set", key |-> k])
           \/ Goes(c, Respond(k, 404, FALSE))
    /\ UNCHANGED <<enabled, store, token, fresh, cleared, panicked>>

\* Mutation: the entry is taken only if the storage did.
SetIfPersisted(c) ==
    /\ AtPc(c, "set")
    /\ LET k == request[c].key
       IN  \/ store' = store \cup {k} /\ Goes(c, Respond(k, 200, TRUE))
           \/ UNCHANGED store /\ Goes(c, Respond(k, 200, FALSE))
    /\ UNCHANGED <<enabled, token, fresh, cleared, panicked>>

\* The storage may reject the entry, which is answered all the same.
Set(c) ==
    /\ AtPc(c, "set")
    /\ LET k == request[c].key
       IN  /\ store' = store \cup {k} \/ UNCHANGED store
           /\ Goes(c, Respond(k, 200, TRUE))
    /\ UNCHANGED <<enabled, token, fresh, cleared, panicked>>

\* The answer carries the time of the entry's refresh, whose address is nil if
\* there is no entry.  Nobody recovers from the panic of a handler.
FromResponse(c) ==
    /\ AtPc(c, "respond")
    /\ IF request[c].entry THEN Goes(c, Idle) /\ UNCHANGED panicked
                           ELSE panicked' = TRUE /\ UNCHANGED request
    /\ UNCHANGED <<enabled, store, token, fresh, cleared>>

\* Any answer is passed on; a failure is answered with 503.
Proxy(c) ==
    /\ AtPc(c, "proxy")
    /\ Goes(c, Idle)
    /\ UNCHANGED <<enabled, store, token, fresh, cleared, panicked>>

-----------------------------------------------------------------------------
(* The switch, and HandleClear.                                            *)

Switch(on) ==
    /\ enabled' = on
    /\ UNCHANGED <<store, token, fresh, request, cleared, panicked>>

\* Five minutes are over.
Expires ==
    /\ token # NoToken /\ fresh /\ fresh' = FALSE
    /\ UNCHANGED <<enabled, store, token, request, cleared, panicked>>

\* Without a token: the answer is the present one, or one is to be made.
AskToken(c) ==
    /\ AtPc(c, "idle")
    /\ IF token # NoToken /\ fresh THEN UNCHANGED request ELSE Goes(c, [pc |-> "generate"])
    /\ UNCHANGED <<enabled, store, token, fresh, cleared, panicked>>

\* The lock was given up in between: this may replace another client's token.
\* The random bytes are not those of a token in use or used before.
Generate(c, t) ==
    /\ AtPc(c, "generate")
    /\ t # token /\ cleared[t] = 0
    /\ token' = t /\ fresh' = TRUE
    /\ Goes(c, Idle)
    /\ UNCHANGED <<enabled, store, cleared, panicked>>

GenerateFails(c) ==
    /\ AtPc(c, "generate") /\ Goes(c, Idle)
    /\ UNCHANGED <<enabled, store, token, fresh, cleared, panicked>>

\* Mutation: the token is only voided by the clearing.
UseKeepsToken(c, t) ==
    /\ AtPc(c, "idle")
    /\ IF t = token /\ fresh
       THEN Goes(c, [pc |-> "clear"]) /\ cleared' = [cleared EXCEPT ![t] = @ + 1]
       ELSE UNCHANGED <<request, cleared>>
    /\ UNCHANGED <<enabled, store, token, fresh, panicked>>

\* Whatever is presented, the token is void from then on.
UseToken(c, t) ==
    /\ AtPc(c, "idle")
    /\ token' = NoToken /\ fresh' = FALSE
    /\ IF t = token /\ fresh
       THEN Goes(c, [pc |-> "clear"]) /\ cleared' = [cleared EXCEPT ![t] = @ + 1]
       ELSE UNCHANGED <<request, cleared>>
    /\ UNCHANGED <<enabled, store, panicked>>

Clear(c) ==
    /\ AtPc(c, "clear")
    /\ store' = {}
    /\ Goes(c, Idle)
    /\ UNCHANGED <<enabled, token, fresh, cleared, panicked>>

ApiNext ==
    /\ ~panicked
    /\ \/ Expires \/ \E on \in BOOLEAN : Switch(on)
       \/ \E c \in Client :
           \/ \E k \in Item : Index(c, k)
           \/ Get(c) \/ Fetch(c) \/ Set(c) \/ FromResponse(c) \/ Proxy(c)
           \/ AskToken(c) \/ GenerateFails(c) \/ Clear(c)
           \/ \E t \in Token : Generate(c, t) \/ UseToken(c, t)

ApiSpec == ApiInit /\ [][ApiNext]_apiVars

-----------------------------------------------------------------------------
\* A token is accepted once, also when two clients present it at a time.
ClearsOncePerToken == \A t \in Token : cleared[t] <= 1

\* Only a miss that the upstream answered with another status than 200 stops
\* the program, whatever is switched, cleared, rejected and requested meanwhile.
PanicsOnlyOnRefusedMiss ==
    panicked => \E c \in Client : AtPc(c, "respond") /\ request[c].status # 200
===============================================================================
