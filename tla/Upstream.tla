------------------------------- MODULE Upstream -------------------------------
(***************************************************************************)
(* The upstream cluster of pkg/upstream: the slot of each backend, the     *)
(* goroutines that renew and run its rate provider, the monitor's walks    *)
(* over the slots and the checks they start, and the requests that take a  *)
(* slot from the channel.                                                  *)
(*                                                                         *)
(* A step is what one goroutine does under the lock of a slot, or one      *)
(* access to a channel or an atomic.  c.mu is held for reading by a walk   *)
(* that still has slots to visit; the lock of slot b is held across steps  *)
(* only by the check that is about to bury b.  Time passes freely: a       *)
(* ticker may fire and a downtime may be over whenever the code asks.      *)
(***************************************************************************)
EXTENDS Integers, Sequences, FiniteSets, FiniteSetsExt

CONSTANTS
    Backend,        \* the enabled backends of the configuration
    Nil,
    Handler,        \* goroutines that call Fetch
    Provider,       \* bound: names for the goroutines that run a provider
    Renewal,        \* bound: names for the goroutines that renew a provider
    Rate,           \* Rate[b]: backend.rate
    Await,          \* upstream.policy is await, not deny
    Steps,          \* 100 / defaultThrottleStep, 10 in the code
    ProbesInRow,    \* probesInRow, 5 in the code
    MinRequests,    \* numIdleReqs of checkErrRate, 50 in the code
    ErrMin, ErrMax, \* errMinRateThreshold, errMaxRateThreshold in percent
    SlotChCap,      \* capacity of slotCh, the sum of the rates in the code
    MaxChecks,      \* bound: kinds of walks and checks that run at a time
    MaxTotal        \* bound: requests counted between two resets

maxThrottles == Steps - 1

ASSUME UpstreamAssumption ==
    /\ \A b \in Backend : Rate[b] \in Nat \ {0}
    /\ Await \in BOOLEAN
    /\ Steps \in Nat /\ Steps >= 3
    /\ {ProbesInRow, MinRequests, ErrMin, ErrMax, SlotChCap, MaxChecks, MaxTotal} \subseteq Nat
    /\ Nil \notin Backend \cup Provider \cup [slot : Backend, limit : Nat]
    /\ Nil \notin [slot : Backend, limit : Nat, phase : {"born", "running"},
                   cancelled : BOOLEAN]
    /\ IsFiniteSet(Handler)

Walk == {"idle", "sick", "dead", "rate"}   \* what the monitor walks for
Kind == Walk \cup {"boot"}

VARIABLES
    slot,       \* slot[b]: the backendSlot of b
    renewal,    \* renewal[g]: the renewRateProvider(limit) that g has yet to run
    provider,   \* provider[p]: the loop that p runs for a slot
    all,        \* c.all: the backends that are not buried
    walk,       \* walk[k]: the slots the walk k has yet to visit
    reset,      \* the minute is over: the error rate walk resets the counters
    check,      \* check[k][b]: the next step of the check of b
    burying,    \* slots locked by a check that waits for c.mu
    slotCh,     \* the channel of available slots
    call,       \* call[h]: what h does and on which slot
    crashed     \* ratelimit.New(0) divided by zero

monitor == <<walk, reset, check, burying>>
vars == <<slot, renewal, provider, all, monitor, slotCh, call, crashed>>

\* No limit is above the rate of its backend.
TypeOK ==
    /\ slot \in [Backend ->
         [state : {"healthy", "sick", "dead"}, throttles : 0..maxThrottles,
          limit : Nat, cancelProvider : Provider \cup {Nil},
          sucProbes : 0..(ProbesInRow + 1), errProbes : 0..(ProbesInRow + 1),
          total : 0..MaxTotal, errors : Nat]]
    /\ renewal \in [Renewal -> [slot : Backend, limit : Nat] \cup {Nil}]
    /\ provider \in [Provider ->
         [slot : Backend, limit : Nat, phase : {"born", "running"},
          cancelled : BOOLEAN] \cup {Nil}]
    /\ \A b \in Backend : slot[b].limit <= Rate[b]
    /\ \A g \in Renewal : renewal[g] # Nil => renewal[g].limit <= Rate[renewal[g].slot]
    /\ \A p \in Provider : provider[p] # Nil => provider[p].limit <= Rate[provider[p].slot]
    /\ all \subseteq Backend /\ burying \subseteq all
    /\ walk \in [Walk -> SUBSET Backend] /\ reset \in BOOLEAN
    /\ check \in [Kind -> [Backend -> {"none", "probe", "decide", "decideReset"}]]
    /\ slotCh \in Seq(Backend) /\ Len(slotCh) <= SlotChCap
    /\ call \in [Handler -> [pc : {"idle", "take", "fetch"},
                             slot : Backend \cup {Nil}]]
    /\ crashed \in BOOLEAN

-----------------------------------------------------------------------------
(* The slot.                                                               *)

Set(b, s) == slot' = [slot EXCEPT ![b] = s]

\* Mutation: the errors of the last window stay.
ZeroedTotal(s) == [s EXCEPT !.sucProbes = 0, !.errProbes = 0, !.total = 0]

\* What a move or a change of the limit does to all counters but throttles.
Zeroed(s) == [s EXCEPT !.sucProbes = 0, !.errProbes = 0,
                       !.total = 0, !.errors = 0]

\* Mutation: one step too many.
LimitOneBelow(b, n) == (Rate[b] * (Steps - n - 1)) \div Steps

\* The limit of b after n throttles, by steps of a tenth of its rate.
LimitAfter(b, n) == (Rate[b] * (Steps - n)) \div Steps

\* The limit one step up from lm, at most the rate.
LimitAbove(b, lm) == Min({Rate[b], (Steps * lm + Rate[b]) \div Steps})

\* Bound: a goroutine is only started while there is a name for it.
Free(f) == {g \in DOMAIN f : f[g] = Nil}
Fresh(f) == CHOOSE g \in Free(f) : TRUE

\* go s.renewRateProvider(limit).
StartRenewal(b, lm) ==
    /\ Free(renewal) # {}
    /\ renewal' = [renewal EXCEPT ![Fresh(renewal)] = [slot |-> b, limit |-> lm]]

\* Mutation: the displaced provider goes on.
NotCancelled(b) == provider

\* Cancelling the context of a provider; the slot's handle of it is dropped,
\* since a second cancel does nothing.
Cancelled(b) ==
    [p \in Provider |-> IF p = slot[b].cancelProvider
                        THEN [provider[p] EXCEPT !.cancelled = TRUE]
                        ELSE provider[p]]

closeRateProvider(b, state) ==
    /\ Set(b, [Zeroed(slot[b]) EXCEPT !.state = state, !.cancelProvider = Nil])
    /\ provider' = Cancelled(b)

\* Mutation: the counters change and the provider does not.
SetThrottlesOnly(b, n, state) ==
    /\ Set(b, [Zeroed(slot[b]) EXCEPT !.state = state, !.throttles = n])
    /\ UNCHANGED <<renewal, provider>>

\* throttle, called with the number of throttles there are to be.
SetThrottles(b, n, state) ==
    /\ Set(b, [Zeroed(slot[b]) EXCEPT !.state = state, !.throttles = n])
    /\ StartRenewal(b, LimitAfter(b, n))
    /\ UNCHANGED provider

unthrottle(b) ==
    LET s == slot[b]
    IN  /\ Set(b, [Zeroed(s) EXCEPT !.throttles = s.throttles - 1])
        /\ StartRenewal(b, LimitAbove(b, s.limit))
        /\ UNCHANGED provider

-----------------------------------------------------------------------------
(* The goroutines of a provider.                                           *)

\* What newBackendSlot starts.
AtRate(b) == [slot |-> b, limit |-> Rate[b]]

Init ==
    /\ slot = [b \in Backend |->
         [state |-> "healthy", throttles |-> 0, limit |-> 0, cancelProvider |-> Nil,
          sucProbes |-> 0, errProbes |-> 0, total |-> 0, errors |-> 0]]
    /\ renewal \in {r \in [Renewal -> {AtRate(b) : b \in Backend} \cup {Nil}] :
                      \A b \in Backend : \E g \in Renewal :
                        \A h \in Renewal : r[h] = AtRate(b) <=> h = g}
    /\ provider = [p \in Provider |-> Nil]
    /\ all = Backend
    /\ walk = [k \in Walk |-> {}]
    /\ reset = FALSE
    /\ check = [k \in Kind |-> [b \in Backend |-> IF k = "boot" THEN "probe" ELSE "none"]]
    /\ burying = {}
    /\ slotCh = <<>>
    /\ call = [h \in Handler |-> [pc |-> "idle", slot |-> Nil]]
    /\ crashed = FALSE

\* renewRateProvider with the limit the slot already has: nothing happens.
RenewSkips(g) ==
    /\ renewal[g] # Nil /\ renewal[g].slot \notin burying
    /\ slot[renewal[g].slot].limit = renewal[g].limit
    /\ renewal' = [renewal EXCEPT ![g] = Nil]
    /\ UNCHANGED <<slot, provider, all, monitor, slotCh, call, crashed>>

\* renewRateProvider: the new provider displaces the previous one.
Renew(g) ==
    /\ renewal[g] # Nil /\ Free(provider) # {}
    /\ LET b == renewal[g].slot
           lm == renewal[g].limit
           p == Fresh(provider)
       IN  /\ b \notin burying
           /\ slot[b].limit # lm
           /\ Set(b, [slot[b] EXCEPT !.limit = lm, !.cancelProvider = p])
           /\ provider' = [Cancelled(b) EXCEPT ![p] =
                             [slot |-> b, limit |-> lm, phase |-> "born", cancelled |-> FALSE]]
    /\ renewal' = [renewal EXCEPT ![g] = Nil]
    /\ UNCHANGED <<all, monitor, slotCh, call, crashed>>

\* The provider counts itself and makes its rate limiter.
Provide(p) ==
    /\ provider[p] # Nil /\ provider[p].phase = "born"
    /\ provider' = [provider EXCEPT ![p].phase = "running"]
    /\ crashed' = (provider[p].limit = 0)
    /\ UNCHANGED <<slot, renewal, all, monitor, slotCh, call>>

Running(p) == provider[p] # Nil /\ provider[p].phase = "running"

\* Take and select: a token is sent, by a cancelled provider too.
Send(p) ==
    /\ Running(p) /\ Len(slotCh) < SlotChCap
    /\ slotCh' = Append(slotCh, provider[p].slot)
    /\ UNCHANGED <<slot, renewal, provider, all, monitor, call, crashed>>

Stop(p) ==
    /\ Running(p) /\ provider[p].cancelled
    /\ provider' = [provider EXCEPT ![p] = Nil]
    /\ UNCHANGED <<slot, renewal, all, monitor, slotCh, call, crashed>>

healthyBackends == Cardinality({p \in Provider : Running(p)})

-----------------------------------------------------------------------------
(* The boot and the monitor.                                               *)

\* The probe of initBackends; if it fails, Check puts the slot in quarantine.
Booted == \A b \in Backend : check["boot"][b] = "none"

Active(k) == walk[k] # {} \/ \E b \in Backend : check[k][b] # "none"

\* A walk takes c.mu for reading: a burial that waits for c.mu keeps it out.
\* Bound: a kind of walk starts when the checks of the last one are done.
StartWalk(k) ==
    /\ Booted
    /\ burying = {}
    /\ ~Active(k) /\ Cardinality({j \in Walk : Active(j)}) < MaxChecks
    /\ walk' = [walk EXCEPT ![k] = all]
    /\ IF k = "rate" THEN reset' \in BOOLEAN ELSE UNCHANGED reset
    /\ UNCHANGED <<slot, renewal, provider, all, check, burying, slotCh, call, crashed>>

\* Does the walk k start a check of a slot that looks like s?
Calls(k, s) ==
    \/ k = "idle" /\ s.total = 0 /\ s.state = "healthy"
    \/ k = "sick" /\ s.state = "sick"
    \/ k = "dead" /\ s.state = "dead"
    \/ k = "rate" /\ s.total > MinRequests /\ s.state = "healthy"

FirstStep(k) == IF k # "rate" THEN "probe" ELSE IF reset THEN "decideReset" ELSE "decide"

\* The walk reads the state under the slot's lock and starts a check, or not;
\* the error rate walk may reset the counters of a slot that it skips.
Visit(k, b) ==
    /\ b \in walk[k] /\ b \notin burying
    /\ walk' = [walk EXCEPT ![k] = @ \ {b}]
    /\ IF Calls(k, slot[b])
       THEN check' = [check EXCEPT ![k][b] = FirstStep(k)] /\ UNCHANGED slot
       ELSE /\ IF k = "rate" /\ reset
               THEN Set(b, [slot[b] EXCEPT !.total = 0, !.errors = 0])
               ELSE UNCHANGED slot
            /\ UNCHANGED check
    /\ UNCHANGED <<renewal, provider, all, reset, burying, slotCh, call, crashed>>

\* probe: whether the backend answered 200 is noted under the lock of the slot.
Probe(k, b, ok) ==
    /\ check[k][b] = "probe" /\ b \notin burying
    /\ LET s == slot[b]
           one(n) == Min({n + 1, ProbesInRow + 1})
       IN  IF ok THEN Set(b, [s EXCEPT !.sucProbes = one(@), !.errProbes = 0])
                  ELSE Set(b, [s EXCEPT !.errProbes = one(@), !.sucProbes = 0])
    /\ check' = [check EXCEPT ![k][b] = IF k = "boot" /\ ok THEN "none" ELSE "decide"]
    /\ UNCHANGED <<renewal, provider, all, walk, reset, burying, slotCh, call, crashed>>

\* errRate() >= percent; without requests the rate is 0.
ErrRateFrom(s, percent) == s.total > 0 /\ 100 * s.errors >= percent * s.total

\* Mutation: the number of throttles is not bounded.
ThrottlesForEver(s) == 100 * s.errors > ErrMin * s.total

shouldThrottle(s) ==
    s.throttles < maxThrottles /\ 100 * s.errors > ErrMin * s.total

Cured(s)  == s.sucProbes > ProbesInRow
Failed(s) == s.sucProbes = 0 /\ s.errProbes > ProbesInRow

\* Mutation: left to the check of the sick, which does not visit the dead.
ResurrectSick(k, s) == k = "sick" /\ Cured(s) /\ s.state = "dead"

\* What a check of kind k makes of a slot in state s.  checkErrRate asks only
\* quarantine, not throttle and unthrottle, to look at the state again.
ToQuarantine(k, s) ==
    /\ s.state = "healthy"
    /\ \/ k = "boot"
       \/ k = "idle" /\ s.errProbes > ProbesInRow
       \/ k = "rate" /\ \/ ErrRateFrom(s, ErrMax)
                        \/ ErrRateFrom(s, ErrMin) /\ ~shouldThrottle(s)
ToThrottle(k, s) ==
    k = "rate" /\ ErrRateFrom(s, ErrMin) /\ ~ErrRateFrom(s, ErrMax) /\ shouldThrottle(s)
ToUnthrottle(k, s) ==
    k = "rate" /\ ~ErrRateFrom(s, ErrMin) /\ s.total > 0 /\ s.throttles > 0
ToCure(k, s)      == k = "sick" /\ Cured(s) /\ s.state = "sick"
ToKill(k, s)      == k = "sick" /\ Failed(s) /\ s.state = "sick"
ToResurrect(k, s) == k = "dead" /\ Cured(s) /\ s.state = "dead"
ToBury(k, s)      == k = "dead" /\ Failed(s) /\ s.state = "dead"

\* The check takes the slot's lock, decides on what it finds, and ends.
Decide(k, b) ==
    /\ check[k][b] \in {"decide", "decideReset"} /\ b \notin burying
    /\ check' = [check EXCEPT ![k][b] = "none"]
    /\ UNCHANGED <<all, walk, reset, slotCh, call, crashed>>

quarantine(k, b) ==
    /\ Decide(k, b) /\ ToQuarantine(k, slot[b])
    /\ closeRateProvider(b, "sick")
    /\ UNCHANGED <<renewal, burying>>

Throttle(k, b) ==
    /\ Decide(k, b) /\ ToThrottle(k, slot[b])
    /\ SetThrottles(b, slot[b].throttles + 1, slot[b].state)
    /\ UNCHANGED burying

Unthrottle(k, b) ==
    /\ Decide(k, b) /\ ToUnthrottle(k, slot[b])
    /\ unthrottle(b)
    /\ UNCHANGED burying

cure(k, b) ==
    /\ Decide(k, b) /\ ToCure(k, slot[b])
    /\ SetThrottles(b, maxThrottles - 1, "healthy")
    /\ UNCHANGED burying

kill(k, b) ==
    /\ Decide(k, b) /\ ToKill(k, slot[b])
    /\ Set(b, [slot[b] EXCEPT !.state = "dead"])
    /\ UNCHANGED <<renewal, provider, burying>>

\* Mutation: what the comment says, "from dead to healthy state".
ResurrectHealthy(k, b) ==
    /\ Decide(k, b) /\ ToResurrect(k, slot[b])
    /\ Set(b, [slot[b] EXCEPT !.state = "healthy", !.sucProbes = 0, !.errProbes = 0])
    /\ UNCHANGED <<renewal, provider, burying>>

resurrect(k, b) ==
    /\ Decide(k, b) /\ ToResurrect(k, slot[b])
    /\ Set(b, [slot[b] EXCEPT !.state = "sick", !.sucProbes = 0, !.errProbes = 0])
    /\ UNCHANGED <<renewal, provider, burying>>

\* bury asks for c.mu and keeps the lock of the slot meanwhile.
BuryLocks(k, b) ==
    /\ Decide(k, b) /\ ToBury(k, slot[b])
    /\ burying' = burying \cup {b}
    /\ UNCHANGED <<slot, renewal, provider>>

\* c.mu is free when no walk has slots left to visit.
bury(b) ==
    /\ b \in burying /\ \A k \in Walk : walk[k] = {}
    /\ all' = all \ {b} /\ burying' = burying \ {b}
    /\ closeRateProvider(b, slot[b].state)
    /\ UNCHANGED <<renewal, walk, reset, check, slotCh, call, crashed>>

\* Nothing to decide; a downtime need not be long enough to kill or to bury.
Leave(k, b) ==
    /\ Decide(k, b)
    /\ LET s == slot[b]
       IN  /\ ~(ToQuarantine(k, s) \/ ToThrottle(k, s) \/ ToUnthrottle(k, s)
                 \/ ToCure(k, s) \/ ToResurrect(k, s))
           /\ Set(b, IF check[k][b] = "decideReset"
                     THEN [s EXCEPT !.total = 0, !.errors = 0] ELSE s)
    /\ UNCHANGED <<renewal, provider, burying>>

-----------------------------------------------------------------------------
(* Fetch.                                                                  *)

Ask(h) ==
    /\ Booted /\ call[h].pc = "idle" /\ healthyBackends > 0
    /\ call' = [call EXCEPT ![h].pc = "take"]
    /\ UNCHANGED <<slot, renewal, provider, all, monitor, slotCh, crashed>>

\* The await policy blocks here, without a context, until there is a slot.
Take(h) ==
    /\ call[h].pc = "take" /\ slotCh # <<>>
    /\ LET b == Head(slotCh)
       IN  /\ slot[b].total < MaxTotal
           /\ Set(b, [slot[b] EXCEPT !.total = @ + 1])
           /\ call' = [call EXCEPT ![h] = [pc |-> "fetch", slot |-> b]]
    /\ slotCh' = Tail(slotCh)
    /\ UNCHANGED <<renewal, provider, all, monitor, crashed>>

Busy(h) ==
    /\ call[h].pc = "take" /\ slotCh = <<>> /\ ~Await
    /\ call' = [call EXCEPT ![h].pc = "idle"]
    /\ UNCHANGED <<slot, renewal, provider, all, monitor, slotCh, crashed>>

\* The backend answers or times out; an error or a status from 500 counts.
Answer(h) ==
    /\ call[h].pc = "fetch"
    /\ \/ Set(call[h].slot, [slot[call[h].slot] EXCEPT !.errors = @ + 1])
       \/ UNCHANGED slot
    /\ call' = [call EXCEPT ![h] = [pc |-> "idle", slot |-> Nil]]
    /\ UNCHANGED <<renewal, provider, all, monitor, slotCh, crashed>>

Probes(k, b) == \E ok \in BOOLEAN : Probe(k, b, ok)

Moves(k, b) ==
    \/ quarantine(k, b) \/ Throttle(k, b) \/ Unthrottle(k, b) \/ cure(k, b)
    \/ kill(k, b) \/ resurrect(k, b) \/ BuryLocks(k, b) \/ Leave(k, b)

Next ==
    /\ ~crashed
    /\ \/ \E g \in Renewal : RenewSkips(g) \/ Renew(g)
       \/ \E p \in Provider : Provide(p) \/ Send(p) \/ Stop(p)
       \/ \E k \in Walk : StartWalk(k) \/ \E b \in Backend : Visit(k, b)
       \/ \E k \in Kind, b \in Backend : Probes(k, b) \/ Moves(k, b)
       \/ \E b \in Backend : bury(b)
       \/ \E h \in Handler : Ask(h) \/ Take(h) \/ Busy(h) \/ Answer(h)

Spec == Init /\ [][Next]_vars

\* The tickers fire (SF, since the bound MaxChecks lets the walks take turns),
\* probes end (by their timeout), and what is started runs:
\* nothing here waits for more than a lock or a timer.
Fairness ==
    /\ \A k \in Walk : SF_vars(~crashed /\ StartWalk(k))
    /\ \A k \in Walk, b \in Backend : WF_vars(~crashed /\ Visit(k, b))
    /\ \A k \in Kind, b \in Backend : WF_vars(~crashed /\ (Probes(k, b) \/ Moves(k, b)))
    /\ \A b \in Backend : WF_vars(~crashed /\ bury(b))
    /\ \A g \in Renewal : WF_vars(~crashed /\ (RenewSkips(g) \/ Renew(g)))
    /\ \A p \in Provider : WF_vars(~crashed /\ (Provide(p) \/ Stop(p)))

FairSpec == Spec /\ Fairness

-----------------------------------------------------------------------------
(* Properties.                                                             *)

Served(b) == \E p \in Provider :
                provider[p] # Nil /\ provider[p].slot = b /\ ~provider[p].cancelled

\* renewRateProvider is a "singleton worker": of the providers of a slot at most
\* one is not cancelled, however renewals and quarantines interleave.
SingletonProvider ==
    \A p, q \in Provider :
        /\ provider[p] # Nil /\ provider[q] # Nil
        /\ provider[p].slot = provider[q].slot
        /\ ~provider[p].cancelled /\ ~provider[q].cancelled
        => p = q

\* A healthy slot without a provider has a renewal under way, or it was cured
\* when its limit already was the one of a cured slot: the only way the code
\* has of leaving a healthy backend without requests.
SilencedOnlyAtCureLimit ==
    \A b \in Backend :
        slot[b].state = "healthy" /\ b \in all /\ ~Served(b) =>
            \/ \E g \in Renewal : renewal[g] # Nil /\ renewal[g].slot = b
            \/ slot[b].limit = LimitAfter(b, maxThrottles - 1)

\* The error rate exceeds 100% by no more than the requests that a reset of
\* the counters can find in flight.
ErrorsOverrunByInFlight ==
    \A b \in Backend : slot[b].errors <= slot[b].total + Cardinality(Handler)

\* Only a rate below 10 is throttled to the limit 0 that stops the program.
NoCrashFromTen == (\A b \in Backend : Rate[b] >= Steps) => ~crashed

\* Whatever the walks decided on and when: a backend's moves are those that the
\* monitor logs one by one, and a cured one comes back throttled (slot.go).
Promise == INSTANCE Life WITH
    life <- [b \in Backend |-> slot[b].state],
    full <- {b \in Backend : slot[b].throttles = 0}
ImplementsLife == Promise!Spec

\* A backend that answers its probes from some time on is healthy again and
\* again, unless it was buried: nothing but a burial that waits for its lock
\* for ever stops the monitor.
HealsUnlessBurialHangs ==
    \A b \in Backend :
        <>[][\A k \in Kind : ~Probe(k, b, FALSE)]_vars => \/ []<>(slot[b].state = "healthy" \/ b \notin all)
                    \/ <>[](burying # {})
=============================================================================
