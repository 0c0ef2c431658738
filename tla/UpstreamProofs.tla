---------------------------- MODULE UpstreamProofs -----------------------------
(* Proofs about Upstream, for any number of backends, handlers, renewals,    *)
(* providers and checks at a time, any rates and any number of steps: the    *)
(* monitor implements Life, a slot has one provider, a healthy backend loses *)
(* its provider in one way only, rates from Steps on never crash, and no     *)
(* limit exceeds its backend's rate.                                         *)
EXTENDS Upstream, FiniteSetTheorems, TLAPS

-----------------------------------------------------------------------------
(* Limits.                                                                 *)

LEMMA MinOfTwo ==
    ASSUME NEW m \in Int, NEW n \in Int
    PROVE  Min({m, n}) = IF m <= n THEN m ELSE n
<1> DEFINE least == IF m <= n THEN m ELSE n
<1>1. least \in {m, n} /\ \A y \in {m, n} : least <= y
  OBVIOUS
<1>2. Min({m, n}) \in {m, n} /\ \A y \in {m, n} : Min({m, n}) <= y
  BY <1>1 DEF Min
<1> QED
  BY <1>1, <1>2

\* Dividing by d loses less than one.
LEMMA Quotient ==
    ASSUME NEW x \in Nat, NEW d \in Nat \ {0}
    PROVE  /\ x \div d \in Nat
           /\ x >= d => x \div d >= 1
<1>1. x \div d \in Int
  OBVIOUS
<1>2. x \div d >= 0
  OBVIOUS
<1>3. x >= d => x \div d >= 1
  OBVIOUS
<1> QED
  BY <1>1, <1>2, <1>3

LEMMA ProductAtLeast ==
    ASSUME NEW x \in Nat, NEW y \in Nat \ {0}
    PROVE  x * y \in Nat /\ x * y >= x
OBVIOUS

LEMMA QuotientAtMost ==
    ASSUME NEW x \in Nat, NEW d \in Nat \ {0}, NEW r \in Nat, x <= d * r
    PROVE  x \div d <= r
<1> DEFINE q == x \div d
<1>1. q \in Nat /\ d * q <= x
  OBVIOUS
<1> HIDE DEF q
<1>2. ASSUME q > r PROVE FALSE
  <2>1. q - r \in Nat \ {0} /\ d * q = d * r + d * (q - r)
    BY <1>1, <1>2
  <2>2. d * (q - r) >= d /\ d * (q - r) \in Nat
    BY <2>1, ProductAtLeast
  <2>3. d * r \in Nat
    OBVIOUS
  <2> QED BY <1>1, <2>1, <2>2, <2>3
<1>3. q <= r
  BY <1>1, <1>2
<1> QED BY <1>3 DEF q

\* The limit after at most maxThrottles throttles, and one step up from a
\* limit: at most the rate, and positive if the rate is at least Steps.
LEMMA LimitAfterType ==
    ASSUME NEW b \in Backend, NEW n \in 0..maxThrottles
    PROVE  /\ LimitAfter(b, n) \in Nat /\ LimitAfter(b, n) <= Rate[b]
           /\ Rate[b] >= Steps => LimitAfter(b, n) > 0
<1>1. Rate[b] \in Nat /\ Steps - n \in Nat \ {0} /\ Steps \in Nat \ {0}
  BY UpstreamAssumption DEF maxThrottles
<1>2. Rate[b] * (Steps - n) \in Nat /\ Rate[b] * (Steps - n) >= Rate[b]
  BY <1>1, ProductAtLeast
<1> DEFINE x == Rate[b] * (Steps - n)
<1>3. x \in Nat /\ x >= Rate[b]
  BY <1>2
<1>4. x \div Steps \in Nat /\ (x >= Steps => x \div Steps >= 1) /\ x \div Steps <= Rate[b]
  <2>1. x <= Steps * Rate[b]
    <3>1. n \in Nat /\ Rate[b] * n \in Nat /\ x = Steps * Rate[b] - Rate[b] * n
      BY <1>1, UpstreamAssumption DEF maxThrottles
    <3> QED BY <1>1, <3>1
  <2> HIDE DEF x
  <2> QED BY <1>1, <1>3, <2>1, Quotient, QuotientAtMost
<1>5. LimitAfter(b, n) = x \div Steps
  BY DEF LimitAfter
<1> HIDE DEF x
<1> QED
  BY <1>1, <1>3, <1>4, <1>5

LEMMA LimitAboveType ==
    ASSUME NEW b \in Backend, NEW lm \in Nat
    PROVE  /\ LimitAbove(b, lm) \in Nat /\ LimitAbove(b, lm) <= Rate[b]
           /\ Rate[b] >= Steps => LimitAbove(b, lm) > 0
<1>1. Rate[b] \in Nat /\ Steps \in Nat \ {0}
  BY UpstreamAssumption
<1> DEFINE x == Steps * lm + Rate[b]
<1>2. x \in Nat /\ x >= Rate[b]
  <2>1. Steps * lm \in Nat
    BY <1>1
  <2> QED BY <1>1, <2>1
<1> DEFINE q == x \div Steps
<1>3. q \in Nat /\ (x >= Steps => q >= 1)
  <2> HIDE DEF x
  <2> QED BY <1>1, <1>2, Quotient
<1>4. LimitAbove(b, lm) = Min({Rate[b], q})
  BY DEF LimitAbove
<1> HIDE DEF x, q
<1>5. Min({Rate[b], q}) = IF Rate[b] <= q THEN Rate[b] ELSE q
  BY <1>1, <1>3, MinOfTwo
<1> QED
  BY <1>1, <1>2, <1>3, <1>4, <1>5

\* The name of a new goroutine is not in use.
LEMMA FreshIsFree ==
    ASSUME NEW f, Free(f) # {}
    PROVE  Fresh(f) \in DOMAIN f /\ f[Fresh(f)] = Nil
<1>1. Fresh(f) \in Free(f)
  BY DEF Fresh
<1> QED
  BY <1>1 DEF Free

-----------------------------------------------------------------------------
(* Types.  What bounds the numbers comes later, with TypeOK.               *)

SlotType ==
    [state : {"healthy", "sick", "dead"}, throttles : 0..maxThrottles,
     limit : Nat, cancelProvider : Provider \cup {Nil},
     sucProbes : Nat, errProbes : Nat, total : Nat, errors : Nat]

RenewalType == [slot : Backend, limit : Nat]

ProviderType ==
    [slot : Backend, limit : Nat, phase : {"born", "running"}, cancelled : BOOLEAN]

SlotsOK    == slot \in [Backend -> SlotType]
RenewalsOK == renewal \in [Renewal -> RenewalType \cup {Nil}]
ProvidersOK == provider \in [Provider -> ProviderType \cup {Nil}]
CallsOK ==
    /\ slotCh \in Seq(Backend)
    /\ call \in [Handler -> [pc : {"idle", "take", "fetch"}, slot : Backend \cup {Nil}]]
    /\ \A h \in Handler : call[h].pc = "fetch" => call[h].slot \in Backend

Types == SlotsOK /\ RenewalsOK /\ ProvidersOK /\ CallsOK

\* Two slots that differ in nothing but what they count.
Alike(s, t) ==
    /\ s.state = t.state /\ s.throttles = t.throttles
    /\ s.limit = t.limit /\ s.cancelProvider = t.cancelProvider

LEMMA NilIsNoName ==
    /\ Nil \notin Backend /\ Nil \notin Provider
    /\ Nil \notin RenewalType /\ Nil \notin ProviderType
BY UpstreamAssumption DEF RenewalType, ProviderType

LEMMA ThrottleRange ==
    /\ maxThrottles \in Nat /\ maxThrottles >= 2
    /\ maxThrottles - 1 \in 0..maxThrottles
BY UpstreamAssumption DEF maxThrottles

LEMMA SetOne ==
    ASSUME SlotsOK, NEW b \in Backend, NEW s \in SlotType, Set(b, s)
    PROVE  /\ SlotsOK'
           /\ slot'[b] = s
           /\ \A c \in Backend \ {b} : slot'[c] = slot[c]
BY DEF SlotsOK, Set

LEMMA ZeroedType ==
    ASSUME NEW s \in SlotType
    PROVE  Zeroed(s) \in SlotType /\ Alike(Zeroed(s), s) /\ Zeroed(s).errors = 0
BY DEF SlotType, Zeroed, Alike

LEMMA CancelledType ==
    ASSUME ProvidersOK, NEW b \in Backend,
           slot[b].cancelProvider # Nil => provider[slot[b].cancelProvider] # Nil
    PROVE  Cancelled(b) \in [Provider -> ProviderType \cup {Nil}]
<1> SUFFICES ASSUME NEW p \in Provider, p = slot[b].cancelProvider
             PROVE  [provider[p] EXCEPT !.cancelled = TRUE] \in ProviderType
  BY DEF Cancelled, ProvidersOK
<1>1. provider[p] \in ProviderType
  BY NilIsNoName DEF ProvidersOK
<1> QED
  BY <1>1 DEF ProviderType

LEMMA StartRenewalType ==
    ASSUME RenewalsOK, NEW b \in Backend, NEW lm \in Nat, StartRenewal(b, lm)
    PROVE  /\ RenewalsOK'
           /\ \E g \in Renewal : renewal[g] = Nil /\ renewal'[g] = [slot |-> b, limit |-> lm]
           /\ \A g \in Renewal :
                renewal[g] # Nil => renewal'[g] = renewal[g]
           /\ \A g \in Renewal :
                renewal'[g] # renewal[g] => renewal'[g] = [slot |-> b, limit |-> lm]
<1> DEFINE n == Fresh(renewal)
           r == [slot |-> b, limit |-> lm]
<1>1. n \in Renewal /\ renewal[n] = Nil
  BY FreshIsFree DEF StartRenewal, RenewalsOK
<1>2. renewal' = [renewal EXCEPT ![n] = r]
  BY DEF StartRenewal
<1>3. r \in RenewalType
  BY DEF RenewalType
<1> HIDE DEF n, r
<1>4. renewal'[n] = r /\ \A g \in Renewal \ {n} : renewal'[g] = renewal[g]
  BY <1>1, <1>2 DEF RenewalsOK
<1>5. RenewalsOK'
  BY <1>2, <1>3 DEF RenewalsOK
<1> QED
  BY <1>1, <1>4, <1>5 DEF r
-----------------------------------------------------------------------------
(* What each kind of step does.                                            *)

\* A step that only counts: it changes no field of a slot that Alike compares.
Quiet ==
    /\ SlotsOK' /\ CallsOK'
    /\ \A b \in Backend : Alike(slot'[b], slot[b])
    /\ UNCHANGED <<renewal, provider, all, crashed>>

LEMMA QuietIfSlotAlike ==
    ASSUME SlotsOK, CallsOK', UNCHANGED <<renewal, provider, all, crashed>>,
           NEW b \in Backend, NEW s \in SlotType, Set(b, s), Alike(s, slot[b])
    PROVE  Quiet
BY SetOne DEF Quiet, Alike

LEMMA QuietIfSlotSame ==
    ASSUME SlotsOK, CallsOK', UNCHANGED <<slot, renewal, provider, all, crashed>>
    PROVE  Quiet
BY DEF Quiet, Alike, SlotsOK

LEMMA CallsUntouched ==
    ASSUME CallsOK, UNCHANGED <<slotCh, call>>
    PROVE  CallsOK'
BY DEF CallsOK

LEMMA MonitorQuiet ==
    ASSUME Types, NEW k \in Kind, NEW b \in Backend,
           Visit(k, b) \/ Probes(k, b) \/ BuryLocks(k, b) \/ Leave(k, b)
    PROVE  Quiet
<1>1. slot[b] \in SlotType
  BY DEF Types, SlotsOK
<1>2. CallsOK' /\ UNCHANGED <<renewal, provider, all, crashed>>
  BY CallsUntouched DEF Types, Visit, Probes, Probe, BuryLocks, Leave, Decide
<1> DEFINE s == slot[b]
           reset1 == [s EXCEPT !.total = 0, !.errors = 0]
<1>3. /\ s \in SlotType /\ Alike(s, s)
      /\ reset1 \in SlotType /\ Alike(reset1, s)
  BY <1>1 DEF SlotType, Alike
<1>4. CASE Visit(k, b)
  <2>1. Set(b, reset1) \/ UNCHANGED slot
    BY <1>4 DEF Visit
  <2> QED
    BY <1>2, <1>3, <2>1, QuietIfSlotAlike, QuietIfSlotSame DEF Types
<1>5. CASE Probes(k, b)
  <2> DEFINE one(n) == Min({n + 1, ProbesInRow + 1})
             up == [s EXCEPT !.sucProbes = one(@), !.errProbes = 0]
             down == [s EXCEPT !.errProbes = one(@), !.sucProbes = 0]
  <2>1. Set(b, up) \/ Set(b, down)
    BY <1>5 DEF Probes, Probe
  <2>2. ASSUME NEW n \in Nat
        PROVE  one(n) \in Nat
    <3>1. n + 1 \in Nat /\ ProbesInRow + 1 \in Nat
      BY UpstreamAssumption
    <3>2. one(n) = IF n + 1 <= ProbesInRow + 1 THEN n + 1 ELSE ProbesInRow + 1
      BY <3>1, MinOfTwo
    <3> QED
      BY <3>1, <3>2
  <2>3. one(s.sucProbes) \in Nat /\ one(s.errProbes) \in Nat
    BY <1>3, <2>2 DEF SlotType
  <2> HIDE DEF one
  <2>4. up \in SlotType /\ Alike(up, s)
    BY <1>3, <2>3 DEF SlotType, Alike
  <2>5. down \in SlotType /\ Alike(down, s)
    BY <1>3, <2>3 DEF SlotType, Alike
  <2> HIDE DEF up, down
  <2> QED
    BY <1>2, <2>1, <2>4, <2>5, QuietIfSlotAlike DEF Types
<1>6. CASE BuryLocks(k, b)
  BY <1>2, <1>6, QuietIfSlotSame DEF BuryLocks, Types
<1>7. CASE Leave(k, b)
  <2>1. Set(b, reset1) \/ Set(b, s)
    BY <1>7 DEF Leave
  <2> QED
    BY <1>2, <1>3, <2>1, QuietIfSlotAlike DEF Types
<1> QED
  BY <1>4, <1>5, <1>6, <1>7

LEMMA FetchQuiet ==
    ASSUME Types, NEW h \in Handler, Ask(h) \/ Take(h) \/ Busy(h) \/ Answer(h)
    PROVE  Quiet
<1>1. UNCHANGED <<renewal, provider, all, crashed>>
  BY DEF Ask, Take, Busy, Answer
<1>2. CASE Ask(h) \/ Busy(h)
  <2>1. CallsOK'
    BY <1>2 DEF Types, CallsOK, Ask, Busy
  <2> QED
    BY <1>1, <1>2, <2>1, QuietIfSlotSame DEF Types, Ask, Busy
<1>3. CASE Take(h)
  <2> DEFINE b == Head(slotCh)
             s == [slot[b] EXCEPT !.total = @ + 1]
             t == [pc |-> "fetch", slot |-> b]
  <2>1. slotCh \in Seq(Backend) /\ slotCh # <<>>
    BY <1>3 DEF Take, Types, CallsOK
  <2>2. b \in Backend /\ Tail(slotCh) \in Seq(Backend)
    BY <2>1
  <2>3. /\ slotCh' = Tail(slotCh) /\ Set(b, s)
        /\ call' = [call EXCEPT ![h] = t]
    BY <1>3 DEF Take
  <2> HIDE DEF b
  <2>4. CallsOK'
    BY <2>2, <2>3 DEF Types, CallsOK
  <2>5. s \in SlotType /\ Alike(s, slot[b])
    <3>1. slot[b] \in SlotType
      BY <2>2 DEF Types, SlotsOK
    <3> QED
      BY <3>1 DEF SlotType, Alike
  <2> HIDE DEF s
  <2> QED
    BY <1>1, <2>2, <2>3, <2>4, <2>5, QuietIfSlotAlike DEF Types
<1>4. CASE Answer(h)
  <2> DEFINE b == call[h].slot
             s == [slot[b] EXCEPT !.errors = @ + 1]
  <2>1. b \in Backend
    BY <1>4 DEF Answer, Types, CallsOK
  <2>2. /\ Set(b, s) \/ UNCHANGED slot
        /\ call' = [call EXCEPT ![h] = [pc |-> "idle", slot |-> Nil]]
        /\ slotCh' = slotCh
    BY <1>4 DEF Answer
  <2> HIDE DEF b
  <2>3. CallsOK'
    BY <2>2 DEF Types, CallsOK
  <2>4. s \in SlotType /\ Alike(s, slot[b])
    <3>1. slot[b] \in SlotType
      BY <2>1 DEF Types, SlotsOK
    <3> QED
      BY <3>1 DEF SlotType, Alike
  <2> HIDE DEF s
  <2> QED
    BY <1>1, <2>1, <2>2, <2>3, <2>4, QuietIfSlotAlike, QuietIfSlotSame DEF Types
<1> QED
  BY <1>2, <1>3, <1>4

LEMMA OtherQuiet ==
    ASSUME Types,
           \/ \E k \in Walk : StartWalk(k)
           \/ \E p \in Provider : Send(p)
           \/ UNCHANGED vars
    PROVE  Quiet
<1>1. CASE \E k \in Walk : StartWalk(k)
  BY <1>1, QuietIfSlotSame, CallsUntouched DEF Types, StartWalk
<1>2. ASSUME NEW p \in Provider, Send(p)
      PROVE  Quiet
  <2>1. provider[p].slot \in Backend
    BY <1>2 DEF Send, Running, Types, ProvidersOK, ProviderType
  <2>2. CallsOK'
    BY <1>2, <2>1 DEF Send, Types, CallsOK
  <2> QED
    BY <1>2, <2>2, QuietIfSlotSame DEF Types, Send
<1>3. CASE UNCHANGED vars
  BY <1>3, QuietIfSlotSame, CallsUntouched DEF Types, vars
<1> QED
  BY <1>1, <1>2, <1>3

\* A step that only counts, whichever it is.
QuietStep ==
    \/ \E k \in Walk : StartWalk(k) \/ \E b \in Backend : Visit(k, b)
    \/ \E k \in Kind, b \in Backend : Probes(k, b) \/ BuryLocks(k, b) \/ Leave(k, b)
    \/ \E p \in Provider : Send(p)
    \/ \E h \in Handler : Ask(h) \/ Take(h) \/ Busy(h) \/ Answer(h)
    \/ UNCHANGED vars

LEMMA QuietStepIsQuiet ==
    ASSUME Types, QuietStep
    PROVE  Quiet
<1>1. Walk \subseteq Kind
  BY DEF Kind
<1> QED
  BY <1>1, MonitorQuiet, FetchQuiet, OtherQuiet DEF QuietStep

\* Each step counts or is one of nine that do more.
LEMMA StepKinds ==
    ASSUME [Next]_vars
    PROVE  \/ QuietStep
           \/ \E g \in Renewal : RenewSkips(g) \/ Renew(g)
           \/ \E p \in Provider : Provide(p) \/ Stop(p)
           \/ \E k \in Kind, b \in Backend :
                \/ quarantine(k, b) \/ kill(k, b) \/ resurrect(k, b)
                \/ Throttle(k, b) \/ Unthrottle(k, b) \/ cure(k, b)
           \/ \E b \in Backend : bury(b)
BY DEF Next, Moves, QuietStep

\* What holds of slot b after a move to state to: only the state and what is
\* counted differ.
MovesTo(b, to) ==
    /\ SlotsOK'
    /\ slot'[b].state = to
    /\ slot'[b].throttles = slot[b].throttles /\ slot'[b].limit = slot[b].limit
    /\ \A c \in Backend \ {b} : slot'[c] = slot[c]

LEMMA CloseEffect ==
    ASSUME Types, NEW b \in Backend, NEW to \in {"healthy", "sick", "dead"},
           closeRateProvider(b, to)
    PROVE  /\ MovesTo(b, to) /\ slot'[b].cancelProvider = Nil
           /\ slot'[b].errors = 0
           /\ provider' = Cancelled(b)
<1> DEFINE z == Zeroed(slot[b])
           s == [z EXCEPT !.state = to, !.cancelProvider = Nil]
<1>1. slot[b] \in SlotType
  BY DEF Types, SlotsOK
<1>2. z \in SlotType /\ Alike(z, slot[b]) /\ z.errors = 0
  BY <1>1, ZeroedType
<1>3. Set(b, s) /\ provider' = Cancelled(b)
  BY DEF closeRateProvider
<1> HIDE DEF z
<1>4. /\ s \in SlotType /\ s.state = to /\ s.cancelProvider = Nil
      /\ s.errors = 0 /\ s.throttles = z.throttles /\ s.limit = z.limit
  BY <1>2 DEF SlotType
<1> HIDE DEF s
<1> QED
  BY <1>2, <1>3, <1>4, SetOne DEF MovesTo, Alike, Types

\* kill and resurrect.
LEMMA MoveEffect ==
    ASSUME Types, NEW k \in Kind, NEW b \in Backend, kill(k, b) \/ resurrect(k, b)
    PROVE  /\ kill(k, b) => slot[b].state = "sick" /\ MovesTo(b, "dead")
           /\ resurrect(k, b) => slot[b].state = "dead" /\ MovesTo(b, "sick")
           /\ slot'[b].cancelProvider = slot[b].cancelProvider
           /\ slot'[b].errors = slot[b].errors /\ slot'[b].total = slot[b].total
           /\ CallsOK' /\ UNCHANGED <<renewal, provider, all, slotCh, call, crashed>>
<1>1. slot[b] \in SlotType
  BY DEF Types, SlotsOK
<1> DEFINE d == [slot[b] EXCEPT !.state = "dead"]
           r == [slot[b] EXCEPT !.state = "sick", !.sucProbes = 0, !.errProbes = 0]
<1>2. /\ d \in SlotType /\ d.state = "dead" /\ d.throttles = slot[b].throttles
      /\ d.limit = slot[b].limit /\ d.cancelProvider = slot[b].cancelProvider
      /\ d.errors = slot[b].errors /\ d.total = slot[b].total
  BY <1>1 DEF SlotType
<1>3. /\ r \in SlotType /\ r.state = "sick" /\ r.throttles = slot[b].throttles
      /\ r.limit = slot[b].limit /\ r.cancelProvider = slot[b].cancelProvider
      /\ r.errors = slot[b].errors /\ r.total = slot[b].total
  BY <1>1 DEF SlotType
<1>4. kill(k, b) => slot[b].state = "sick" /\ Set(b, d)
  BY DEF kill, ToKill
<1>5. resurrect(k, b) => slot[b].state = "dead" /\ Set(b, r)
  BY DEF resurrect, ToResurrect
<1>6. UNCHANGED <<renewal, provider, all, slotCh, call, crashed>>
  BY DEF kill, resurrect, Decide
<1>7. CallsOK'
  BY <1>6, CallsUntouched DEF Types
<1> HIDE DEF d, r
<1>8. CASE kill(k, b) /\ ~resurrect(k, b)
  BY <1>2, <1>4, <1>6, <1>7, <1>8, SetOne DEF MovesTo, Types
<1>9. CASE resurrect(k, b) /\ ~kill(k, b)
  BY <1>3, <1>5, <1>6, <1>7, <1>9, SetOne DEF MovesTo, Types
<1> QED
  BY <1>4, <1>5, <1>8, <1>9

\* Throttle, Unthrottle and cure: n throttles from now on, and a renewal of the
\* limit lm is started.
Paces(b, n, lm) ==
    /\ SlotsOK' /\ n \in 0..maxThrottles /\ lm \in Nat
    /\ lm <= Rate[b] /\ (Rate[b] >= Steps => lm > 0)
    /\ slot'[b].throttles = n
    /\ slot'[b].limit = slot[b].limit
    /\ slot'[b].cancelProvider = slot[b].cancelProvider
    /\ slot'[b].errors = 0
    /\ \A c \in Backend \ {b} : slot'[c] = slot[c]
    /\ StartRenewal(b, lm)
    /\ CallsOK' /\ UNCHANGED <<provider, all, slotCh, call, crashed>>

LEMMA ThrottleEffect ==
    ASSUME Types, NEW k \in Kind, NEW b \in Backend, Throttle(k, b)
    PROVE  /\ \E n \in 1..maxThrottles, lm \in Nat : Paces(b, n, lm)
           /\ slot'[b].state = slot[b].state
<1>1. slot[b] \in SlotType
  BY DEF Types, SlotsOK
<1> DEFINE n == slot[b].throttles + 1
           lm == LimitAfter(b, n)
           z == Zeroed(slot[b])
           s == [z EXCEPT !.state = slot[b].state, !.throttles = n]
<1>2. z \in SlotType /\ Alike(z, slot[b]) /\ z.errors = 0
  BY <1>1, ZeroedType
<1>3. n \in 1..maxThrottles
  BY <1>1, ThrottleRange DEF Throttle, ToThrottle, shouldThrottle, SlotType
<1>4. Set(b, s) /\ StartRenewal(b, lm) /\ provider' = provider
  BY DEF Throttle, SetThrottles
<1>5. UNCHANGED <<all, slotCh, call, crashed>>
  BY DEF Throttle, Decide
<1>6. CallsOK'
  BY <1>5, CallsUntouched DEF Types
<1>7. n \in 0..maxThrottles /\ slot[b].state \in {"healthy", "sick", "dead"}
  BY <1>1, <1>3, ThrottleRange DEF SlotType
<1>8. lm \in Nat /\ lm <= Rate[b] /\ (Rate[b] >= Steps => lm > 0)
  BY <1>7, LimitAfterType
<1> HIDE DEF z, n, lm
<1>9. /\ s \in SlotType /\ s.state = slot[b].state /\ s.throttles = n
      /\ s.errors = 0 /\ s.limit = z.limit /\ s.cancelProvider = z.cancelProvider
  BY <1>2, <1>7 DEF SlotType
<1> HIDE DEF s
<1>10. Paces(b, n, lm) /\ slot'[b].state = slot[b].state
  BY <1>2, <1>4, <1>5, <1>6, <1>7, <1>8, <1>9, SetOne DEF Paces, Types, Alike
<1> QED
  BY <1>3, <1>8, <1>10

LEMMA UnthrottleEffect ==
    ASSUME Types, NEW k \in Kind, NEW b \in Backend, Unthrottle(k, b)
    PROVE  /\ \E n \in 0..maxThrottles, lm \in Nat : Paces(b, n, lm)
           /\ slot'[b].state = slot[b].state
<1>1. slot[b] \in SlotType
  BY DEF Types, SlotsOK
<1> DEFINE n == slot[b].throttles - 1
           lm == LimitAbove(b, slot[b].limit)
           z == Zeroed(slot[b])
           s == [z EXCEPT !.throttles = n]
<1>2. z \in SlotType /\ Alike(z, slot[b]) /\ z.errors = 0
  BY <1>1, ZeroedType
<1>3. n \in 0..maxThrottles
  BY <1>1, ThrottleRange DEF Unthrottle, ToUnthrottle, SlotType
<1>4. Set(b, s) /\ StartRenewal(b, lm) /\ provider' = provider
  BY DEF Unthrottle, unthrottle
<1>5. UNCHANGED <<all, slotCh, call, crashed>>
  BY DEF Unthrottle, Decide
<1>6. CallsOK'
  BY <1>5, CallsUntouched DEF Types
<1>7. slot[b].limit \in Nat
  BY <1>1 DEF SlotType
<1>8. lm \in Nat /\ lm <= Rate[b] /\ (Rate[b] >= Steps => lm > 0)
  BY <1>7, LimitAboveType
<1> HIDE DEF z, n, lm
<1>9. /\ s \in SlotType /\ s.state = z.state /\ s.throttles = n
      /\ s.errors = 0 /\ s.limit = z.limit /\ s.cancelProvider = z.cancelProvider
  BY <1>2, <1>3 DEF SlotType
<1> HIDE DEF s
<1>10. Paces(b, n, lm) /\ slot'[b].state = slot[b].state
  BY <1>2, <1>3, <1>4, <1>5, <1>6, <1>8, <1>9, SetOne DEF Paces, Types, Alike
<1> QED
  BY <1>3, <1>8, <1>10

LEMMA CureEffect ==
    ASSUME Types, NEW k \in Kind, NEW b \in Backend, cure(k, b)
    PROVE  /\ Paces(b, maxThrottles - 1, LimitAfter(b, maxThrottles - 1))
           /\ slot[b].state = "sick" /\ slot'[b].state = "healthy"
<1>1. slot[b] \in SlotType
  BY DEF Types, SlotsOK
<1> DEFINE n == maxThrottles - 1
           lm == LimitAfter(b, n)
           z == Zeroed(slot[b])
           s == [z EXCEPT !.state = "healthy", !.throttles = n]
<1>2. z \in SlotType /\ Alike(z, slot[b]) /\ z.errors = 0
  BY <1>1, ZeroedType
<1>3. n \in 0..maxThrottles
  BY ThrottleRange
<1>4. Set(b, s) /\ StartRenewal(b, lm) /\ provider' = provider
  BY DEF cure, SetThrottles
<1>5. UNCHANGED <<all, slotCh, call, crashed>> /\ slot[b].state = "sick"
  BY DEF cure, Decide, ToCure
<1>6. CallsOK'
  BY <1>5, CallsUntouched DEF Types
<1>7. lm \in Nat /\ lm <= Rate[b] /\ (Rate[b] >= Steps => lm > 0)
  BY <1>3, LimitAfterType
<1> HIDE DEF z, n, lm
<1>8. /\ s \in SlotType /\ s.state = "healthy" /\ s.throttles = n
      /\ s.errors = 0 /\ s.limit = z.limit /\ s.cancelProvider = z.cancelProvider
  BY <1>2, <1>3 DEF SlotType
<1> HIDE DEF s
<1>9. Paces(b, n, lm) /\ slot'[b].state = "healthy"
  BY <1>2, <1>3, <1>4, <1>5, <1>6, <1>7, <1>8, SetOne DEF Paces, Types, Alike
<1> QED
  BY <1>5, <1>9 DEF n, lm

LEMMA PacedSomehow ==
    ASSUME Types, NEW k \in Kind, NEW b \in Backend,
           Throttle(k, b) \/ Unthrottle(k, b) \/ cure(k, b)
    PROVE  \E n \in 0..maxThrottles, lm \in Nat : Paces(b, n, lm)
<1>1. CASE Throttle(k, b)
  <2>1. 1..maxThrottles \subseteq 0..maxThrottles
    BY ThrottleRange
  <2> QED
    BY <1>1, <2>1, ThrottleEffect
<1>2. CASE Unthrottle(k, b)
  BY <1>2, UnthrottleEffect
<1>3. CASE cure(k, b)
  BY <1>3, CureEffect, ThrottleRange, LimitAfterType
<1> QED
  BY <1>1, <1>2, <1>3

LEMMA QuarantineEffect ==
    ASSUME Types, NEW k \in Kind, NEW b \in Backend, quarantine(k, b)
    PROVE  /\ MovesTo(b, "sick") /\ slot[b].state = "healthy"
           /\ slot'[b].cancelProvider = Nil /\ slot'[b].errors = 0
           /\ provider' = Cancelled(b)
           /\ CallsOK' /\ UNCHANGED <<renewal, all, slotCh, call, crashed>>
<1>1. UNCHANGED <<renewal, all, slotCh, call, crashed>> /\ slot[b].state = "healthy"
  BY DEF quarantine, Decide, ToQuarantine
<1>2. closeRateProvider(b, "sick")
  BY DEF quarantine
<1> QED
  BY <1>1, <1>2, CloseEffect, CallsUntouched DEF Types

LEMMA BuryEffect ==
    ASSUME Types, NEW b \in Backend, bury(b)
    PROVE  /\ MovesTo(b, slot[b].state)
           /\ slot'[b].cancelProvider = Nil /\ slot'[b].errors = 0
           /\ provider' = Cancelled(b) /\ all' = all \ {b}
           /\ CallsOK' /\ UNCHANGED <<renewal, slotCh, call, crashed>>
<1>1. UNCHANGED <<renewal, slotCh, call, crashed>> /\ all' = all \ {b}
  BY DEF bury
<1>2. closeRateProvider(b, slot[b].state)
  BY DEF bury
<1>3. slot[b].state \in {"healthy", "sick", "dead"}
  BY DEF Types, SlotsOK, SlotType
<1> QED
  BY <1>1, <1>2, <1>3, CloseEffect, CallsUntouched DEF Types

\* The renewal g of limit lm for b: a provider of the free name p takes the place
\* of the one before it.
Renews(g, b, lm, p) ==
    /\ renewal[g] = [slot |-> b, limit |-> lm]
    /\ slot[b].limit # lm /\ provider[p] = Nil
    /\ SlotsOK' /\ slot'[b].state = slot[b].state
    /\ slot'[b].throttles = slot[b].throttles
    /\ slot'[b].errors = slot[b].errors /\ slot'[b].total = slot[b].total
    /\ slot'[b].limit = lm /\ slot'[b].cancelProvider = p
    /\ \A c \in Backend \ {b} : slot'[c] = slot[c]
    /\ provider' = [Cancelled(b) EXCEPT ![p] =
         [slot |-> b, limit |-> lm, phase |-> "born", cancelled |-> FALSE]]
    /\ renewal' = [renewal EXCEPT ![g] = Nil]
    /\ CallsOK' /\ UNCHANGED <<all, slotCh, call, crashed>>

LEMMA RenewEffect ==
    ASSUME Types, NEW g \in Renewal, Renew(g)
    PROVE  \E b \in Backend, lm \in Nat, p \in Provider : Renews(g, b, lm, p)
<1> DEFINE b == renewal[g].slot
           lm == renewal[g].limit
           p == Fresh(provider)
           s == [slot[b] EXCEPT !.limit = lm, !.cancelProvider = p]
<1>1. renewal[g] \in RenewalType
  BY DEF Renew, Types, RenewalsOK
<1>2. b \in Backend /\ lm \in Nat /\ renewal[g] = [slot |-> b, limit |-> lm]
  BY <1>1 DEF RenewalType
<1>3. p \in Provider /\ provider[p] = Nil
  BY FreshIsFree DEF Renew, Types, ProvidersOK
<1>4. /\ Set(b, s) /\ slot[b].limit # lm
      /\ provider' = [Cancelled(b) EXCEPT ![p] =
           [slot |-> b, limit |-> lm, phase |-> "born", cancelled |-> FALSE]]
      /\ renewal' = [renewal EXCEPT ![g] = Nil]
      /\ UNCHANGED <<all, slotCh, call, crashed>>
  BY DEF Renew, monitor
<1>5. CallsOK'
  BY <1>4, CallsUntouched DEF Types
<1> HIDE DEF b, lm, p
<1>6. slot[b] \in SlotType
  BY <1>2 DEF Types, SlotsOK
<1>7. /\ s \in SlotType /\ s.state = slot[b].state
      /\ s.throttles = slot[b].throttles /\ s.limit = lm
      /\ s.cancelProvider = p
      /\ s.errors = slot[b].errors /\ s.total = slot[b].total
  BY <1>2, <1>3, <1>6 DEF SlotType
<1> HIDE DEF s
<1>8. /\ SlotsOK' /\ slot'[b] = s
      /\ \A c \in Backend \ {b} : slot'[c] = slot[c]
  BY <1>2, <1>4, <1>7, SetOne DEF Types
<1>9. Renews(g, b, lm, p)
  BY <1>2, <1>3, <1>4, <1>5, <1>7, <1>8 DEF Renews
<1> QED
  BY <1>2, <1>3, <1>9

-----------------------------------------------------------------------------
(* Slots and their providers.                                              *)

Live(p) == provider[p] # Nil /\ ~provider[p].cancelled

\* The slot of a provider that is not cancelled holds the handle to cancel it,
\* and a handle that is held is of such a provider.
Held ==
    /\ \A p \in Provider : Live(p) => slot[provider[p].slot].cancelProvider = p
    /\ \A b \in Backend : slot[b].cancelProvider # Nil =>
         /\ Live(slot[b].cancelProvider)
         /\ provider[slot[b].cancelProvider].slot = b

TypeInv == Types /\ Held

LEMMA Initially ==
    Init => TypeInv
<1> SUFFICES ASSUME Init
             PROVE  TypeInv
  OBVIOUS
<1>1. \A b \in Backend : slot[b] \in SlotType /\ slot[b].cancelProvider = Nil
  BY ThrottleRange DEF Init, SlotType
<1>2. SlotsOK
  BY <1>1 DEF Init, SlotsOK
<1>3. \A p \in Provider : provider[p] = Nil
  BY DEF Init
<1>4. ProvidersOK /\ Held
  BY <1>1, <1>3 DEF Init, ProvidersOK, Held, Live
<1>5. CallsOK
  BY DEF Init, CallsOK
<1>6. RenewalsOK
  <2>1. \A b \in Backend : AtRate(b) \in RenewalType
    BY UpstreamAssumption DEF AtRate, RenewalType
  <2> QED
    BY <2>1 DEF Init, RenewalsOK
<1> QED
  BY <1>2, <1>4, <1>5, <1>6 DEF TypeInv, Types

\* What Held says of one slot and its provider, once the rest is as before.
LEMMA CancelsHeld ==
    ASSUME TypeInv, NEW b \in Backend
    PROVE  /\ Cancelled(b) \in [Provider -> ProviderType \cup {Nil}]
           /\ \A p \in Provider :
                /\ (Cancelled(b)[p] = Nil) <=> (provider[p] = Nil)
                /\ provider[p] # Nil => /\ Cancelled(b)[p].slot = provider[p].slot
                                        /\ Cancelled(b)[p].limit = provider[p].limit
                /\ Live(p) /\ provider[p].slot # b => Cancelled(b)[p] = provider[p]
                /\ provider[p] # Nil /\ provider[p].slot = b => Cancelled(b)[p].cancelled
                /\ provider[p] # Nil /\ provider[p].cancelled => Cancelled(b)[p].cancelled
<1> DEFINE h == slot[b].cancelProvider
<1>1. h \in Provider \cup {Nil} /\ Nil \notin Provider
  BY NilIsNoName DEF TypeInv, Types, SlotsOK, SlotType
<1>2. h # Nil => provider[h] # Nil /\ provider[h].slot = b
  BY DEF TypeInv, Held, Live
<1>3. Cancelled(b) \in [Provider -> ProviderType \cup {Nil}]
  BY <1>2, CancelledType DEF TypeInv, Types
<1>4. ASSUME NEW p \in Provider
      PROVE  /\ (Cancelled(b)[p] = Nil) <=> (provider[p] = Nil)
             /\ provider[p] # Nil => /\ Cancelled(b)[p].slot = provider[p].slot
                                     /\ Cancelled(b)[p].limit = provider[p].limit
             /\ Live(p) /\ provider[p].slot # b => Cancelled(b)[p] = provider[p]
             /\ provider[p] # Nil /\ provider[p].slot = b => Cancelled(b)[p].cancelled
             /\ provider[p] # Nil /\ provider[p].cancelled => Cancelled(b)[p].cancelled
  <2>1. CASE p # h
    <3>1. Cancelled(b)[p] = provider[p]
      BY <2>1 DEF Cancelled
    <3>2. provider[p] # Nil /\ provider[p].slot = b => provider[p].cancelled
      BY <2>1 DEF TypeInv, Held, Live
    <3> QED
      BY <3>1, <3>2
  <2>2. CASE p = h
    <3>1. provider[p] # Nil /\ provider[p] \in ProviderType /\ provider[p].slot = b
      BY <1>1, <1>2, <2>2 DEF TypeInv, Types, ProvidersOK
    <3>2. Cancelled(b)[p] = [provider[p] EXCEPT !.cancelled = TRUE]
      BY <2>2 DEF Cancelled
    <3>3. /\ [provider[p] EXCEPT !.cancelled = TRUE] \in ProviderType
          /\ [provider[p] EXCEPT !.cancelled = TRUE].slot = provider[p].slot
          /\ [provider[p] EXCEPT !.cancelled = TRUE].limit = provider[p].limit
          /\ [provider[p] EXCEPT !.cancelled = TRUE].cancelled
      BY <3>1 DEF ProviderType
    <3> QED
      BY <3>1, <3>2, <3>3, NilIsNoName
  <2> QED
    BY <2>1, <2>2
<1> QED
  BY <1>3, <1>4

\* After a step that leaves the handles and the providers alone.
LEMMA HeldUntouched ==
    ASSUME TypeInv, SlotsOK', UNCHANGED provider,
           \A b \in Backend : slot'[b].cancelProvider = slot[b].cancelProvider
    PROVE  Held' /\ ProvidersOK'
<1>1. ProvidersOK'
  BY DEF TypeInv, Types, ProvidersOK
<1>2. \A p \in Provider : provider[p] # Nil => provider[p].slot \in Backend
  BY DEF TypeInv, Types, ProvidersOK, ProviderType
<1> QED
  BY <1>1, <1>2 DEF TypeInv, Held, Live

\* After a step that cancels the provider of b and drops the handle.
LEMMA HeldWhenClosed ==
    ASSUME TypeInv, NEW b \in Backend, provider' = Cancelled(b),
           slot'[b].cancelProvider = Nil,
           \A c \in Backend \ {b} : slot'[c] = slot[c]
    PROVE  Held' /\ ProvidersOK'
<1>1. ProvidersOK'
  BY CancelsHeld DEF ProvidersOK
<1>2. ASSUME NEW p \in Provider, Live(p)'
      PROVE  slot'[provider'[p].slot].cancelProvider = p
  <2>1. /\ provider[p] # Nil /\ ~provider[p].cancelled /\ provider[p].slot # b
        /\ provider'[p] = provider[p]
    BY <1>2, CancelsHeld DEF Live
  <2>2. provider[p].slot \in Backend
    BY <2>1 DEF TypeInv, Types, ProvidersOK, ProviderType
  <2> QED
    BY <2>1, <2>2 DEF TypeInv, Held, Live
<1>3. ASSUME NEW c \in Backend, slot'[c].cancelProvider # Nil
      PROVE  /\ provider'[slot'[c].cancelProvider] # Nil
             /\ ~provider'[slot'[c].cancelProvider].cancelled
             /\ provider'[slot'[c].cancelProvider].slot = c
  <2>1. c # b /\ slot'[c] = slot[c]
    BY <1>3
  <2> DEFINE h == slot[c].cancelProvider
  <2>2. h \in Provider /\ Live(h) /\ provider[h].slot = c
    BY <1>3, <2>1 DEF TypeInv, Types, SlotsOK, SlotType, Held
  <2>3. provider'[h] = provider[h]
    BY <2>1, <2>2, CancelsHeld
  <2> QED
    BY <2>1, <2>2, <2>3 DEF Live
<1> QED
  BY <1>1, <1>2, <1>3 DEF Held, Live

\* p is the provider of b from now on, and of the others only the one it
\* displaces is not as before.
Displaces(b, lm, p) ==
    /\ Live(p)' /\ provider'[p].slot = b /\ provider'[p].limit = lm
    /\ \A q \in Provider \ {p} : provider'[q] = Cancelled(b)[q]

\* After a renewal: the old provider of b is cancelled, p has the handle.
LEMMA HeldWhenRenewed ==
    ASSUME TypeInv, NEW b \in Backend, NEW lm \in Nat, NEW p \in Provider,
           provider[p] = Nil,
           provider' = [Cancelled(b) EXCEPT ![p] =
             [slot |-> b, limit |-> lm, phase |-> "born", cancelled |-> FALSE]],
           slot'[b].cancelProvider = p,
           \A c \in Backend \ {b} : slot'[c] = slot[c]
    PROVE  Held' /\ ProvidersOK' /\ Displaces(b, lm, p)
<1> DEFINE r == [slot |-> b, limit |-> lm, phase |-> "born", cancelled |-> FALSE]
<1>1. /\ r \in ProviderType /\ r # Nil /\ ~r.cancelled
      /\ r.slot = b /\ r.limit = lm
  <2>1. r \in ProviderType
    BY DEF ProviderType
  <2> QED
    BY <2>1, NilIsNoName
<1>2. provider' = [Cancelled(b) EXCEPT ![p] = r]
  OBVIOUS
<1>3. Cancelled(b) \in [Provider -> ProviderType \cup {Nil}]
  BY CancelsHeld
<1> HIDE DEF r
<1>4. ProvidersOK'
  BY <1>1, <1>2, <1>3 DEF ProvidersOK
<1>5. provider'[p] = r /\ \A q \in Provider \ {p} : provider'[q] = Cancelled(b)[q]
  BY <1>2, <1>3
<1>6. Live(p)' /\ provider'[p].slot = b /\ provider'[p].limit = lm
  BY <1>1, <1>5 DEF Live
<1>7. ASSUME NEW q \in Provider, Live(q)'
      PROVE  slot'[provider'[q].slot].cancelProvider = q
  <2>1. CASE q = p
    BY <2>1, <1>6
  <2>2. CASE q # p
    <3>1. provider'[q] = Cancelled(b)[q]
      BY <2>2, <1>5
    <3>2. /\ provider[q] # Nil /\ ~provider[q].cancelled /\ provider[q].slot # b
          /\ provider'[q] = provider[q]
      BY <3>1, <1>7, CancelsHeld DEF Live
    <3>3. provider[q].slot \in Backend
      BY <3>2 DEF TypeInv, Types, ProvidersOK, ProviderType
    <3> QED
      BY <3>2, <3>3 DEF TypeInv, Held, Live
  <2> QED
    BY <2>1, <2>2
<1>8. ASSUME NEW c \in Backend, slot'[c].cancelProvider # Nil
      PROVE  /\ provider'[slot'[c].cancelProvider] # Nil
             /\ ~provider'[slot'[c].cancelProvider].cancelled
             /\ provider'[slot'[c].cancelProvider].slot = c
  <2>1. CASE c = b
    BY <2>1, <1>6 DEF Live
  <2>2. CASE c # b
    <3> DEFINE h == slot[c].cancelProvider
    <3>1. slot'[c] = slot[c]
      BY <2>2
    <3>2. h \in Provider /\ Live(h) /\ provider[h].slot = c
      BY <1>8, <3>1 DEF TypeInv, Types, SlotsOK, SlotType, Held
    <3>3. h # p
      BY <3>2 DEF Live
    <3>4. provider'[h] = provider[h]
      BY <2>2, <3>2, <3>3, <1>5, CancelsHeld
    <3> QED
      BY <3>1, <3>2, <3>4 DEF Live
  <2> QED
    BY <2>1, <2>2
<1>9. Held'
  BY <1>7, <1>8 DEF Held, Live
<1> QED
  BY <1>4, <1>5, <1>6, <1>9 DEF Displaces

\* A provider starts or, if it is cancelled, stops.
LEMMA ProviderStep ==
    ASSUME TypeInv, NEW p \in Provider, Provide(p) \/ Stop(p)
    PROVE  /\ Held' /\ ProvidersOK'
           /\ \A q \in Provider : Live(q) => /\ Live(q)' 
                                             /\ provider'[q].slot = provider[q].slot
           /\ \A q \in Provider : provider'[q] # Nil =>
                /\ provider[q] # Nil /\ provider'[q].limit = provider[q].limit
                /\ provider'[q].slot = provider[q].slot
           /\ UNCHANGED <<slot, renewal, all, slotCh, call>>
<1>1. provider[p] # Nil /\ provider[p] \in ProviderType
  BY DEF TypeInv, Types, ProvidersOK, Provide, Stop, Running
<1> DEFINE r == [provider[p] EXCEPT !.phase = "running"]
<1>2. /\ r \in ProviderType /\ r # Nil /\ r.cancelled = provider[p].cancelled
      /\ r.slot = provider[p].slot /\ r.limit = provider[p].limit
  <2>1. r \in ProviderType
    BY <1>1 DEF ProviderType
  <2> QED
    BY <1>1, <2>1, NilIsNoName DEF ProviderType
<1>3. UNCHANGED <<slot, renewal, all, slotCh, call>>
  BY DEF Provide, Stop
<1>4. \/ provider' = [provider EXCEPT ![p] = r]
      \/ provider' = [provider EXCEPT ![p] = Nil] /\ provider[p].cancelled
  BY DEF Provide, Stop
<1> HIDE DEF r
<1>5. ProvidersOK'
  BY <1>2, <1>4 DEF TypeInv, Types, ProvidersOK
<1>6. ASSUME NEW q \in Provider
      PROVE  /\ Live(q) <=> Live(q)'
             /\ provider'[q] # Nil => /\ provider[q] # Nil
                                      /\ provider'[q].slot = provider[q].slot
                                      /\ provider'[q].limit = provider[q].limit
  BY <1>1, <1>2, <1>4 DEF TypeInv, Types, ProvidersOK, Live
<1>7. Held'
  <2>1. ASSUME NEW q \in Provider, Live(q)'
        PROVE  slot'[provider'[q].slot].cancelProvider = q
    BY <1>3, <1>6, <2>1 DEF TypeInv, Held, Live
  <2>2. ASSUME NEW c \in Backend, slot'[c].cancelProvider # Nil
        PROVE  /\ provider'[slot'[c].cancelProvider] # Nil
               /\ ~provider'[slot'[c].cancelProvider].cancelled
               /\ provider'[slot'[c].cancelProvider].slot = c
    <3> DEFINE h == slot[c].cancelProvider
    <3>1. h \in Provider /\ Live(h) /\ provider[h].slot = c /\ slot'[c] = slot[c]
      BY <1>3, <2>2 DEF TypeInv, Types, SlotsOK, SlotType, Held
    <3> QED
      BY <3>1, <1>6 DEF Live
  <2> QED
    BY <2>1, <2>2 DEF Held, Live
<1> QED
  BY <1>3, <1>5, <1>6, <1>7 DEF Live

\* A renewal that ends, however it does.
LEMMA RenewalEnds ==
    ASSUME RenewalsOK, NEW g \in Renewal, renewal' = [renewal EXCEPT ![g] = Nil]
    PROVE  RenewalsOK' /\ \A f \in Renewal \ {g} : renewal'[f] = renewal[f]
BY DEF RenewalsOK

LEMMA StepKeepsTypeInv ==
    ASSUME TypeInv, [Next]_vars
    PROVE  TypeInv'
<1> USE DEF TypeInv, Types
<1>1. CASE QuietStep
  <2>1. Quiet
    BY <1>1, QuietStepIsQuiet
  <2>2. RenewalsOK'
    BY <2>1 DEF Quiet, RenewalsOK
  <2> QED
    BY <2>1, <2>2, HeldUntouched DEF Quiet, Alike
<1>2. ASSUME NEW g \in Renewal, RenewSkips(g)
      PROVE  TypeInv'
  <2>1. /\ renewal' = [renewal EXCEPT ![g] = Nil]
        /\ UNCHANGED <<slot, provider, slotCh, call>>
    BY <1>2 DEF RenewSkips
  <2>2. SlotsOK'
    BY <2>1 DEF SlotsOK
  <2> QED
    BY <2>1, <2>2, RenewalEnds, CallsUntouched, HeldUntouched
<1>3. ASSUME NEW g \in Renewal, Renew(g)
      PROVE  TypeInv'
  <2>1. PICK b \in Backend, lm \in Nat, p \in Provider : Renews(g, b, lm, p)
    BY <1>3, RenewEffect
  <2>2. /\ SlotsOK' /\ CallsOK' /\ renewal' = [renewal EXCEPT ![g] = Nil]
        /\ Held' /\ ProvidersOK'
    BY <2>1, HeldWhenRenewed DEF Renews
  <2> QED
    BY <2>2, RenewalEnds
<1>4. ASSUME NEW p \in Provider, Provide(p) \/ Stop(p)
      PROVE  TypeInv'
  <2>1. Held' /\ ProvidersOK' /\ UNCHANGED <<slot, renewal, slotCh, call>>
    BY <1>4, ProviderStep
  <2>2. SlotsOK' /\ RenewalsOK'
    BY <2>1 DEF SlotsOK, RenewalsOK
  <2> QED
    BY <2>1, <2>2, CallsUntouched
<1>5. ASSUME NEW k \in Kind, NEW b \in Backend, quarantine(k, b)
      PROVE  TypeInv'
  <2>1. RenewalsOK'
    BY <1>5, QuarantineEffect DEF RenewalsOK
  <2> QED
    BY <1>5, <2>1, QuarantineEffect, HeldWhenClosed DEF MovesTo
<1>6. ASSUME NEW b \in Backend, bury(b)
      PROVE  TypeInv'
  <2>1. RenewalsOK'
    BY <1>6, BuryEffect DEF RenewalsOK
  <2> QED
    BY <1>6, <2>1, BuryEffect, HeldWhenClosed DEF MovesTo
<1>7. ASSUME NEW k \in Kind, NEW b \in Backend, kill(k, b) \/ resurrect(k, b)
      PROVE  TypeInv'
  <2>1. /\ SlotsOK' /\ CallsOK' /\ UNCHANGED <<renewal, provider>>
        /\ \A c \in Backend : slot'[c].cancelProvider = slot[c].cancelProvider
    BY <1>7, MoveEffect DEF MovesTo
  <2>2. RenewalsOK'
    BY <2>1 DEF RenewalsOK
  <2> QED
    BY <2>1, <2>2, HeldUntouched
<1>8. ASSUME NEW b \in Backend, NEW n \in 0..maxThrottles, NEW lm \in Nat,
             Paces(b, n, lm)
      PROVE  TypeInv'
  <2>1. /\ SlotsOK' /\ CallsOK' /\ StartRenewal(b, lm) /\ UNCHANGED provider
        /\ \A c \in Backend : slot'[c].cancelProvider = slot[c].cancelProvider
    BY <1>8 DEF Paces
  <2> QED
    BY <2>1, StartRenewalType, HeldUntouched
<1>9. ASSUME NEW k \in Kind, NEW b \in Backend,
             Throttle(k, b) \/ Unthrottle(k, b) \/ cure(k, b)
      PROVE  TypeInv'
  <2>1. \E n \in 0..maxThrottles, lm \in Nat : Paces(b, n, lm)
    BY <1>9, PacedSomehow
  <2> QED
    BY <2>1, <1>8
<1> QED
  BY <1>1, <1>2, <1>3, <1>4, <1>5, <1>6, <1>7, <1>9, StepKinds

-----------------------------------------------------------------------------
(* One provider per slot.                                                  *)

\* However renewals, quarantines and burials interleave, at most one of the
\* providers of a slot is not cancelled.
THEOREM OneProviderPerSlot == Spec => []SingletonProvider
<1>1. TypeInv => SingletonProvider
  <2> SUFFICES ASSUME TypeInv, NEW p \in Provider, NEW q \in Provider,
                      Live(p), Live(q), provider[p].slot = provider[q].slot
               PROVE  p = q
    BY DEF SingletonProvider, Live
  <2> QED
    BY DEF TypeInv, Held
<1> QED
  BY Initially, StepKeepsTypeInv, <1>1, PTL DEF Spec

-----------------------------------------------------------------------------
(* No crash.                                                               *)

\* From a rate of Steps on, nobody ever asks for the limit 0.
Positive ==
    (\A b \in Backend : Rate[b] >= Steps) =>
        /\ \A g \in Renewal : renewal[g] # Nil => renewal[g].limit > 0
        /\ \A p \in Provider : provider[p] # Nil => provider[p].limit > 0
        /\ ~crashed

LEMMA PositiveInitially ==
    Init => Positive
<1> SUFFICES ASSUME Init, \A b \in Backend : Rate[b] >= Steps,
                    NEW g \in Renewal, renewal[g] # Nil
             PROVE  renewal[g].limit > 0
  BY DEF Init, Positive
<1>1. PICK b \in Backend : renewal[g] = AtRate(b)
  BY DEF Init
<1> QED
  BY <1>1, UpstreamAssumption DEF AtRate

LEMMA PositiveKept ==
    ASSUME TypeInv, Positive, [Next]_vars
    PROVE  Positive'
<1> SUFFICES ASSUME \A b \in Backend : Rate[b] >= Steps
             PROVE  Positive'
  BY DEF Positive
<1>a. /\ \A g \in Renewal : renewal[g] # Nil => renewal[g].limit > 0
      /\ \A p \in Provider : provider[p] # Nil => provider[p].limit > 0
      /\ ~crashed
  BY DEF Positive
<1>b. Types
  BY DEF TypeInv
<1>1. CASE QuietStep
  BY <1>a, <1>b, <1>1, QuietStepIsQuiet DEF Quiet, Positive
<1>2. ASSUME NEW g \in Renewal, RenewSkips(g)
      PROVE  Positive'
  <2>1. renewal' = [renewal EXCEPT ![g] = Nil] /\ UNCHANGED <<provider, crashed>>
    BY <1>2 DEF RenewSkips
  <2>2. renewal'[g] = Nil /\ \A f \in Renewal \ {g} : renewal'[f] = renewal[f]
    BY <2>1, <1>b DEF Types, RenewalsOK
  <2> QED
    BY <1>a, <2>1, <2>2 DEF Positive
<1>3. ASSUME NEW g \in Renewal, Renew(g)
      PROVE  Positive'
  <2>1. PICK b \in Backend, lm \in Nat, p \in Provider : Renews(g, b, lm, p)
    BY <1>3, <1>b, RenewEffect
  <2>2. lm > 0
    <3>1. [slot |-> b, limit |-> lm] \in RenewalType
      BY DEF RenewalType
    <3>2. renewal[g] = [slot |-> b, limit |-> lm]
      BY <2>1 DEF Renews
    <3>3. renewal[g] # Nil
      BY <3>1, <3>2, NilIsNoName
    <3>4. renewal[g].limit = lm /\ renewal[g].limit \in Nat
      BY <3>2
    <3> QED
      BY <1>a, <3>3, <3>4
  <2>3. renewal'[g] = Nil /\ \A f \in Renewal \ {g} : renewal'[f] = renewal[f]
    BY <2>1, <1>b DEF Renews, Types, RenewalsOK
  <2>4. \A q \in Provider : provider'[q] # Nil => provider'[q].limit > 0
    <3>1. Displaces(b, lm, p)
      BY <2>1, HeldWhenRenewed DEF Renews
    <3> QED
      BY <1>a, <2>2, <3>1, CancelsHeld DEF Displaces
  <2> QED
    BY <1>a, <2>1, <2>3, <2>4 DEF Positive, Renews
<1>4. ASSUME NEW p \in Provider, Provide(p) \/ Stop(p)
      PROVE  Positive'
  <2>1. /\ UNCHANGED renewal
        /\ \A q \in Provider : provider'[q] # Nil =>
             provider[q] # Nil /\ provider'[q].limit = provider[q].limit
    BY <1>4, ProviderStep
  <2>2. ~crashed'
    <3>1. CASE Provide(p)
      <4>1. provider[p].limit # 0
        BY <3>1, <1>a DEF Provide
      <4> QED
        BY <3>1, <4>1 DEF Provide
    <3>2. CASE Stop(p)
      BY <3>2, <1>a DEF Stop
    <3> QED
      BY <1>4, <3>1, <3>2
  <2> QED
    BY <1>a, <2>1, <2>2 DEF Positive
<1>5. ASSUME NEW b \in Backend, provider' = Cancelled(b), UNCHANGED <<renewal, crashed>>
      PROVE  Positive'
  BY <1>5, <1>a, CancelsHeld DEF Positive
<1>6. ASSUME NEW k \in Kind, NEW b \in Backend, quarantine(k, b)
      PROVE  Positive'
  BY <1>5, <1>6, <1>b, QuarantineEffect
<1>7. ASSUME NEW b \in Backend, bury(b)
      PROVE  Positive'
  BY <1>5, <1>7, <1>b, BuryEffect
<1>8. ASSUME NEW k \in Kind, NEW b \in Backend, kill(k, b) \/ resurrect(k, b)
      PROVE  Positive'
  <2>1. UNCHANGED <<renewal, provider, crashed>>
    BY <1>8, <1>b, MoveEffect
  <2> QED
    BY <1>a, <2>1 DEF Positive
<1>9. ASSUME NEW k \in Kind, NEW b \in Backend,
             Throttle(k, b) \/ Unthrottle(k, b) \/ cure(k, b)
      PROVE  Positive'
  <2>1. PICK n \in 0..maxThrottles, lm \in Nat : Paces(b, n, lm)
    BY <1>9, <1>b, PacedSomehow
  <2>2. StartRenewal(b, lm) /\ lm > 0 /\ UNCHANGED <<provider, crashed>>
    BY <2>1 DEF Paces
  <2>3. \A g \in Renewal : renewal'[g] = renewal[g]
                             \/ renewal'[g] = [slot |-> b, limit |-> lm]
    BY <2>2, <1>b, StartRenewalType DEF Types
  <2> QED
    BY <1>a, <2>2, <2>3 DEF Positive
<1> QED
  BY <1>1, <1>2, <1>3, <1>4, <1>6, <1>7, <1>8, <1>9, StepKinds

\* A backend with a rate of 10 (Steps) or more is never throttled to the limit
\* 0 that stops the program, however long it is throttled, cured and throttled.
THEOREM NoLimitIsZeroFromTen == Spec => []NoCrashFromTen
<1>1. Positive => NoCrashFromTen
  BY DEF Positive, NoCrashFromTen
<1> QED
  BY Initially, StepKeepsTypeInv, PositiveInitially, PositiveKept, <1>1, PTL DEF Spec

-----------------------------------------------------------------------------
(* The monitor's moves.                                                    *)

lifeOf == [b \in Backend |-> slot[b].state]
fullOf == {b \in Backend : slot[b].throttles = 0}

LEMMA LifeInitially ==
    Init => Promise!Init
BY DEF Init, Promise!Init

LEMMA LifeStep ==
    ASSUME Types, [Next]_vars
    PROVE  [Promise!Next]_<<lifeOf, fullOf>>
<1> USE DEF lifeOf, fullOf
<1>a. /\ DOMAIN slot = Backend
  BY DEF Types, SlotsOK
\* Slot b moves and is paced as before.
<1>b. ASSUME NEW b \in Backend, NEW to \in {"healthy", "sick", "dead"}, MovesTo(b, to)
      PROVE  lifeOf' = [lifeOf EXCEPT ![b] = to] /\ fullOf' = fullOf
  <2>1. \A c \in Backend : slot'[c].state = IF c = b THEN to ELSE slot[c].state
    BY <1>b DEF MovesTo
  <2>2. \A c \in Backend : slot'[c].throttles = slot[c].throttles
    BY <1>b DEF MovesTo
  <2> QED
    BY <2>1, <2>2
<1>1. CASE QuietStep
  <2>1. \A b \in Backend : /\ slot'[b].state = slot[b].state
                           /\ slot'[b].throttles = slot[b].throttles
    BY <1>1, QuietStepIsQuiet DEF Quiet, Alike
  <2> QED
    BY <2>1
<1>2. CASE \E g \in Renewal : RenewSkips(g) \/ Renew(g)
  <2>1. \A b \in Backend : /\ slot'[b].state = slot[b].state
                           /\ slot'[b].throttles = slot[b].throttles
    BY <1>2, RenewEffect DEF RenewSkips, Renews
  <2> QED
    BY <2>1
<1>3. CASE \E p \in Provider : Provide(p) \/ Stop(p)
  BY <1>3 DEF Provide, Stop
<1>4. ASSUME NEW k \in Kind, NEW b \in Backend, quarantine(k, b)
      PROVE  Promise!Quarantine(b)
  BY <1>4, <1>b, QuarantineEffect DEF Promise!Quarantine, Promise!Move
<1>5. ASSUME NEW k \in Kind, NEW b \in Backend, kill(k, b)
      PROVE  Promise!Kill(b)
  BY <1>5, <1>b, MoveEffect DEF Promise!Kill, Promise!Move
<1>6. ASSUME NEW k \in Kind, NEW b \in Backend, resurrect(k, b)
      PROVE  Promise!Resurrect(b)
  BY <1>6, <1>b, MoveEffect DEF Promise!Resurrect, Promise!Move
<1>7. ASSUME NEW b \in Backend, bury(b)
      PROVE  UNCHANGED <<lifeOf, fullOf>>
  <2>1. slot[b].state \in {"healthy", "sick", "dead"} /\ MovesTo(b, slot[b].state)
    BY <1>7, BuryEffect DEF Types, SlotsOK, SlotType
  <2> QED
    BY <2>1, <1>b
\* The throttles of b change, to none or to some.
<1>c. ASSUME NEW b \in Backend, NEW n \in 0..maxThrottles, NEW lm \in Nat, Paces(b, n, lm)
      PROVE  fullOf' = IF n = 0 THEN fullOf \cup {b} ELSE fullOf \ {b}
  BY <1>c DEF Paces
<1>8. ASSUME NEW k \in Kind, NEW b \in Backend, Throttle(k, b) \/ Unthrottle(k, b)
      PROVE  Promise!Pace(b)
  <2>1. PICK n \in 0..maxThrottles, lm \in Nat : Paces(b, n, lm)
    BY <1>8, PacedSomehow
  <2>2. slot'[b].state = slot[b].state
    BY <1>8, ThrottleEffect, UnthrottleEffect
  <2>3. lifeOf' = lifeOf
    BY <2>1, <2>2 DEF Paces
  <2> QED
    BY <2>1, <2>3, <1>c DEF Promise!Pace
<1>9. ASSUME NEW k \in Kind, NEW b \in Backend, cure(k, b)
      PROVE  Promise!Cure(b)
  <2> DEFINE n == maxThrottles - 1
             lm == LimitAfter(b, n)
  <2>1. Paces(b, n, lm) /\ slot[b].state = "sick" /\ slot'[b].state = "healthy"
    BY <1>9, CureEffect
  <2>2. n \in 0..maxThrottles /\ n # 0 /\ lm \in Nat
    BY ThrottleRange, LimitAfterType
  <2> HIDE DEF n, lm
  <2>3. lifeOf' = [lifeOf EXCEPT ![b] = "healthy"]
    BY <2>1 DEF Paces
  <2>4. fullOf' = fullOf \ {b}
    BY <2>1, <2>2, <1>c
  <2> QED
    BY <2>1, <2>3, <2>4 DEF Promise!Cure, Promise!Move
<1> QED
  BY <1>1, <1>2, <1>3, <1>4, <1>5, <1>6, <1>7, <1>8, <1>9, StepKinds DEF Promise!Next

\* The monitor moves a backend only as its log tells, and a cured one comes back
\* throttled, though the checks of several walks decide at a time.
THEOREM MonitorImplementsLife == Spec => ImplementsLife
<1>1. Init => Promise!Init
  BY LifeInitially
<1>2. TypeInv /\ [Next]_vars => [Promise!Next]_<<lifeOf, fullOf>>
  BY LifeStep DEF TypeInv
<1> QED
  BY Initially, StepKeepsTypeInv, <1>1, <1>2, PTL
  DEF Spec, ImplementsLife, Promise!Spec, lifeOf, fullOf

-----------------------------------------------------------------------------
(* Backends without requests.                                              *)

CureLimit(b) == LimitAfter(b, maxThrottles - 1)

\* Why b may be healthy and unserved: its limit is that of a cured slot, or is
\* about to be, or it is as it was made.
Excuse(b) ==
    \/ slot[b].limit = CureLimit(b)
    \/ \E g \in Renewal : renewal[g] = [slot |-> b, limit |-> CureLimit(b)]
    \/ slot[b].limit = 0 /\ \E g \in Renewal : renewal[g] = AtRate(b)

ServedOrExcused(b) ==
    slot[b].state = "healthy" /\ b \in all /\ ~Served(b) => Excuse(b)

AllServedOrExcused == \A b \in Backend : ServedOrExcused(b)

LEMMA ServedByLive ==
    ASSUME NEW b \in Backend
    PROVE  Served(b) <=> \E p \in Provider : Live(p) /\ provider[p].slot = b
BY DEF Served, Live

LEMMA ExcusedInitially ==
    Init => AllServedOrExcused
<1> SUFFICES ASSUME Init, NEW b \in Backend
             PROVE  Excuse(b)
  BY DEF AllServedOrExcused, ServedOrExcused
<1>1. slot[b].limit = 0
  BY DEF Init
<1>2. PICK g \in Renewal : \A h \in Renewal : renewal[h] = AtRate(b) <=> h = g
  BY DEF Init
<1> QED
  BY <1>1, <1>2 DEF Excuse

\* A step that ends no renewal of b and no service of it.
LEMMA ExcuseKept ==
    ASSUME NEW b \in Backend, ServedOrExcused(b),
           \A g \in Renewal : renewal[g] # Nil /\ renewal[g].slot = b =>
                                renewal'[g] = renewal[g],
           slot'[b].limit = slot[b].limit,
           slot'[b].state = "healthy" => slot[b].state = "healthy",
           b \in all' => b \in all,
           Served(b) => Served(b)'
    PROVE  ServedOrExcused(b)'
<1>1. ASSUME NEW lm, lm \in Nat, NEW g \in Renewal, renewal[g] = [slot |-> b, limit |-> lm]
      PROVE  renewal'[g] = [slot |-> b, limit |-> lm]
  <2>1. [slot |-> b, limit |-> lm] \in RenewalType
    BY <1>1 DEF RenewalType
  <2>2. renewal[g] # Nil /\ renewal[g].slot = b
    <3>1. renewal[g] # Nil
      BY <1>1, <2>1, NilIsNoName
    <3>2. renewal[g].slot = b
      BY <1>1
    <3> QED
      BY <3>1, <3>2
  <2> QED
    BY <1>1, <2>2
<1>2. CureLimit(b) \in Nat /\ Rate[b] \in Nat
  BY ThrottleRange, LimitAfterType, UpstreamAssumption DEF CureLimit
<1>3. Excuse(b) => Excuse(b)'
  BY <1>1, <1>2 DEF Excuse, AtRate, CureLimit, LimitAfter
<1> QED
  BY <1>3 DEF ServedOrExcused

\* Cancelling the provider of one slot ends no service of another one.
LEMMA OthersStayServed ==
    ASSUME TypeInv, NEW b \in Backend, NEW c \in Backend, c # b, Served(c),
           \A q \in Provider : provider[q] # Nil => provider'[q] = Cancelled(b)[q]
    PROVE  Served(c)'
<1>1. PICK q \in Provider : Live(q) /\ provider[q].slot = c
  BY ServedByLive
<1>2. provider'[q] = provider[q]
  BY <1>1, CancelsHeld DEF Live
<1> QED
  BY <1>1, <1>2 DEF Served, Live

LEMMA StepExcused ==
    ASSUME TypeInv, AllServedOrExcused, [Next]_vars, NEW b \in Backend
    PROVE  ServedOrExcused(b)'
<1>a. ServedOrExcused(b) /\ Types
  BY DEF AllServedOrExcused, TypeInv
<1>1. CASE QuietStep
  <2>1. /\ UNCHANGED <<renewal, provider, all>> /\ slot'[b].limit = slot[b].limit
        /\ slot'[b].state = slot[b].state
    BY <1>1, <1>a, QuietStepIsQuiet DEF Quiet, Alike
  <2>2. Served(b)' = Served(b)
    BY <2>1 DEF Served
  <2> QED
    BY <1>a, <2>1, <2>2, ExcuseKept
<1>2. ASSUME NEW g \in Renewal, RenewSkips(g)
      PROVE  ServedOrExcused(b)'
  <2>1. /\ renewal[g] # Nil /\ slot[renewal[g].slot].limit = renewal[g].limit
        /\ renewal' = [renewal EXCEPT ![g] = Nil]
        /\ UNCHANGED <<slot, provider, all>>
    BY <1>2 DEF RenewSkips
  <2>2. Served(b)' = Served(b)
    BY <2>1 DEF Served
  <2>3. \A f \in Renewal \ {g} : renewal'[f] = renewal[f]
    BY <2>1, <1>a, RenewalEnds DEF Types
  <2>4. CASE renewal[g].slot # b
    BY <1>a, <2>1, <2>2, <2>3, <2>4, ExcuseKept
  <2>5. CASE renewal[g].slot = b
    <3> SUFFICES ASSUME Excuse(b)
                 PROVE  Excuse(b)'
      BY <1>a, <2>1, <2>2 DEF ServedOrExcused
    <3>1. Rate[b] # 0
      BY UpstreamAssumption
    <3>2. slot[b].limit = renewal[g].limit
      BY <2>1, <2>5
    <3>3. \A f \in Renewal : renewal[f] = [slot |-> b, limit |-> CureLimit(b)] =>
                                renewal[f].limit = CureLimit(b)
      OBVIOUS
    <3>4. \A f \in Renewal : renewal[f] = AtRate(b) => renewal[f].limit = Rate[b]
      BY DEF AtRate
    <3>5. CureLimit(b)' = CureLimit(b) /\ AtRate(b)' = AtRate(b)
      BY DEF CureLimit, LimitAfter, AtRate
    <3>6. slot' = slot
      BY <2>1
    <3> QED
      BY <3>1, <3>2, <3>3, <3>4, <3>5, <3>6, <2>3 DEF Excuse
  <2> QED
    BY <2>4, <2>5
<1>3. ASSUME NEW g \in Renewal, Renew(g)
      PROVE  ServedOrExcused(b)'
  <2>1. PICK c \in Backend, lm \in Nat, p \in Provider : Renews(g, c, lm, p)
    BY <1>3, <1>a, RenewEffect
  <2>2. Displaces(c, lm, p)
    BY <2>1, HeldWhenRenewed DEF Renews
  <2>3. CASE b = c
    <3>1. Served(b)'
      BY <2>2, <2>3 DEF Displaces, Served, Live
    <3> QED
      BY <3>1 DEF ServedOrExcused
  <2>4. CASE b # c
    <3>1. slot'[b] = slot[b] /\ all' = all
      BY <2>1, <2>4 DEF Renews
    <3>2. Served(b) => Served(b)'
      BY <2>1, <2>2, <2>4, OthersStayServed DEF Displaces, Renews
    <3>3. renewal[g].slot = c
      BY <2>1 DEF Renews
    <3>4. \A f \in Renewal \ {g} : renewal'[f] = renewal[f]
      BY <2>1, <1>a, RenewalEnds DEF Types, Renews
    <3> QED
      BY <1>a, <2>4, <3>1, <3>2, <3>3, <3>4, ExcuseKept
  <2> QED
    BY <2>3, <2>4
<1>4. ASSUME NEW p \in Provider, Provide(p) \/ Stop(p)
      PROVE  ServedOrExcused(b)'
  <2>1. /\ UNCHANGED <<slot, renewal, all>>
        /\ \A q \in Provider : Live(q) => Live(q)' /\ provider'[q].slot = provider[q].slot
    BY <1>4, ProviderStep
  <2>2. Served(b) => Served(b)'
    BY <2>1 DEF Served, Live
  <2> QED
    BY <1>a, <2>1, <2>2, ExcuseKept
<1>5. ASSUME NEW k \in Kind, NEW c \in Backend, quarantine(k, c)
      PROVE  ServedOrExcused(b)'
  <2>1. /\ slot'[c].state = "sick" /\ provider' = Cancelled(c)
        /\ UNCHANGED <<renewal, all>>
        /\ \A d \in Backend \ {c} : slot'[d] = slot[d]
    BY <1>5, <1>a, QuarantineEffect DEF MovesTo
  <2>2. CASE b = c
    BY <2>1, <2>2 DEF ServedOrExcused
  <2>3. CASE b # c
    <3>1. Served(b) => Served(b)'
      BY <2>1, <2>3, OthersStayServed
    <3> QED
      BY <1>a, <2>1, <2>3, <3>1, ExcuseKept
  <2> QED
    BY <2>2, <2>3
<1>6. ASSUME NEW c \in Backend, bury(c)
      PROVE  ServedOrExcused(b)'
  <2>1. /\ all' = all \ {c} /\ provider' = Cancelled(c) /\ UNCHANGED renewal
        /\ \A d \in Backend \ {c} : slot'[d] = slot[d]
    BY <1>6, <1>a, BuryEffect DEF MovesTo
  <2>2. CASE b = c
    BY <2>1, <2>2 DEF ServedOrExcused
  <2>3. CASE b # c
    <3>1. Served(b) => Served(b)'
      BY <2>1, <2>3, OthersStayServed
    <3> QED
      BY <1>a, <2>1, <2>3, <3>1, ExcuseKept
  <2> QED
    BY <2>2, <2>3
<1>7. ASSUME NEW k \in Kind, NEW c \in Backend, kill(k, c) \/ resurrect(k, c)
      PROVE  ServedOrExcused(b)'
  <2>1. /\ slot'[c].state # "healthy" /\ slot'[c].limit = slot[c].limit
        /\ UNCHANGED <<renewal, provider, all>>
        /\ \A d \in Backend \ {c} : slot'[d] = slot[d]
    BY <1>7, <1>a, MoveEffect DEF MovesTo
  <2>2. Served(b)' = Served(b)
    BY <2>1 DEF Served
  <2> QED
    BY <1>a, <2>1, <2>2, ExcuseKept
\* A throttle, an unthrottle or a cure.
<1>8. ASSUME NEW c \in Backend, NEW n \in 0..maxThrottles, NEW lm \in Nat,
             Paces(c, n, lm), slot'[c].state = slot[c].state \/ b # c
      PROVE  ServedOrExcused(b)'
  <2>1. /\ slot'[b].limit = slot[b].limit /\ slot'[b].state = slot[b].state
        /\ StartRenewal(c, lm) /\ UNCHANGED <<provider, all>>
    BY <1>8 DEF Paces
  <2>2. \A g \in Renewal : renewal[g] # Nil => renewal'[g] = renewal[g]
    BY <2>1, <1>a, StartRenewalType DEF Types
  <2>3. Served(b)' = Served(b)
    BY <2>1 DEF Served
  <2> QED
    BY <1>a, <2>1, <2>2, <2>3, ExcuseKept
<1>9. ASSUME NEW k \in Kind, NEW c \in Backend, Throttle(k, c) \/ Unthrottle(k, c)
      PROVE  ServedOrExcused(b)'
  <2>1. slot'[c].state = slot[c].state
    BY <1>9, <1>a, ThrottleEffect, UnthrottleEffect
  <2> QED
    BY <1>8, <1>9, <1>a, <2>1, PacedSomehow
<1>10. ASSUME NEW k \in Kind, NEW c \in Backend, cure(k, c)
       PROVE  ServedOrExcused(b)'
  <2> DEFINE n == maxThrottles - 1
             lm == LimitAfter(c, n)
  <2>1. Paces(c, n, lm)
    BY <1>10, <1>a, CureEffect
  <2>2. n \in 0..maxThrottles /\ lm \in Nat
    BY ThrottleRange, LimitAfterType
  <2>3. lm = CureLimit(c)
    BY DEF CureLimit
  <2> HIDE DEF n, lm
  <2>4. CASE b # c
    BY <1>8, <2>1, <2>2, <2>4
  <2>5. CASE b = c
    <3>1. \E g \in Renewal : renewal'[g] = [slot |-> b, limit |-> lm]
      BY <2>1, <2>2, <2>5, <1>a, StartRenewalType DEF Types, Paces
    <3>2. CureLimit(b)' = lm
      BY <2>3, <2>5 DEF CureLimit, LimitAfter
    <3> QED
      BY <3>1, <3>2 DEF ServedOrExcused, Excuse
  <2> QED
    BY <2>4, <2>5
<1> QED
  BY <1>1, <1>2, <1>3, <1>4, <1>5, <1>6, <1>7, <1>9, <1>10, StepKinds

\* A healthy backend is only left without a provider when it was cured at the
\* limit of a cured slot; otherwise it has one or a renewal is on its way.
THEOREM OnlyCuresSilence == Spec => []SilencedOnlyAtCureLimit
<1>1. AllServedOrExcused => SilencedOnlyAtCureLimit
  <2> SUFFICES ASSUME AllServedOrExcused, NEW b \in Backend, Excuse(b)
               PROVE  \/ \E g \in Renewal : renewal[g] # Nil /\ renewal[g].slot = b
                      \/ slot[b].limit = LimitAfter(b, maxThrottles - 1)
    BY DEF AllServedOrExcused, ServedOrExcused, SilencedOnlyAtCureLimit
  <2>1. CureLimit(b) \in Nat /\ Rate[b] \in Nat
    BY ThrottleRange, LimitAfterType, UpstreamAssumption DEF CureLimit
  <2>2. ASSUME NEW lm \in Nat, NEW g \in Renewal, renewal[g] = [slot |-> b, limit |-> lm]
        PROVE  renewal[g] # Nil /\ renewal[g].slot = b
    <3>1. [slot |-> b, limit |-> lm] \in RenewalType
      BY DEF RenewalType
    <3>2. renewal[g] # Nil
      BY <2>2, <3>1, NilIsNoName
    <3>3. renewal[g].slot = b
      BY <2>2
    <3> QED
      BY <3>2, <3>3
  <2> QED
    BY <2>1, <2>2 DEF Excuse, AtRate, CureLimit
<1>2. AllServedOrExcused /\ TypeInv /\ [Next]_vars => AllServedOrExcused'
  BY StepExcused DEF AllServedOrExcused
<1> QED
  BY Initially, StepKeepsTypeInv, ExcusedInitially, <1>1, <1>2, PTL DEF Spec

-----------------------------------------------------------------------------
(* Errors and requests.                                                    *)

InFlight(b) == {h \in Handler : call[h].pc = "fetch" /\ call[h].slot = b}

\* Each request in flight may still end in an error that is not yet counted.
Tallied(b) ==
    slot[b].errors + Cardinality(InFlight(b)) <= slot[b].total + Cardinality(Handler)

AllTallied == \A b \in Backend : Tallied(b)

LEMMA FlightSize ==
    ASSUME NEW b \in Backend
    PROVE  /\ IsFiniteSet(InFlight(b)) /\ Cardinality(InFlight(b)) \in Nat
           /\ Cardinality(InFlight(b)) <= Cardinality(Handler)
           /\ Cardinality(Handler) \in Nat
<1>1. InFlight(b) \subseteq Handler
  BY DEF InFlight
<1> QED
  BY <1>1, UpstreamAssumption, FS_Subset, FS_CardinalityType

LEMMA TalliedInitially ==
    Init => AllTallied
<1> SUFFICES ASSUME Init, NEW b \in Backend
             PROVE  Tallied(b)
  BY DEF AllTallied
<1>1. slot[b].errors = 0 /\ slot[b].total = 0
  BY DEF Init
<1> QED
  BY <1>1, FlightSize DEF Tallied

\* The counters of a slot are left alone or its errors are forgotten.
Forgets(b) ==
    \/ slot'[b].errors = 0
    \/ slot'[b].errors = slot[b].errors /\ slot'[b].total = slot[b].total

LEMMA TallyKept ==
    ASSUME AllTallied, SlotsOK', NEW b \in Backend, Forgets(b),
           InFlight(b)' = InFlight(b)
    PROVE  Tallied(b)'
<1>1. slot'[b].total \in Nat
  BY DEF SlotsOK, SlotType
<1>2. /\ Cardinality(InFlight(b)) \in Nat /\ Cardinality(Handler) \in Nat
      /\ Cardinality(InFlight(b)) <= Cardinality(Handler)
  BY FlightSize
<1>3. CASE slot'[b].errors = 0
  BY <1>1, <1>2, <1>3 DEF Tallied
<1>4. CASE slot'[b].errors = slot[b].errors /\ slot'[b].total = slot[b].total
  BY <1>4 DEF AllTallied, Tallied
<1> QED
  BY <1>3, <1>4 DEF Forgets

\* A request begins with slot b: both sides grow.
LEMMA TakeTallied ==
    ASSUME Types, AllTallied, NEW h \in Handler, Take(h), NEW b \in Backend
    PROVE  Tallied(b)'
<1> DEFINE c == Head(slotCh)
           s == [slot[c] EXCEPT !.total = @ + 1]
           t == [pc |-> "fetch", slot |-> c]
<1>1. slotCh \in Seq(Backend) /\ slotCh # <<>>
  BY DEF Take, Types, CallsOK
<1>2. c \in Backend
  BY <1>1
<1>3. Set(c, s) /\ call' = [call EXCEPT ![h] = t] /\ call[h].pc = "take"
  BY DEF Take
<1> HIDE DEF c
<1>4. slot[c] \in SlotType
  BY <1>2 DEF Types, SlotsOK
<1>5. s \in SlotType /\ s.errors = slot[c].errors /\ s.total = slot[c].total + 1
  BY <1>4 DEF SlotType
<1>6. t.pc = "fetch" /\ t.slot = c
  OBVIOUS
<1> HIDE DEF s, t
<1>7. SlotsOK' /\ slot'[c] = s /\ \A d \in Backend \ {c} : slot'[d] = slot[d]
  BY <1>2, <1>3, <1>5, SetOne DEF Types
<1>8. call'[h] = t /\ \A g \in Handler \ {h} : call'[g] = call[g]
  BY <1>3 DEF Types, CallsOK
<1>9. CASE b # c
  <2>1. InFlight(b)' = InFlight(b)
    BY <1>3, <1>6, <1>8, <1>9 DEF InFlight
  <2> QED
    BY <1>7, <1>9, <2>1, TallyKept DEF Forgets
<1>10. CASE b = c
  <2>1. InFlight(b)' = InFlight(b) \cup {h} /\ h \notin InFlight(b)
    BY <1>3, <1>6, <1>8, <1>10 DEF InFlight
  <2>2. Cardinality(InFlight(b)') = Cardinality(InFlight(b)) + 1
    BY <2>1, FlightSize, FS_AddElement
  <2>3. /\ Cardinality(InFlight(b)) \in Nat /\ Cardinality(Handler) \in Nat
        /\ slot[b].errors \in Nat /\ slot[b].total \in Nat
    BY <1>4, <1>10, FlightSize DEF SlotType
  <2>4. slot'[b].errors = slot[b].errors /\ slot'[b].total = slot[b].total + 1
    BY <1>5, <1>7, <1>10
  <2> QED
    BY <2>2, <2>3, <2>4 DEF AllTallied, Tallied
<1> QED
  BY <1>9, <1>10

\* A request ends: what it may add to the errors of b it no longer is in flight.
LEMMA AnswerTallied ==
    ASSUME Types, AllTallied, NEW h \in Handler, Answer(h), NEW b \in Backend
    PROVE  Tallied(b)'
<1> DEFINE c == call[h].slot
           s == [slot[c] EXCEPT !.errors = @ + 1]
           t == [pc |-> "idle", slot |-> Nil]
<1>1. c \in Backend /\ call[h].pc = "fetch"
  BY DEF Answer, Types, CallsOK
<1>2. (Set(c, s) \/ UNCHANGED slot) /\ call' = [call EXCEPT ![h] = t]
  BY DEF Answer
<1>3. call[h].slot = c
  OBVIOUS
<1> HIDE DEF c
<1>4. slot[c] \in SlotType
  BY <1>1 DEF Types, SlotsOK
<1>5. s \in SlotType /\ s.errors = slot[c].errors + 1 /\ s.total = slot[c].total
  BY <1>4 DEF SlotType
<1>6. t.pc = "idle"
  OBVIOUS
<1> HIDE DEF s, t
<1>7. /\ SlotsOK' /\ \A d \in Backend \ {c} : slot'[d] = slot[d]
      /\ slot'[c] = s \/ slot'[c] = slot[c]
  BY <1>1, <1>2, <1>5, SetOne DEF Types, SlotsOK
<1>8. call'[h] = t /\ \A g \in Handler \ {h} : call'[g] = call[g]
  BY <1>2 DEF Types, CallsOK
<1>9. CASE b # c
  <2>1. InFlight(b)' = InFlight(b)
    BY <1>3, <1>6, <1>8, <1>9 DEF InFlight
  <2> QED
    BY <1>7, <1>9, <2>1, TallyKept DEF Forgets
<1>10. CASE b = c
  <2>1. InFlight(b)' = InFlight(b) \ {h} /\ h \in InFlight(b)
    BY <1>1, <1>3, <1>6, <1>8, <1>10 DEF InFlight
  <2>2. Cardinality(InFlight(b)') = Cardinality(InFlight(b)) - 1
    BY <2>1, FlightSize, FS_RemoveElement
  <2>3. /\ Cardinality(InFlight(b)) \in Nat /\ Cardinality(Handler) \in Nat
        /\ slot[b].errors \in Nat /\ slot[b].total \in Nat
    BY <1>4, <1>10, FlightSize DEF SlotType
  <2>4. /\ slot'[b].errors = slot[b].errors + 1 \/ slot'[b].errors = slot[b].errors
        /\ slot'[b].total = slot[b].total
    BY <1>5, <1>7, <1>10
  <2>5. slot[b].errors + Cardinality(InFlight(b)) <= slot[b].total + Cardinality(Handler)
    BY DEF AllTallied, Tallied
  <2> QED
    BY <2>2, <2>3, <2>4, <2>5 DEF Tallied
<1> QED
  BY <1>9, <1>10

LEMMA MonitorForgets ==
    ASSUME Types, NEW k \in Kind, NEW c \in Backend, NEW b \in Backend,
           Visit(k, c) \/ Probes(k, c) \/ BuryLocks(k, c) \/ Leave(k, c)
    PROVE  Forgets(b) /\ UNCHANGED call
<1>1. slot[c] \in SlotType /\ DOMAIN slot = Backend
  BY DEF Types, SlotsOK
<1>2. UNCHANGED call
  BY DEF Visit, Probes, Probe, BuryLocks, Leave, Decide
<1> SUFFICES Forgets(b)
  BY <1>2
<1>3. ASSUME NEW t, Set(c, t),
             \/ t.errors = 0
             \/ t.errors = slot[c].errors /\ t.total = slot[c].total
      PROVE  Forgets(b)
  BY <1>1, <1>3 DEF Set, Forgets
<1> DEFINE s == slot[c]
           reset1 == [s EXCEPT !.total = 0, !.errors = 0]
<1>4. reset1.errors = 0
  BY <1>1 DEF SlotType
<1>5. CASE Visit(k, c)
  <2>1. Set(c, reset1) \/ UNCHANGED slot
    BY <1>5 DEF Visit
  <2> HIDE DEF reset1
  <2> QED
    BY <1>3, <1>4, <2>1 DEF Forgets
<1>6. CASE Probes(k, c)
  <2> DEFINE one(n) == Min({n + 1, ProbesInRow + 1})
             up == [s EXCEPT !.sucProbes = one(@), !.errProbes = 0]
             down == [s EXCEPT !.errProbes = one(@), !.sucProbes = 0]
  <2>1. Set(c, up) \/ Set(c, down)
    BY <1>6 DEF Probes, Probe
  <2> HIDE DEF one
  <2>2. /\ up.errors = slot[c].errors /\ up.total = slot[c].total
        /\ down.errors = slot[c].errors /\ down.total = slot[c].total
    BY <1>1 DEF SlotType
  <2> HIDE DEF up, down
  <2> QED
    BY <1>3, <2>1, <2>2
<1>7. CASE BuryLocks(k, c)
  BY <1>7 DEF BuryLocks, Forgets
<1>8. CASE Leave(k, c)
  <2>1. Set(c, reset1) \/ Set(c, s)
    BY <1>8 DEF Leave
  <2> HIDE DEF reset1
  <2> QED
    BY <1>3, <1>4, <2>1
<1> QED
  BY <1>5, <1>6, <1>7, <1>8

LEMMA StepTallied ==
    ASSUME TypeInv, AllTallied, [Next]_vars, NEW b \in Backend
    PROVE  Tallied(b)'
<1>a. Types /\ SlotsOK'
  BY StepKeepsTypeInv DEF TypeInv, Types
<1>b. ASSUME Forgets(b), UNCHANGED call
      PROVE  Tallied(b)'
  <2>1. InFlight(b)' = InFlight(b)
    BY <1>b DEF InFlight
  <2> QED
    BY <1>a, <1>b, <2>1, TallyKept
<1>1. ASSUME NEW h \in Handler, Take(h) \/ Answer(h)
      PROVE  Tallied(b)'
  BY <1>1, <1>a, TakeTallied, AnswerTallied
<1>2. ASSUME NEW h \in Handler, Ask(h) \/ Busy(h)
      PROVE  Tallied(b)'
  <2>1. UNCHANGED slot
    BY <1>2 DEF Ask, Busy
  <2>2. InFlight(b)' = InFlight(b)
    BY <1>2, <1>a DEF Ask, Busy, InFlight, Types, CallsOK
  <2> QED
    BY <1>a, <2>1, <2>2, TallyKept DEF Forgets
<1>3. ASSUME NEW k \in Kind, NEW c \in Backend,
             Visit(k, c) \/ Probes(k, c) \/ BuryLocks(k, c) \/ Leave(k, c)
      PROVE  Tallied(b)'
  BY <1>3, <1>a, <1>b, MonitorForgets
<1>4. CASE \/ \E k \in Walk : StartWalk(k)
           \/ \E p \in Provider : Send(p) \/ Provide(p) \/ Stop(p)
           \/ \E g \in Renewal : RenewSkips(g)
           \/ UNCHANGED vars
  BY <1>4, <1>b DEF StartWalk, Send, Provide, Stop, RenewSkips, vars, Forgets
<1>5. ASSUME NEW g \in Renewal, Renew(g)
      PROVE  Tallied(b)'
  BY <1>5, <1>a, <1>b, RenewEffect DEF Renews, Forgets
<1>6. ASSUME NEW k \in Kind, NEW c \in Backend, quarantine(k, c)
      PROVE  Tallied(b)'
  BY <1>6, <1>a, <1>b, QuarantineEffect DEF MovesTo, Forgets
<1>7. ASSUME NEW c \in Backend, bury(c)
      PROVE  Tallied(b)'
  BY <1>7, <1>a, <1>b, BuryEffect DEF MovesTo, Forgets
<1>8. ASSUME NEW k \in Kind, NEW c \in Backend, kill(k, c) \/ resurrect(k, c)
      PROVE  Tallied(b)'
  BY <1>8, <1>a, <1>b, MoveEffect DEF MovesTo, Forgets
<1>9. ASSUME NEW k \in Kind, NEW c \in Backend,
             Throttle(k, c) \/ Unthrottle(k, c) \/ cure(k, c)
      PROVE  Tallied(b)'
  BY <1>9, <1>a, <1>b, PacedSomehow DEF Paces, Forgets
<1>10. Walk \subseteq Kind
  BY DEF Kind
<1> QED
  BY <1>1, <1>2, <1>3, <1>4, <1>5, <1>6, <1>7, <1>8, <1>9, <1>10, StepKinds DEF QuietStep

\* A reset that comes between a request and its error leaves errors that no
\* request counts for, but never more than there are handlers.
THEOREM OverrunIsBounded == Spec => []ErrorsOverrunByInFlight
<1>1. TypeInv /\ AllTallied => ErrorsOverrunByInFlight
  <2> SUFFICES ASSUME TypeInv, AllTallied, NEW b \in Backend
               PROVE  slot[b].errors <= slot[b].total + Cardinality(Handler)
    BY DEF ErrorsOverrunByInFlight
  <2>1. /\ Cardinality(InFlight(b)) \in Nat /\ Cardinality(Handler) \in Nat
        /\ slot[b].errors \in Nat /\ slot[b].total \in Nat
    BY FlightSize DEF TypeInv, Types, SlotsOK, SlotType
  <2> QED
    BY <2>1 DEF AllTallied, Tallied
<1>2. AllTallied /\ TypeInv /\ [Next]_vars => AllTallied'
  BY StepTallied DEF AllTallied
<1> QED
  BY Initially, StepKeepsTypeInv, TalliedInitially, <1>1, <1>2, PTL DEF Spec

-----------------------------------------------------------------------------
(* TypeOK: what bounds the numbers, and the monitor's state.               *)

\* No limit that is set, asked for or provided is above the rate.
WithinRates ==
    /\ \A b \in Backend : slot[b].limit <= Rate[b]
    /\ \A g \in Renewal : renewal[g] # Nil => renewal[g].limit <= Rate[renewal[g].slot]
    /\ \A p \in Provider : provider[p] # Nil => provider[p].limit <= Rate[provider[p].slot]

LEMMA WithinRatesInitially == Init => WithinRates
<1> SUFFICES ASSUME Init PROVE WithinRates
  OBVIOUS
<1>1. \A b \in Backend : slot[b].limit <= Rate[b]
  BY UpstreamAssumption DEF Init
<1>2. ASSUME NEW g \in Renewal, renewal[g] # Nil
      PROVE  renewal[g].limit <= Rate[renewal[g].slot]
  <2>1. PICK b \in Backend : renewal[g] = AtRate(b)
    BY <1>2 DEF Init
  <2> QED BY <2>1, UpstreamAssumption DEF AtRate
<1>3. \A p \in Provider : provider[p] = Nil
  BY DEF Init
<1> QED BY <1>1, <1>2, <1>3 DEF WithinRates

LEMMA WithinRatesKept ==
    ASSUME TypeInv, WithinRates, [Next]_vars
    PROVE  WithinRates'
<1>a. Types
  BY DEF TypeInv
<1>b. /\ \A b \in Backend : slot[b].limit <= Rate[b]
      /\ \A g \in Renewal : renewal[g] # Nil => renewal[g].limit <= Rate[renewal[g].slot]
      /\ \A p \in Provider : provider[p] # Nil => provider[p].limit <= Rate[provider[p].slot]
  BY DEF WithinRates
<1>1. CASE QuietStep
  BY <1>a, <1>b, <1>1, QuietStepIsQuiet DEF Quiet, Alike, WithinRates
<1>2. ASSUME NEW g \in Renewal, RenewSkips(g)
      PROVE  WithinRates'
  <2>1. renewal' = [renewal EXCEPT ![g] = Nil] /\ UNCHANGED <<slot, provider>>
    BY <1>2 DEF RenewSkips
  <2> QED BY <1>a, <1>b, <2>1, RenewalEnds DEF Types, WithinRates, RenewalsOK
<1>3. ASSUME NEW g \in Renewal, Renew(g)
      PROVE  WithinRates'
  <2>1. PICK b \in Backend, lm \in Nat, p \in Provider : Renews(g, b, lm, p)
    BY <1>3, <1>a, RenewEffect
  <2>2. lm <= Rate[b]
    <3>1. [slot |-> b, limit |-> lm] \in RenewalType
      BY DEF RenewalType
    <3>2. renewal[g] = [slot |-> b, limit |-> lm]
      BY <2>1 DEF Renews
    <3>3. renewal[g] # Nil /\ renewal[g].limit = lm /\ renewal[g].slot = b
      BY <3>1, <3>2, NilIsNoName
    <3> QED BY <1>b, <3>3
  <2>3. renewal'[g] = Nil /\ \A f \in Renewal \ {g} : renewal'[f] = renewal[f]
    BY <2>1, <1>a DEF Renews, Types, RenewalsOK
  <2>4. Displaces(b, lm, p)
    BY <2>1, HeldWhenRenewed DEF Renews
  <2>5. \A q \in Provider : provider'[q] # Nil =>
          provider'[q].limit <= Rate[provider'[q].slot]
    BY <1>b, <2>2, <2>4, CancelsHeld DEF Displaces
  <2>6. \A c \in Backend : slot'[c].limit <= Rate[c]
    BY <1>b, <2>1, <2>2 DEF Renews
  <2> QED BY <1>b, <2>3, <2>5, <2>6 DEF WithinRates
<1>4. ASSUME NEW p \in Provider, Provide(p) \/ Stop(p)
      PROVE  WithinRates'
  <2>1. /\ UNCHANGED <<slot, renewal>>
        /\ \A q \in Provider : provider'[q] # Nil =>
             /\ provider[q] # Nil /\ provider'[q].limit = provider[q].limit
             /\ provider'[q].slot = provider[q].slot
    BY <1>4, ProviderStep
  <2> QED BY <1>b, <2>1 DEF WithinRates
<1>5. ASSUME NEW b \in Backend, NEW to, provider' = Cancelled(b), renewal' = renewal,
             MovesTo(b, to)
      PROVE  WithinRates'
  <2>1. \A c \in Backend : slot'[c].limit = slot[c].limit
    BY <1>5 DEF MovesTo
  <2>2. \A q \in Provider : provider'[q] # Nil =>
          provider'[q].limit <= Rate[provider'[q].slot]
    BY <1>5, <1>b, CancelsHeld
  <2> QED BY <1>5, <1>b, <2>1, <2>2 DEF WithinRates
<1>6. ASSUME NEW k \in Kind, NEW b \in Backend, quarantine(k, b)
      PROVE  WithinRates'
  BY <1>5, <1>6, <1>a, QuarantineEffect
<1>7. ASSUME NEW b \in Backend, bury(b)
      PROVE  WithinRates'
  BY <1>5, <1>7, <1>a, BuryEffect
<1>8. ASSUME NEW k \in Kind, NEW b \in Backend, kill(k, b) \/ resurrect(k, b)
      PROVE  WithinRates'
  <2>1. /\ UNCHANGED <<renewal, provider>>
        /\ MovesTo(b, "dead") \/ MovesTo(b, "sick")
    BY <1>8, <1>a, MoveEffect
  <2>2. \A c \in Backend : slot'[c].limit = slot[c].limit
    BY <2>1 DEF MovesTo
  <2> QED BY <1>b, <2>1, <2>2 DEF WithinRates
<1>9. ASSUME NEW k \in Kind, NEW b \in Backend,
             Throttle(k, b) \/ Unthrottle(k, b) \/ cure(k, b)
      PROVE  WithinRates'
  <2>1. PICK n \in 0..maxThrottles, lm \in Nat : Paces(b, n, lm)
    BY <1>9, <1>a, PacedSomehow
  <2>2. /\ StartRenewal(b, lm) /\ lm <= Rate[b] /\ UNCHANGED provider
        /\ \A c \in Backend : slot'[c].limit = slot[c].limit
    BY <2>1 DEF Paces
  <2>3. \A g \in Renewal : renewal'[g] = renewal[g]
                             \/ renewal'[g] = [slot |-> b, limit |-> lm]
    BY <2>2, <1>a, StartRenewalType DEF Types
  <2> QED BY <1>b, <2>2, <2>3 DEF WithinRates
<1> QED
  BY <1>1, <1>2, <1>3, <1>4, <1>6, <1>7, <1>8, <1>9, StepKinds

\* Probes are counted up to one more than it takes, requests up to the bound.
Countable(s) ==
    /\ s.sucProbes <= ProbesInRow + 1 /\ s.errProbes <= ProbesInRow + 1
    /\ s.total <= MaxTotal

AllCountable == \A b \in Backend : Countable(slot[b])

LEMMA CountableInitially == Init => AllCountable
BY UpstreamAssumption DEF Init, AllCountable, Countable

LEMMA SetCountable ==
    ASSUME Types, AllCountable, NEW b \in Backend, NEW s, Set(b, s), Countable(s)
    PROVE  AllCountable'
BY DEF Types, SlotsOK, Set, AllCountable

LEMMA ZeroedCountable ==
    ASSUME NEW s \in SlotType
    PROVE  /\ Countable(Zeroed(s))
           /\ Countable([s EXCEPT !.total = 0, !.errors = 0]) <=>
                (s.sucProbes <= ProbesInRow + 1 /\ s.errProbes <= ProbesInRow + 1)
BY UpstreamAssumption DEF SlotType, Zeroed, Countable

LEMMA CountableKept ==
    ASSUME Types, AllCountable, [Next]_vars
    PROVE  AllCountable'
<1>1. CASE UNCHANGED slot
  BY <1>1 DEF AllCountable
<1>a. \A b \in Backend : slot[b] \in SlotType /\ Countable(slot[b])
  BY DEF Types, SlotsOK, AllCountable
<1>2. ASSUME NEW g \in Renewal, Renew(g)
      PROVE  AllCountable'
  <2>1. PICK b \in Backend : b = renewal[g].slot
    BY <1>2 DEF Renew, Types, RenewalsOK, RenewalType
  <2>2. PICK lm, p : Set(b, [slot[b] EXCEPT !.limit = lm, !.cancelProvider = p])
    BY <1>2, <2>1 DEF Renew
  <2>3. Countable([slot[b] EXCEPT !.limit = lm, !.cancelProvider = p])
    BY <1>a DEF Countable, SlotType
  <2> QED BY <2>2, <2>3, SetCountable
<1>3. ASSUME NEW k \in Kind, NEW b \in Backend, Visit(k, b) \/ Leave(k, b)
      PROVE  AllCountable'
  <2> DEFINE r == [slot[b] EXCEPT !.total = 0, !.errors = 0]
  <2>1. UNCHANGED slot \/ Set(b, r) \/ Set(b, slot[b])
    BY <1>3 DEF Visit, Leave
  <2>2. Countable(r) /\ Countable(slot[b])
    BY <1>a, ZeroedCountable DEF Countable
  <2> HIDE DEF r
  <2> QED BY <1>1, <2>1, <2>2, SetCountable
<1>4. ASSUME NEW k \in Kind, NEW b \in Backend, Probes(k, b)
      PROVE  AllCountable'
  <2> DEFINE one(n) == Min({n + 1, ProbesInRow + 1})
             up == [slot[b] EXCEPT !.sucProbes = one(@), !.errProbes = 0]
             down == [slot[b] EXCEPT !.errProbes = one(@), !.sucProbes = 0]
  <2>1. Set(b, up) \/ Set(b, down)
    BY <1>4 DEF Probes, Probe
  <2>2. ASSUME NEW n \in Nat
        PROVE  one(n) <= ProbesInRow + 1
    <3>1. n + 1 \in Nat /\ ProbesInRow + 1 \in Nat
      BY UpstreamAssumption
    <3>2. one(n) = IF n + 1 <= ProbesInRow + 1 THEN n + 1 ELSE ProbesInRow + 1
      BY <3>1, MinOfTwo
    <3> QED BY <3>1, <3>2
  <2>3. one(slot[b].sucProbes) <= ProbesInRow + 1 /\ one(slot[b].errProbes) <= ProbesInRow + 1
    BY <1>a, <2>2 DEF SlotType
  <2> HIDE DEF one
  <2>4. Countable(up) /\ Countable(down)
    BY <1>a, <2>3, UpstreamAssumption DEF SlotType, Countable
  <2> HIDE DEF up, down
  <2> QED BY <2>1, <2>4, SetCountable
<1>5. ASSUME NEW k \in Kind, NEW b \in Backend,
             quarantine(k, b) \/ Throttle(k, b) \/ Unthrottle(k, b) \/ cure(k, b) \/ bury(b)
      PROVE  AllCountable'
  <2> DEFINE z == Zeroed(slot[b])
  <2>1. Countable(z) /\ z \in SlotType
    BY <1>a, ZeroedCountable, ZeroedType
  <2>2. PICK st, n, c : \/ Set(b, [z EXCEPT !.state = st, !.cancelProvider = c])
                        \/ Set(b, [z EXCEPT !.state = st, !.throttles = n])
                        \/ Set(b, [z EXCEPT !.throttles = n])
    <3>1. CASE quarantine(k, b) \/ bury(b)
      BY <3>1 DEF quarantine, bury, closeRateProvider
    <3>2. CASE Throttle(k, b) \/ cure(k, b)
      BY <3>2 DEF Throttle, cure, SetThrottles
    <3>3. CASE Unthrottle(k, b)
      BY <3>3 DEF Unthrottle, unthrottle
    <3> QED BY <1>5, <3>1, <3>2, <3>3
  <2> HIDE DEF z
  <2>3. /\ Countable([z EXCEPT !.state = st, !.cancelProvider = c])
        /\ Countable([z EXCEPT !.state = st, !.throttles = n])
        /\ Countable([z EXCEPT !.throttles = n])
    BY <2>1 DEF SlotType, Countable
  <2> QED BY <2>2, <2>3, SetCountable
<1>6. ASSUME NEW k \in Kind, NEW b \in Backend, kill(k, b) \/ resurrect(k, b)
      PROVE  AllCountable'
  <2> DEFINE d == [slot[b] EXCEPT !.state = "dead"]
             r == [slot[b] EXCEPT !.state = "sick", !.sucProbes = 0, !.errProbes = 0]
  <2>1. Set(b, d) \/ Set(b, r)
    BY <1>6 DEF kill, resurrect
  <2>2. Countable(d) /\ Countable(r)
    BY <1>a, UpstreamAssumption DEF SlotType, Countable
  <2> HIDE DEF d, r
  <2> QED BY <2>1, <2>2, SetCountable
<1>7. ASSUME NEW h \in Handler, Take(h)
      PROVE  AllCountable'
  <2>1. PICK b \in Backend : b = Head(slotCh)
    BY <1>7 DEF Take, Types, CallsOK
  <2> DEFINE s == [slot[b] EXCEPT !.total = @ + 1]
  <2>2. Set(b, s) /\ slot[b].total < MaxTotal
    BY <1>7, <2>1 DEF Take
  <2>3. Countable(s)
    BY <1>a, <2>2, UpstreamAssumption DEF SlotType, Countable
  <2> HIDE DEF s
  <2> QED BY <2>2, <2>3, SetCountable
<1>8. ASSUME NEW h \in Handler, Answer(h)
      PROVE  AllCountable'
  <2>1. PICK b \in Backend : b = call[h].slot
    BY <1>8 DEF Answer, Types, CallsOK
  <2> DEFINE s == [slot[b] EXCEPT !.errors = @ + 1]
  <2>2. Set(b, s) \/ UNCHANGED slot
    BY <1>8, <2>1 DEF Answer
  <2>3. Countable(s)
    BY <1>a DEF SlotType, Countable
  <2> HIDE DEF s
  <2> QED BY <1>1, <2>2, <2>3, SetCountable
<1>9. ASSUME \/ \E g \in Renewal : RenewSkips(g)
             \/ \E p \in Provider : Provide(p) \/ Send(p) \/ Stop(p)
             \/ \E k \in Walk : StartWalk(k)
             \/ \E k \in Kind, b \in Backend : BuryLocks(k, b)
             \/ \E h \in Handler : Ask(h) \/ Busy(h)
             \/ UNCHANGED vars
      PROVE  AllCountable'
  BY <1>1, <1>9 DEF RenewSkips, Provide, Send, Stop, StartWalk, BuryLocks, Ask, Busy, vars
<1>10. Walk \subseteq Kind /\ "boot" \in Kind
  BY DEF Kind
<1> QED
  BY <1>2, <1>3, <1>4, <1>5, <1>6, <1>7, <1>8, <1>9, <1>10 DEF Next, Moves

\* The monitor.  A dead slot that is checked is in the cluster, is not being
\* buried, and has been visited; so one that is being buried has neither a walk
\* nor a check left that could bury it again.
MonitorOK ==
    /\ all \subseteq Backend /\ burying \subseteq all
    /\ walk \in [Walk -> SUBSET all] /\ reset \in BOOLEAN
    /\ check \in [Kind -> [Backend -> {"none", "probe", "decide", "decideReset"}]]
    /\ \A b \in Backend :
         /\ check["dead"][b] # "none" => b \in all \ (burying \cup walk["dead"])
         /\ b \in burying => b \notin walk["dead"]
    /\ Len(slotCh) <= SlotChCap

LEMMA MonitorInitially == Init => MonitorOK
<1> SUFFICES ASSUME Init PROVE MonitorOK
  OBVIOUS
<1>1. Len(slotCh) <= SlotChCap
  BY UpstreamAssumption DEF Init
<1> QED BY <1>1 DEF Init, MonitorOK, Walk, Kind

\* A step of a check of b ends it, or goes on with it.
LEMMA ChecksMonitored ==
    ASSUME MonitorOK, NEW k \in Kind, NEW b \in Backend,
           NEW to \in {"none", "probe", "decide", "decideReset"},
           check' = [check EXCEPT ![k][b] = to],
           UNCHANGED <<all, walk, reset, slotCh>>,
           k = "dead" /\ to # "none" => check["dead"][b] # "none",
           \/ burying' = burying
           \/ k = "dead" /\ to = "none" /\ burying' = burying \cup {b} /\ check[k][b] # "none"
    PROVE  MonitorOK'
<1>1. check' \in [Kind -> [Backend -> {"none", "probe", "decide", "decideReset"}]]
  BY DEF MonitorOK
<1>2. /\ k = "dead" => check'["dead"] = [check["dead"] EXCEPT ![b] = to]
      /\ k # "dead" => check'["dead"] = check["dead"]
  BY DEF MonitorOK, Kind, Walk
<1>3. check["dead"] \in [Backend -> {"none", "probe", "decide", "decideReset"}]
  BY DEF MonitorOK, Kind, Walk
<1>4. \A c \in Backend : /\ c # b \/ k # "dead" => check'["dead"][c] = check["dead"][c]
                         /\ c = b /\ k = "dead" => check'["dead"][c] = to
  BY <1>2, <1>3
<1> QED BY <1>1, <1>4 DEF MonitorOK

LEMMA MonitorKept ==
    ASSUME Types, MonitorOK, [Next]_vars
    PROVE  MonitorOK'
<1>1. ASSUME NEW k \in Walk, StartWalk(k)
      PROVE  MonitorOK'
  <2>1. /\ burying = {} /\ walk' = [walk EXCEPT ![k] = all]
        /\ reset' \in BOOLEAN /\ UNCHANGED <<all, check, burying, slotCh>>
        /\ \A b \in Backend : check[k][b] = "none"
    BY <1>1 DEF StartWalk, Active, MonitorOK
  <2> QED BY <1>1, <2>1 DEF MonitorOK, Walk
<1>2. ASSUME NEW k \in Walk, NEW b \in Backend, Visit(k, b)
      PROVE  MonitorOK'
  <2>1. /\ b \in walk[k] /\ b \notin burying
        /\ walk' = [walk EXCEPT ![k] = @ \ {b}]
        /\ UNCHANGED <<all, reset, burying, slotCh>>
        /\ \/ check' = check
           \/ check' = [check EXCEPT ![k][b] = FirstStep(k)]
    BY <1>2 DEF Visit
  <2>2. FirstStep(k) \in {"none", "probe", "decide", "decideReset"}
    BY DEF FirstStep
  <2>3. walk' \in [Walk -> SUBSET all] /\ walk'["dead"] \subseteq walk["dead"]
        /\ (k = "dead" => b \notin walk'["dead"]) /\ b \in all /\ k \in Kind
    BY <2>1 DEF MonitorOK, Walk, Kind
  <2>4. check' \in [Kind -> [Backend -> {"none", "probe", "decide", "decideReset"}]]
    BY <2>1, <2>2, <2>3 DEF MonitorOK
  <2>5. ASSUME NEW c \in Backend, c # b \/ k # "dead"
        PROVE  check'["dead"][c] = check["dead"][c]
    BY <2>1, <2>3, <2>5 DEF MonitorOK, Walk, Kind
  <2> QED BY <2>1, <2>3, <2>4, <2>5 DEF MonitorOK
<1>3. ASSUME NEW k \in Kind, NEW b \in Backend, Probes(k, b)
      PROVE  MonitorOK'
  <2>1. PICK to \in {"none", "decide"} : check' = [check EXCEPT ![k][b] = to]
    BY <1>3 DEF Probes, Probe
  <2>2. UNCHANGED <<all, walk, reset, slotCh, burying>> /\ check[k][b] = "probe"
    BY <1>3 DEF Probes, Probe
  <2> QED BY <2>1, <2>2, ChecksMonitored
<1>4. ASSUME NEW k \in Kind, NEW b \in Backend, Moves(k, b)
      PROVE  MonitorOK'
  <2>1. /\ check' = [check EXCEPT ![k][b] = "none"]
        /\ UNCHANGED <<all, walk, reset, slotCh>> /\ check[k][b] # "none"
    BY <1>4 DEF Moves, quarantine, Throttle, Unthrottle, cure, kill, resurrect, BuryLocks,
                Leave, Decide
  <2>2. \/ burying' = burying
        \/ k = "dead" /\ burying' = burying \cup {b}
    BY <1>4 DEF Moves, quarantine, Throttle, Unthrottle, cure, kill, resurrect, BuryLocks,
                Leave, ToBury
  <2> QED BY <2>1, <2>2, ChecksMonitored
<1>5. ASSUME NEW b \in Backend, bury(b)
      PROVE  MonitorOK'
  <2>1. /\ b \in burying /\ \A k \in Walk : walk[k] = {}
        /\ all' = all \ {b} /\ burying' = burying \ {b}
        /\ UNCHANGED <<walk, reset, check, slotCh>>
    BY <1>5 DEF bury
  <2> QED BY <2>1 DEF MonitorOK
<1>6. ASSUME NEW p \in Provider, Send(p)
      PROVE  MonitorOK'
  <2>1. /\ slotCh' = Append(slotCh, provider[p].slot) /\ Len(slotCh) < SlotChCap
        /\ UNCHANGED <<all, walk, reset, check, burying>>
    BY <1>6 DEF Send, monitor
  <2>2. Len(slotCh') = Len(slotCh) + 1 /\ Len(slotCh) \in Nat
    BY <2>1 DEF Types, CallsOK
  <2>3. Len(slotCh') <= SlotChCap
    BY <2>1, <2>2, UpstreamAssumption
  <2> QED BY <2>1, <2>3 DEF MonitorOK
<1>7. ASSUME NEW h \in Handler, Take(h)
      PROVE  MonitorOK'
  <2>1. /\ slotCh' = Tail(slotCh) /\ slotCh # <<>>
        /\ UNCHANGED <<all, walk, reset, check, burying>>
    BY <1>7 DEF Take, monitor
  <2>2. Len(slotCh') = Len(slotCh) - 1 /\ Len(slotCh) \in Nat
    BY <2>1 DEF Types, CallsOK
  <2>3. Len(slotCh') <= SlotChCap
    BY <2>2, UpstreamAssumption DEF MonitorOK
  <2> QED BY <2>1, <2>3 DEF MonitorOK
<1>8. ASSUME \/ \E g \in Renewal : RenewSkips(g) \/ Renew(g)
             \/ \E p \in Provider : Provide(p) \/ Stop(p)
             \/ \E h \in Handler : Ask(h) \/ Busy(h) \/ Answer(h)
             \/ UNCHANGED vars
      PROVE  MonitorOK'
  <2>1. UNCHANGED <<all, walk, reset, check, burying, slotCh>>
    BY <1>8 DEF RenewSkips, Renew, Provide, Stop, Ask, Busy, Answer, monitor, vars
  <2> QED BY <2>1 DEF MonitorOK
<1> QED
  BY <1>1, <1>2, <1>3, <1>4, <1>5, <1>6, <1>7, <1>8 DEF Next

LEMMA CrashedKept ==
    ASSUME crashed \in BOOLEAN, [Next]_vars
    PROVE  crashed' \in BOOLEAN
<1>1. ASSUME NEW p \in Provider, Provide(p)
      PROVE  crashed' \in BOOLEAN
  <2>1. crashed' = (provider[p].limit = 0)
    BY <1>1 DEF Provide
  <2> QED BY <2>1
<1>2. ASSUME NEW k \in Kind, NEW b \in Backend, Probes(k, b) \/ Moves(k, b)
      PROVE  UNCHANGED crashed
  BY <1>2 DEF Probes, Probe, Moves, quarantine, Throttle, Unthrottle, cure, kill, resurrect,
              BuryLocks, Leave, Decide
<1>3. ASSUME NEW g \in Renewal, RenewSkips(g) \/ Renew(g)
      PROVE  UNCHANGED crashed
  BY <1>3 DEF RenewSkips, Renew
<1>4. ASSUME NEW h \in Handler, Ask(h) \/ Take(h) \/ Busy(h) \/ Answer(h)
      PROVE  UNCHANGED crashed
  BY <1>4 DEF Ask, Take, Busy, Answer
<1>5. ASSUME \/ \E p \in Provider : Send(p) \/ Stop(p)
             \/ \E k \in Walk : StartWalk(k) \/ \E b \in Backend : Visit(k, b)
             \/ \E b \in Backend : bury(b)
             \/ UNCHANGED vars
      PROVE  UNCHANGED crashed
  BY <1>5 DEF Send, Stop, StartWalk, Visit, bury, vars
<1> QED BY <1>1, <1>2, <1>3, <1>4, <1>5 DEF Next

\* A slot is buried once, no walk visits what is not in the cluster, no backend
\* is throttled below the last step or paced above its rate, and the channel
\* never holds more slots than it has room for.
THEOREM UpstreamTypeCorrect == Spec => []TypeOK
<1> DEFINE Bounded == WithinRates /\ AllCountable /\ MonitorOK /\ crashed \in BOOLEAN
<1>1. Init => Bounded
  BY WithinRatesInitially, CountableInitially, MonitorInitially DEF Init
<1>2. TypeInv /\ Bounded /\ [Next]_vars => Bounded'
  BY WithinRatesKept, CountableKept, MonitorKept, CrashedKept DEF TypeInv
<1>3. TypeInv /\ Bounded => TypeOK
  <2> SUFFICES ASSUME TypeInv, Bounded PROVE TypeOK
    OBVIOUS
  <2>1. slot \in [Backend ->
          [state : {"healthy", "sick", "dead"}, throttles : 0..maxThrottles,
           limit : Nat, cancelProvider : Provider \cup {Nil},
           sucProbes : 0..(ProbesInRow + 1), errProbes : 0..(ProbesInRow + 1),
           total : 0..MaxTotal, errors : Nat]]
    <3>1. ASSUME NEW b \in Backend
          PROVE  slot[b] \in
                   [state : {"healthy", "sick", "dead"}, throttles : 0..maxThrottles,
                    limit : Nat, cancelProvider : Provider \cup {Nil},
                    sucProbes : 0..(ProbesInRow + 1), errProbes : 0..(ProbesInRow + 1),
                    total : 0..MaxTotal, errors : Nat]
      <4>1. slot[b] \in SlotType /\ Countable(slot[b])
        BY DEF TypeInv, Types, SlotsOK, AllCountable
      <4> QED BY <4>1, UpstreamAssumption DEF SlotType, Countable
    <3> QED BY <3>1 DEF TypeInv, Types, SlotsOK
  <2>2. walk \in [Walk -> SUBSET Backend]
    BY DEF MonitorOK
  <2>3. crashed \in BOOLEAN
    OBVIOUS
  <2> QED
    BY <2>1, <2>2, <2>3 DEF TypeOK, TypeInv, Types, RenewalsOK, ProvidersOK, CallsOK, RenewalType,
                      ProviderType, WithinRates, MonitorOK
<1> QED
  BY Initially, StepKeepsTypeInv, <1>1, <1>2, <1>3, PTL DEF Spec
===============================================================================
