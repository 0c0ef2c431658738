------------------------------- MODULE PartsProofs -------------------------------
(***************************************************************************)
(* Proofs about the parts of the service that share no state with one      *)
(* another: the API's handlers (Api), the health probe (Probe), the two    *)
(* loggers of errors (ErrorLog), the filter of admissions (Admission), the *)
(* refresher's numbers (Refresher), the pools of requests and responses    *)
(* (Pools), the controller's numbers (Stats) and the start (Start).  Each  *)
(* has a section with its inductive invariant, that it holds initially and *)
(* is kept, and at the end the theorem.  Then come the algorithms on data, *)
(* for every input: how a key is made (Keys) and how an entry is packed    *)
(* (Codec).  The last section puts the parts' invariants together: they    *)
(* are one of MCParts, of which each behaviour runs one part.              *)
(***************************************************************************)
EXTENDS MCParts, FiniteSetTheorems, SequenceTheorems, NaturalsInduction,
        WellFoundedInduction, TLAPS

-----------------------------------------------------------------------------
(* Natural numbers.                                                         *)

\* A nonempty set of natural numbers has a least element.
LEMMA LeastNat ==
    ASSUME NEW U \in SUBSET Nat, U # {}
    PROVE  \E k \in U : \A m \in U : k <= m
<1> DEFINE R == OpToRel(<, Nat)
<1>1. IsWellFoundedOn(R, Nat)
  BY NatLessThanWellFounded
<1>2. PICK k \in U : \A m \in U : ~(<<m, k>> \in R)
  <2> HIDE DEF R
  <2> QED BY <1>1, WFMin
<1>3. \A m, n \in Nat : m < n => <<m, n>> \in R
  BY DEF OpToRel
<1> HIDE DEF R
<1>4. ASSUME NEW m \in U PROVE k <= m
  <2>1. m \in Nat /\ k \in Nat
    OBVIOUS
  <2>2. ~(m < k)
    BY <1>2, <1>3, <2>1
  <2> QED BY <2>1, <2>2
<1> QED BY <1>4

\* Induction over the naturals, for a set instead of a predicate.
LEMMA AllNaturals ==
    ASSUME NEW T \in SUBSET Nat, 0 \in T, \A n \in T : n + 1 \in T
    PROVE  T = Nat
<1> SUFFICES ASSUME Nat \ T # {} PROVE FALSE
  OBVIOUS
<1>1. PICK k \in Nat \ T : \A m \in Nat \ T : k <= m
  BY LeastNat
<1>2. k \in Nat /\ k # 0 /\ k \notin T
  OBVIOUS
<1>3. k - 1 \in Nat /\ k - 1 < k /\ (k - 1) + 1 = k
  BY <1>2
<1>4. k - 1 \in T
  BY <1>1, <1>3
<1> QED BY <1>2, <1>3, <1>4

\* Induction up to a bound.
LEMMA UpTo ==
    ASSUME NEW N \in Nat, NEW T, 0 \in T, \A n \in 1..N : n - 1 \in T => n \in T
    PROVE  \A n \in 0..N : n \in T
<1> DEFINE U == {n \in Nat : n <= N => n \in T}
<1>1. 0 \in U
  OBVIOUS
<1>2. ASSUME NEW n \in U PROVE n + 1 \in U
  <2> SUFFICES ASSUME n + 1 <= N PROVE n + 1 \in T
    OBVIOUS
  <2>1. n \in Nat /\ n <= N /\ n + 1 \in 1..N /\ (n + 1) - 1 = n
    OBVIOUS
  <2>2. n \in T
    BY <2>1
  <2> QED BY <2>1, <2>2
<1>3. U = Nat
  <2> HIDE DEF U
  <2>1. U \in SUBSET Nat
    BY DEF U
  <2> QED BY <1>1, <1>2, <2>1, AllNaturals
<1> QED BY <1>3

\* A recursion from 0 on has a solution, if its steps stay in a set.
Recurs(N, S, start, step) ==
    \E f \in [0..N -> S] : f[0] = start /\ \A n \in 1..N : f[n] = step[<<f[n - 1], n>>]

LEMMA Recursion ==
    ASSUME NEW N \in Nat, NEW S, NEW start \in S, NEW step \in [S \X (1..N) -> S]
    PROVE  Recurs(N, S, start, step)
<1> DEFINE Solves(f, m) ==
             /\ f \in [0..m -> S]
             /\ \A n \in 0..m : f[n] = IF n = 0 THEN start ELSE step[<<f[n - 1], n>>]
           T == {m \in Nat : m <= N => \E f : Solves(f, m)}
<1>1. 0 \in T
  <2> DEFINE g == [n \in 0..0 |-> start]
  <2>1. Solves(g, 0)
    OBVIOUS
  <2> QED BY <2>1
<1>2. ASSUME NEW m \in T PROVE m + 1 \in T
  <2> SUFFICES ASSUME m + 1 <= N PROVE \E f : Solves(f, m + 1)
    OBVIOUS
  <2>1. /\ m \in Nat /\ m <= N /\ m + 1 \in 1..N /\ (m + 1) - 1 = m /\ m + 1 # 0
    OBVIOUS
  <2>2. PICK f : Solves(f, m)
    BY <2>1
  <2> DEFINE last == step[<<f[m], m + 1>>]
             g == [n \in 0..(m + 1) |-> IF n = m + 1 THEN last ELSE f[n]]
  <2>3. last \in S
    BY <2>1, <2>2
  <2> HIDE DEF last
  <2>4. g \in [0..(m + 1) -> S]
    BY <2>1, <2>2, <2>3
  <2>5. g[m + 1] = last /\ \A n \in 0..m : g[n] = f[n]
    BY <2>1
  <2> HIDE DEF g
  <2>6. ASSUME NEW n \in 0..(m + 1)
        PROVE  g[n] = IF n = 0 THEN start ELSE step[<<g[n - 1], n>>]
    <3>1. CASE n = m + 1
      <4>1. n # 0 /\ n - 1 = m /\ g[m] = f[m]
        BY <2>1, <2>5, <3>1
      <4>2. g[n] = step[<<g[n - 1], n>>]
        BY <2>5, <3>1, <4>1 DEF last
      <4> QED BY <4>1, <4>2
    <3>2. CASE n # m + 1
      <4>1. n \in 0..m /\ (n # 0 => n - 1 \in 0..m)
        BY <2>1, <3>2
      <4>2. f[n] = IF n = 0 THEN start ELSE step[<<f[n - 1], n>>]
        BY <2>2, <4>1
      <4> QED BY <2>5, <4>1, <4>2
    <3> QED BY <3>1, <3>2
  <2> QED BY <2>4, <2>6
<1>3. T = Nat
  <2> HIDE DEF T
  <2>1. T \in SUBSET Nat
    BY DEF T
  <2> QED BY <1>1, <1>2, <2>1, AllNaturals
<1>4. PICK f : Solves(f, N)
  BY <1>3
<1>5. f[0] = start /\ \A n \in 1..N : f[n] = step[<<f[n - 1], n>>]
  <2>1. 0 \in 0..N /\ \A n \in 1..N : n \in 0..N /\ n # 0
    OBVIOUS
  <2> QED BY <1>4, <2>1
<1> QED BY <1>4, <1>5 DEF Recurs

-----------------------------------------------------------------------------
(* Api: for any number of clients, paths and tokens a token clears the      *)
(* cache once, and only a refused miss stops the program.                   *)

\* A token that is presented has not been accepted yet, and none was twice.
Once ==
    /\ token \in Token \cup {NoToken}
    /\ cleared \in [Token -> Nat]
    /\ token \in Token => cleared[token] = 0
    /\ ClearsOncePerToken

\* An answer without an entry has another status than 200.
Answers ==
    /\ request \in [Client -> Request]
    /\ \A c \in Client :
         AtPc(c, "respond") => (request[c].entry \/ request[c].status # 200)
    /\ PanicsOnlyOnRefusedMiss

LEMMA OnceInitially ==
    ApiInit => Once
BY ApiAssumption DEF ApiInit, Once, ClearsOncePerToken

\* Tokens change hands in three steps; all others leave them alone.
LEMMA OnceKept ==
    ASSUME Once, [ApiNext]_apiVars
    PROVE  Once'
<1>1. CASE UNCHANGED <<token, cleared>>
  BY <1>1 DEF Once, ClearsOncePerToken
<1>2. ASSUME NEW c \in Client, NEW t \in Token, Generate(c, t)
      PROVE  Once'
  BY <1>2 DEF Once, ClearsOncePerToken, Generate
<1>3. ASSUME NEW c \in Client, NEW t \in Token, UseToken(c, t)
      PROVE  Once'
  <2>1. token' = NoToken
    BY <1>3 DEF UseToken
  <2>2. CASE t = token /\ fresh
    <3>1. cleared' = [cleared EXCEPT ![t] = cleared[t] + 1] /\ cleared[t] = 0
      BY <1>3, <2>2 DEF UseToken, Once
    <3> QED
      BY <2>1, <3>1, ApiAssumption DEF Once, ClearsOncePerToken
  <2>3. CASE ~(t = token /\ fresh)
    <3>1. cleared' = cleared
      BY <1>3, <2>3 DEF UseToken
    <3> QED
      BY <2>1, <3>1, ApiAssumption DEF Once, ClearsOncePerToken
  <2> QED
    BY <2>2, <2>3
<1> QED
  BY <1>1, <1>2, <1>3
  DEF ApiNext, apiVars, Expires, Switch, Index, Get, Fetch, Set, FromResponse,
      Proxy, AskToken, GenerateFails, Clear

LEMMA AnswersInitially ==
    ApiInit => Answers
BY DEF ApiInit, Answers, Idle, Request, AtPc, PanicsOnlyOnRefusedMiss

\* What a client does next keeps Answers if it is no answer without an entry.
LEMMA AnswersIfGoes ==
    ASSUME Answers, ~panicked, panicked' = panicked,
           NEW c \in Client, NEW r \in Request, Goes(c, r),
           r.pc = "respond" => (r.entry \/ r.status # 200)
    PROVE  Answers'
<1>1. request'[c] = r /\ \A d \in Client \ {c} : request'[d] = request[d]
  BY DEF Goes, Answers
<1>2. request' \in [Client -> Request]
  BY DEF Goes, Answers
<1> QED
  BY <1>1, <1>2 DEF Answers, AtPc, PanicsOnlyOnRefusedMiss

LEMMA AnswersKept ==
    ASSUME Answers, [ApiNext]_apiVars
    PROVE  Answers'
<1>1. CASE UNCHANGED <<request, panicked>>
  BY <1>1 DEF Answers, AtPc, PanicsOnlyOnRefusedMiss
<1>2. Idle \in Request /\ Idle.pc # "respond"
  BY DEF Idle, Request
<1> SUFFICES ASSUME ApiNext
             PROVE  Answers'
  BY <1>1 DEF apiVars
<1>3. ~panicked
  BY DEF ApiNext
<1>4. ASSUME NEW c \in Client, NEW k \in Item, Index(c, k)
      PROVE  Answers'
  <2> DEFINE r == [pc |-> IF enabled /\ k \in Ruled THEN "get" ELSE "proxy", key |-> k]
  <2>1. r \in Request /\ r.pc # "respond"
    BY DEF Request
  <2>2. Goes(c, r) /\ panicked' = panicked
    BY <1>4 DEF Index
  <2> HIDE DEF r
  <2> QED
    BY <1>3, <2>1, <2>2, AnswersIfGoes
<1>5. ASSUME NEW c \in Client, Get(c)
      PROVE  Answers'
  <2> DEFINE k == request[c].key
  <2>1. k \in Ruled
    BY <1>5 DEF Get, AtPc, Answers, Request
  <2>2. [pc |-> "miss", key |-> k] \in Request
    BY <2>1 DEF Request
  <2> HIDE DEF k
  <2>3. Goes(c, Idle) \/ Goes(c, [pc |-> "miss", key |-> k])
    BY <1>5 DEF Get, k
  <2>4. panicked' = panicked
    BY <1>5 DEF Get
  <2> QED
    BY <1>2, <1>3, <2>2, <2>3, <2>4, AnswersIfGoes
<1>6. ASSUME NEW c \in Client, Fetch(c)
      PROVE  Answers'
  <2> DEFINE k == request[c].key
             s == [pc |-> "set", key |-> k]
             r == Respond(k, 404, FALSE)
  <2>1. k \in Ruled
    BY <1>6 DEF Fetch, AtPc, Answers, Request
  <2>2. s \in Request /\ s.pc # "respond"
    BY <2>1 DEF Request
  <2>3. r \in Request /\ r.status # 200
    BY <2>1 DEF Request, Respond
  <2>4. Goes(c, Idle) \/ Goes(c, s) \/ Goes(c, r)
    BY <1>6 DEF Fetch
  <2>5. panicked' = panicked
    BY <1>6 DEF Fetch
  <2> HIDE DEF s, r
  <2> QED
    BY <1>2, <1>3, <2>2, <2>3, <2>4, <2>5, AnswersIfGoes
<1>7. ASSUME NEW c \in Client, Set(c)
      PROVE  Answers'
  <2> DEFINE r == Respond(request[c].key, 200, TRUE)
  <2>1. request[c].key \in Ruled
    BY <1>7 DEF Set, AtPc, Answers, Request
  <2>2. r \in Request /\ r.entry
    BY <2>1 DEF Request, Respond
  <2>3. Goes(c, r) /\ panicked' = panicked
    BY <1>7 DEF Set
  <2> HIDE DEF r
  <2> QED
    BY <1>3, <2>2, <2>3, AnswersIfGoes
<1>8. ASSUME NEW c \in Client, FromResponse(c)
      PROVE  Answers'
  <2>1. CASE request[c].entry
    BY <1>2, <1>3, <1>8, <2>1, AnswersIfGoes DEF FromResponse
  <2>2. CASE ~request[c].entry
    \* The witness of the panic stays where it is.
    BY <1>8, <2>2 DEF FromResponse, Answers, AtPc, PanicsOnlyOnRefusedMiss
  <2> QED
    BY <2>1, <2>2
<1>9. ASSUME NEW c \in Client,
             Proxy(c) \/ AskToken(c) \/ GenerateFails(c) \/ Clear(c)
               \/ \E t \in Token : Generate(c, t) \/ UseToken(c, t)
      PROVE  Answers'
  <2>1. /\ [pc |-> "generate"] \in Request /\ [pc |-> "generate"].pc # "respond"
        /\ [pc |-> "clear"] \in Request /\ [pc |-> "clear"].pc # "respond"
    BY DEF Request
  <2>2. \/ request' = request \/ Goes(c, Idle)
        \/ Goes(c, [pc |-> "generate"]) \/ Goes(c, [pc |-> "clear"])
    BY <1>9 DEF Proxy, AskToken, GenerateFails, Clear, Generate, UseToken
  <2>3. panicked' = panicked
    BY <1>9 DEF Proxy, AskToken, GenerateFails, Clear, Generate, UseToken
  <2> QED
    BY <1>1, <1>2, <1>3, <2>1, <2>2, <2>3, AnswersIfGoes
<1>10. CASE Expires \/ \E on \in BOOLEAN : Switch(on)
  BY <1>1, <1>10 DEF Expires, Switch
<1> QED
  BY <1>4, <1>5, <1>6, <1>7, <1>8, <1>9, <1>10 DEF ApiNext

\* A token that clears the cache once is void, however many clients ask for
\* tokens and present them at a time.
THEOREM TokensClearOnce == ApiSpec => []ClearsOncePerToken
<1>1. Once => ClearsOncePerToken
  BY DEF Once
<1> QED
  BY OnceInitially, OnceKept, <1>1, PTL DEF ApiSpec

\* Nothing but an answer without an entry, which only another status than 200
\* has, stops the program, whatever else is requested, switched and cleared.
THEOREM OnlyRefusedMissPanics == ApiSpec => []PanicsOnlyOnRefusedMiss
<1>1. Answers => PanicsOnlyOnRefusedMiss
  BY DEF Answers
<1> QED
  BY AnswersInitially, AnswersKept, <1>1, PTL DEF ApiSpec

\* With what the two invariants leave open, the whole state has its type.
ApiInv ==
    /\ Once /\ Answers
    /\ enabled \in BOOLEAN /\ store \subseteq Ruled /\ fresh \in BOOLEAN /\ panicked \in BOOLEAN

LEMMA ApiTyped == ApiInv => ApiTypeOK
BY DEF ApiInv, Once, Answers, ApiTypeOK

LEMMA ApiTypedInitially == ApiInit => ApiInv
<1> SUFFICES ASSUME ApiInit PROVE ApiInv
  OBVIOUS
<1>1. enabled \in BOOLEAN /\ store \subseteq Ruled /\ fresh \in BOOLEAN /\ panicked \in BOOLEAN
  BY DEF ApiInit
<1> QED BY <1>1, OnceInitially, AnswersInitially DEF ApiInv

LEMMA ApiTypeKept == ApiInv /\ [ApiNext]_apiVars => ApiInv'
<1> SUFFICES ASSUME ApiInv, [ApiNext]_apiVars PROVE ApiInv'
  OBVIOUS
<1>1. Once' /\ Answers'
  BY OnceKept, AnswersKept DEF ApiInv
<1>2. ASSUME NEW c \in Client, AtPc(c, "set") PROVE request[c].key \in Ruled
  BY <1>2 DEF ApiInv, Answers, AtPc, Request
<1>3. CASE UNCHANGED apiVars
  BY <1>1, <1>3 DEF ApiInv, apiVars
<1>4. ASSUME NEW c \in Client, Set(c)
      PROVE  ApiInv'
  <2>1. store' \subseteq Ruled /\ UNCHANGED <<enabled, fresh, panicked>>
    BY <1>2, <1>4 DEF Set, ApiInv
  <2> QED BY <1>1, <2>1 DEF ApiInv
<1>5. ASSUME NEW c \in Client, Clear(c) \/ FromResponse(c)
      PROVE  ApiInv'
  <2>1. store' \subseteq Ruled /\ panicked' \in BOOLEAN /\ UNCHANGED <<enabled, fresh>>
    BY <1>5 DEF Clear, FromResponse, ApiInv
  <2> QED BY <1>1, <2>1 DEF ApiInv
<1>6. ASSUME NEW c \in Client, NEW t \in Token, Generate(c, t) \/ UseToken(c, t)
      PROVE  ApiInv'
  <2>1. fresh' \in BOOLEAN /\ UNCHANGED <<enabled, store, panicked>>
    BY <1>6 DEF Generate, UseToken
  <2> QED BY <1>1, <2>1 DEF ApiInv
<1>7. CASE Expires \/ \E on \in BOOLEAN : Switch(on)
  <2>1. enabled' \in BOOLEAN /\ fresh' \in BOOLEAN /\ UNCHANGED <<store, panicked>>
    BY <1>7 DEF Expires, Switch, ApiInv
  <2> QED BY <1>1, <2>1 DEF ApiInv
<1>8. ASSUME NEW c \in Client,
             \/ \E k \in Item : Index(c, k)
             \/ Get(c) \/ Fetch(c) \/ Proxy(c) \/ AskToken(c) \/ GenerateFails(c)
      PROVE  ApiInv'
  <2>1. UNCHANGED <<enabled, store, fresh, panicked>>
    BY <1>8 DEF Index, Get, Fetch, Proxy, AskToken, GenerateFails
  <2> QED BY <1>1, <2>1 DEF ApiInv
<1> QED BY <1>3, <1>4, <1>5, <1>6, <1>7, <1>8 DEF ApiNext

-----------------------------------------------------------------------------
(* Probe: a probe that neither times out nor overlaps with another one is   *)
(* answered with what was found out for it, for any number of callers and   *)
(* contexts.                                                                *)

\* What is known of the only call there is, as long as none timed out and no
\* two overlapped: its context is alive, its question is either with its
\* goroutine or with Watch, and nobody else asks.
Lone ==
    ~timedOut /\ ~overlapped =>
        /\ \A c, d \in Waiting : c = d
        /\ \A c \in Waiting :
            /\ probe[c].ctx \notin expired
            /\ probe[c].down => server = "down"
            /\ probe[c].down /\ watch.pc = "answer" => ~watch.alive
            /\ watch.pc = "receive" => probe[c].ctx \in asking
        /\ watch.pc # "receive" => asking = {} /\ Waiting # {}
        /\ \A x \in asking : \E c \in Waiting : probe[c].ctx = x

ProbeInv == ProbeTypeOK /\ Lone

LEMMA LoneSuffices ==
    Lone => LoneProbeIsAnswered
BY DEF Lone, LoneProbeIsAnswered, NoAnswerIsLeft, NobodyIsForgotten, NobodyIsMisled

LEMMA ProbeInitiallyLone ==
    ProbeInit => ProbeInv
<1> SUFFICES ASSUME ProbeInit
             PROVE  ProbeInv
  OBVIOUS
<1>1. Waiting = {}
  BY DEF ProbeInit, Waiting
<1>2. Lone
  BY <1>1 DEF ProbeInit, Lone
<1>3. ProbeTypeOK
  BY DEF ProbeInit, ProbeTypeOK
<1> QED
  BY <1>2, <1>3 DEF ProbeInv

\* The steps that make or end a call keep the state's type.
LEMMA ProbeTypeKept ==
    ASSUME ProbeTypeOK, [ProbeNext]_probeVars
    PROVE  ProbeTypeOK'
<1>1. CASE UNCHANGED probeVars
  BY <1>1 DEF ProbeTypeOK, probeVars
<1>2. CASE ServerMarks("new", "up")
  BY <1>2 DEF ProbeTypeOK, ServerMarks
<1>3. CASE ServerMarks("up", "down")
  BY <1>3 DEF ProbeTypeOK, ServerMarks
<1>4. CASE FindOut
  <2>1. watch' \in [pc : {"receive", "ask", "answer"}, alive : BOOLEAN]
    BY <1>4 DEF FindOut
  <2> QED
    BY <1>4, <2>1 DEF ProbeTypeOK, FindOut
<1>5. ASSUME NEW x \in Context, Ask(x) \/ GiveUp(x)
      PROVE  ProbeTypeOK'
  BY <1>5 DEF ProbeTypeOK, Ask, GiveUp
<1>6. ASSUME NEW c \in Caller, IsAlive(c)
      PROVE  ProbeTypeOK'
  BY <1>6 DEF ProbeTypeOK, IsAlive
<1>7. ASSUME NEW c \in Caller, Answered(c) \/ Expire(c) \/ NotAnswered(c)
      PROVE  ProbeTypeOK'
  <2>1. probe[c] \in [ctx : Context, down : BOOLEAN]
    BY <1>7 DEF ProbeTypeOK, Answered, Expire, NotAnswered, Waiting
  <2>2. probe[c].ctx \in Context
    BY <2>1
  <2> QED
    BY <1>7, <2>2 DEF ProbeTypeOK, Answered, Expire, NotAnswered, Ends
<1> QED
  BY <1>1, <1>2, <1>3, <1>4, <1>5, <1>6, <1>7 DEF ProbeNext

LEMMA ProbeStep ==
    ASSUME ProbeInv, [ProbeNext]_probeVars
    PROVE  Lone'
<1> SUFFICES ASSUME ~timedOut', ~overlapped'
             PROVE  Lone'
  BY DEF Lone
<1> USE DEF ProbeInv
<1>1. CASE UNCHANGED probeVars
  BY <1>1 DEF Lone, Waiting, probeVars
<1>2. CASE ServerMarks("new", "up") \/ ServerMarks("up", "down")
  BY <1>2 DEF Lone, Waiting, ServerMarks
<1>3. CASE FindOut
  BY <1>3 DEF Lone, Waiting, FindOut, ProbeTypeOK
<1>4. ASSUME NEW x \in Context, Ask(x)
      PROVE  Lone'
  BY <1>4 DEF Lone, Waiting, Ask, ProbeTypeOK
<1>5. ASSUME NEW x \in Context, GiveUp(x)
      PROVE  Lone'
  \* The only goroutine that asks does so for a call that has not expired.
  BY <1>5 DEF Lone, Waiting, GiveUp, ProbeTypeOK
<1>6. ASSUME NEW c \in Caller, IsAlive(c)
      PROVE  Lone'
  <2>1. PICK x \in Context \ asking :
          /\ probe' = [probe EXCEPT ![c] = [ctx |-> x, down |-> server = "down"]]
          /\ asking' = asking \cup {x}
          /\ expired' = expired \ {x}
    BY <1>6 DEF IsAlive
  <2>2. /\ Waiting = {} /\ asking = {} /\ watch.pc = "receive"
        /\ UNCHANGED <<server, watch>>
    BY <1>6 DEF IsAlive, Lone
  <2> DEFINE call == [ctx |-> x, down |-> server = "down"]
  <2>3. call \in [ctx : Context, down : BOOLEAN]
    OBVIOUS
  <2>4. call # NoCall
    BY <2>3, ProbeAssumption
  <2>5. call.ctx = x /\ call.down = (server = "down")
    OBVIOUS
  <2>6. probe' = [probe EXCEPT ![c] = call]
    BY <2>1
  <2> HIDE DEF call
  <2>7. probe'[c] = call /\ \A d \in Caller \ {c} : probe'[d] = probe[d]
    BY <2>6 DEF ProbeTypeOK
  <2>8. Waiting' = {c}
    BY <2>4, <2>2, <2>7 DEF Waiting
  <2>9. asking' = {x} /\ x \notin expired' /\ watch' = watch /\ server' = server
    BY <2>1, <2>2
  <2>10. /\ probe'[c].ctx = x
         /\ probe'[c].down => server' = "down"
    BY <2>7, <2>9, <2>5
  <2>11. watch'.pc = "receive"
    BY <2>2, <2>9
  <2>12. /\ \A d \in Waiting' :
             /\ probe'[d].ctx \notin expired'
             /\ probe'[d].down => server' = "down"
             /\ probe'[d].ctx \in asking'
         /\ \A y \in asking' : \E d \in Waiting' : probe'[d].ctx = y
    BY <2>8, <2>9, <2>10
  <2>13. \A d, e \in Waiting' : d = e
    BY <2>8
  <2> QED
    BY <2>11, <2>12, <2>13 DEF Lone
<1>7. ASSUME NEW c \in Caller, Answered(c)
      PROVE  Lone'
  <2>1. ~timedOut /\ ~overlapped /\ Waiting = {c} /\ asking = {}
    BY <1>7 DEF Lone, Answered, Ends
  <2>2. Waiting' = {}
    BY <1>7, <2>1 DEF Waiting, Answered, Ends, ProbeTypeOK
  <2> QED
    BY <1>7, <2>1, <2>2 DEF Lone, Answered, Ends
<1>8. ASSUME NEW c \in Caller, Expire(c)
      PROVE  Lone'
  BY <1>8 DEF Expire
<1>9. ASSUME NEW c \in Caller, NotAnswered(c)
      PROVE  Lone'
  \* The call has not expired.
  BY <1>9 DEF Lone, NotAnswered, Ends
<1> QED
  BY <1>1, <1>2, <1>3, <1>4, <1>5, <1>6, <1>7, <1>8, <1>9 DEF ProbeNext

\* The probe's goroutines, channels and calls keep their type.
THEOREM ProbeTypeCorrect == ProbeSpec => []ProbeTypeOK
<1>1. ProbeInit => ProbeTypeOK
  BY ProbeInitiallyLone DEF ProbeInv
<1>2. ProbeTypeOK /\ [ProbeNext]_probeVars => ProbeTypeOK'
  BY ProbeTypeKept
<1> QED
  BY <1>1, <1>2, PTL DEF ProbeSpec

\* As long as no probe timed out and no two overlapped, a caller gets an answer,
\* and the one that was found out for it.
THEOREM LoneProbeHolds == ProbeSpec => []LoneProbeIsAnswered
<1>1. ProbeInit => ProbeInv
  BY ProbeInitiallyLone
<1>2. ProbeInv /\ [ProbeNext]_probeVars => ProbeInv'
  BY ProbeTypeKept, ProbeStep DEF ProbeInv
<1>3. ProbeInv => LoneProbeIsAnswered
  BY LoneSuffices DEF ProbeInv
<1> QED
  BY <1>1, <1>2, <1>3, PTL DEF ProbeSpec

-----------------------------------------------------------------------------
(* ErrorLog: the two loggers of errors never touch the same map.            *)

\* Except between the two steps of a tick, the map that is written is neither
\* printed nor to be printed.
MapsApartInv ==
    /\ ErrorLogTypeOK
    /\ logger # "renew" => curMap \notin {prevMap, printing}

\* There is a map that nobody uses.
LEMMA FreeMap == ASSUME NEW a, NEW b, NEW c PROVE \E m \in ErrorMap : m \notin {a, b, c}
<1> SUFFICES ASSUME ErrorMap \subseteq {a, b, c} PROVE FALSE
  OBVIOUS
<1>1. IsFiniteSet({a, b, c}) /\ Cardinality({a, b, c}) <= 3
  <2>1. IsFiniteSet({a}) /\ Cardinality({a}) = 1
    BY FS_Singleton
  <2>2. {a, b} = {a} \cup {b} /\ {a, b, c} = {a, b} \cup {c}
    OBVIOUS
  <2>3. IsFiniteSet({a, b}) /\ Cardinality({a, b}) \in Nat /\ Cardinality({a, b}) <= 2
    <3>1. /\ IsFiniteSet({a} \cup {b})
          /\ Cardinality({a} \cup {b}) = IF b \in {a} THEN 1 ELSE 1 + 1
      BY <2>1, FS_AddElement
    <3>2. Cardinality({a} \cup {b}) = 1 \/ Cardinality({a} \cup {b}) = 2
      BY <3>1
    <3> QED BY <2>2, <3>1, <3>2
  <2>4. /\ IsFiniteSet({a, b, c})
        /\ Cardinality({a, b, c}) \in {Cardinality({a, b}), Cardinality({a, b}) + 1}
    BY <2>2, <2>3, FS_AddElement
  <2> QED BY <2>3, <2>4
<1>2. IsFiniteSet(ErrorMap) /\ Cardinality(ErrorMap) <= Cardinality({a, b, c})
  BY <1>1, FS_Subset
<1>3. Cardinality(ErrorMap) \in Nat /\ Cardinality({a, b, c}) \in Nat
  BY <1>1, <1>2, FS_CardinalityType
<1> QED BY <1>1, <1>2, <1>3, ErrorLogAssumption

LEMMA ApartInitially == ErrorLogInit => MapsApartInv
<1> SUFFICES ASSUME ErrorLogInit PROVE MapsApartInv
  OBVIOUS
<1>1. curMap \in ErrorMap
  BY FreeMap DEF ErrorLogInit
<1>2. /\ done = FALSE /\ queue = 0 /\ prevMap = NoMap /\ printing = NoMap
      /\ logger = "select" /\ trigger = 0
  BY DEF ErrorLogInit
<1>3. ErrorLogTypeOK
  <2>1. done \in BOOLEAN
    BY <1>2
  <2>2. queue \in 0..QueueCap /\ trigger \in 0..1
    BY <1>2, ErrorLogAssumption
  <2> QED BY <1>1, <1>2, <2>1, <2>2 DEF ErrorLogTypeOK
<1>4. curMap # NoMap
  BY <1>1, ErrorLogAssumption
<1> QED BY <1>2, <1>3, <1>4 DEF MapsApartInv

LEMMA ApartKept == MapsApartInv /\ [ErrorLogNext]_errorLogVars => MapsApartInv'
<1> SUFFICES ASSUME MapsApartInv, [ErrorLogNext]_errorLogVars PROVE MapsApartInv'
  OBVIOUS
<1> USE ErrorLogAssumption DEF MapsApartInv, ErrorLogTypeOK
<1>1. CASE OfferError
  <2>1. UNCHANGED <<done, mapVars>> /\ queue' \in 0..QueueCap
    BY <1>1 DEF OfferError
  <2> QED BY <2>1 DEF mapVars
<1>8. CASE CancelAll
  BY <1>8 DEF CancelAll, mapVars
<1>9. CASE LogError
  <2>1. UNCHANGED <<done, mapVars>> /\ queue' \in 0..QueueCap
    BY <1>9 DEF LogError
  <2> QED BY <2>1 DEF mapVars
<1>2. CASE KeepMap
  BY <1>2 DEF KeepMap
<1>3. CASE RenewMap
  <2>1. curMap' \in ErrorMap /\ curMap' \notin {curMap, prevMap, printing}
    BY <1>3, FreeMap DEF RenewMap
  <2> QED BY <1>3, <2>1 DEF RenewMap
<1>4. CASE Trigger \/ LoggerQuits
  BY <1>4 DEF Trigger, LoggerQuits
<1>5. CASE PrintMap
  BY <1>5 DEF PrintMap
<1>6. CASE Printed
  BY <1>6 DEF Printed
<1>7. CASE UNCHANGED errorLogVars
  BY <1>7 DEF errorLogVars, mapVars
<1> QED BY <1>1, <1>2, <1>3, <1>4, <1>5, <1>6, <1>7, <1>8, <1>9 DEF ErrorLogNext, Logs

\* However far the writer lags behind, it never iterates over the map that the
\* logger may write to at that moment (refresher.go and cache_controller.go, the
\* two goroutines of each logger).
THEOREM MapsStayApart == ErrorLogSpec => []MapsApart
<1>1. MapsApartInv => MapsApart
  BY DEF MapsApartInv, MapsApart
<1> QED BY ApartInitially, ApartKept, <1>1, PTL DEF ErrorLogSpec

-----------------------------------------------------------------------------
(* Admission: the sketches and the door keepers.                            *)

Sketch == [hash : [Row -> Hash], cell : [Row -> [Bucket -> Nat]], count : [Object -> Nat]]
Door   == [hash : Hash \X Hash, bits : SUBSET Bucket]

\* Each row has counted a key as often as it was counted.
Covers(sk) ==
    \A r \in Row, k \in Object : sk.cell[r][sk.hash[r][k]] >= sk.count[k]

Setting ==
    [pc : {"idle"}] \cup
    [pc : {"count", "load", "allow", "admit", "ask"},
     key : Object, door : Nat, rotated : BOOLEAN]

Covered ==
    /\ AdmissionTypeOK /\ curr > 1
    /\ \A i \in DOMAIN sketch : Covers(sketch[i])

\* A setter that has seen no rotation works on the newest door keeper, and it
\* has told it its key before it asks.
Told(s) ==
    /\ Doing(s, "allow") \/ Doing(s, "ask") => setter[s].door \in 1..Len(door)
    /\ ~Doing(s, "idle") /\ ~setter[s].rotated =>
          /\ Doing(s, "allow") \/ Doing(s, "ask") => setter[s].door = Len(door)
          /\ Doing(s, "admit") \/ Doing(s, "ask") =>
                BitsOf(door[Len(door)], setter[s].key) \subseteq door[Len(door)].bits

AdmInv == Covered /\ \A s \in Setter : Told(s)

LEMMA NewSketchCovers ==
    ASSUME NEW h \in [Row -> Hash]
    PROVE  NewSketch(h) \in Sketch /\ Covers(NewSketch(h))
<1>1. \A r \in Row, k \in Object : h[r][k] \in Bucket
  BY AdmissionAssumption
<1>2. NewSketch(h) \in Sketch
  BY DEF NewSketch, Sketch
<1> QED BY <1>1, <1>2 DEF NewSketch, Covers

LEMMA AdmissionInitially == AdmissionInit => AdmInv
<1> SUFFICES ASSUME AdmissionInit PROVE AdmInv
  OBVIOUS
<1>1. PICK h \in [Row -> Hash] : sketch = <<NewSketch(h), NewSketch(h)>>
  BY DEF AdmissionInit
<1>2. PICK g \in Hash \X Hash : door = <<NewDoor(g)>>
  BY DEF AdmissionInit
<1>3. NewDoor(g) \in Door
  BY DEF NewDoor, Door
<1>4. NewSketch(h) \in Sketch /\ Covers(NewSketch(h))
  BY NewSketchCovers
<1>5. /\ curr = 2 /\ prev = 1 /\ rotator = "wait"
      /\ setter = [s \in Setter |-> Rest]
  BY DEF AdmissionInit
<1>6. setter \in [Setter -> Setting]
  BY <1>5 DEF Setting, Rest
<1>7. sketch \in Seq(Sketch) /\ door \in Seq(Door) /\ DOMAIN sketch = {1, 2} /\ door # <<>>
  BY <1>1, <1>2, <1>3, <1>4
<1>8. AdmissionTypeOK
  BY <1>5, <1>6, <1>7 DEF AdmissionTypeOK, Sketch, Door, Setting
<1>9. \A i \in DOMAIN sketch : Covers(sketch[i])
  BY <1>1, <1>4
<1>10. \A s \in Setter : Told(s)
  BY <1>5 DEF Told, Doing, Rest
<1> QED BY <1>5, <1>8, <1>9, <1>10 DEF AdmInv, Covered

\* Counting a key adds one to a cell of each row.
LEMMA AddedCovers ==
    ASSUME NEW sk \in Sketch, NEW k \in Object, Covers(sk)
    PROVE  Added(sk, k) \in Sketch /\ Covers(Added(sk, k))
<1> DEFINE cell == [r \in Row |-> [sk.cell[r] EXCEPT ![sk.hash[r][k]] = @ + 1]]
           counts == [sk.count EXCEPT ![k] = @ + 1]
<1>1. \A r \in Row, j \in Object : sk.hash[r][j] \in Bucket
  BY AdmissionAssumption DEF Sketch
<1>2. cell \in [Row -> [Bucket -> Nat]] /\ counts \in [Object -> Nat]
  BY <1>1 DEF Sketch
<1>3. Added(sk, k) = [sk EXCEPT !.cell = cell, !.count = counts]
  BY DEF Added, Sketch
<1>4. /\ Added(sk, k).hash = sk.hash /\ Added(sk, k).cell = cell /\ Added(sk, k).count = counts
      /\ Added(sk, k) \in Sketch
  BY <1>2, <1>3 DEF Sketch
<1>5. ASSUME NEW r \in Row, NEW j \in Object
      PROVE  cell[r][sk.hash[r][j]] >= counts[j]
  <2>1. /\ sk.cell[r] \in [Bucket -> Nat] /\ sk.count \in [Object -> Nat]
        /\ sk.cell[r][sk.hash[r][j]] >= sk.count[j]
    BY DEF Sketch, Covers
  <2>2. cell[r] = [sk.cell[r] EXCEPT ![sk.hash[r][k]] = sk.cell[r][sk.hash[r][k]] + 1]
    OBVIOUS
  <2>3. CASE j = k
    BY <1>1, <2>1, <2>2, <2>3
  <2>4. CASE j # k
    BY <1>1, <2>1, <2>2, <2>4
  <2> QED BY <2>3, <2>4
<1> HIDE DEF cell, counts
<1> QED BY <1>4, <1>5 DEF Covers

\* What a setter is, unless it is idle.
LEMMA SetterIs ==
    ASSUME AdmissionTypeOK, NEW s \in Setter, ~Doing(s, "idle")
    PROVE  /\ setter[s] \in [pc : {"count", "load", "allow", "admit", "ask"},
                             key : Object, door : Nat, rotated : BOOLEAN]
           /\ setter[s].key \in Object /\ setter[s].door \in Nat /\ setter[s].rotated \in BOOLEAN
BY DEF AdmissionTypeOK, Doing

\* The steps of a setter that touch no sketch and no door keeper.
LEMMA SetterOnly ==
    ASSUME AdmInv, NEW s \in Setter, NEW r \in Setting, Does(s, r),
           UNCHANGED <<sketch, curr, prev, door, rotator>>, Told(s)'
    PROVE  AdmInv'
<1>1. setter' \in [Setter -> Setting] /\ \A t \in Setter \ {s} : setter'[t] = setter[t]
  BY DEF Does, AdmInv, Covered, AdmissionTypeOK, Setting
<1>2. Covered'
  BY <1>1 DEF AdmInv, Covered, AdmissionTypeOK, Setting, Covers
<1>3. \A t \in Setter \ {s} : Told(t)'
  BY <1>1 DEF AdmInv, Told, Doing, BitsOf
<1> QED BY <1>2, <1>3 DEF AdmInv

LEMMA BitsAre ==
    ASSUME NEW d \in Door, NEW k \in Object PROVE BitsOf(d, k) \subseteq Bucket
BY AdmissionAssumption DEF BitsOf, Door

\* The key is told to the door keeper the setter has loaded; all others stay.
LEMMA LetTells ==
    ASSUME AdmInv, NEW s \in Setter, Doing(s, "allow") \/ Doing(s, "ask"), Let(s),
           NEW r \in Setting, Does(s, r), UNCHANGED <<sketch, curr, prev, rotator>>,
           r.pc = "idle" \/ r = [setter[s] EXCEPT !.pc = "admit"]
    PROVE  AdmInv'
<1> DEFINE n == setter[s].door
           k == setter[s].key
           d == [door[n] EXCEPT !.bits = @ \cup BitsOf(door[n], k)]
<1>1. /\ n \in 1..Len(door) /\ k \in Object
      /\ setter[s] \in [pc : {"count", "load", "allow", "admit", "ask"},
                        key : Object, door : Nat, rotated : BOOLEAN]
  <2>1. ~Doing(s, "idle")
    BY DEF Doing
  <2> QED BY <2>1, SetterIs DEF AdmInv, Covered, Told
<1>2. door \in Seq(Door) /\ door # <<>>
  BY DEF AdmInv, Covered, AdmissionTypeOK, Door
<1>3. door[n] \in Door
  BY <1>1, <1>2
<1>4. d \in Door /\ d.hash = door[n].hash /\ door[n].bits \subseteq d.bits
      /\ BitsOf(door[n], k) \subseteq d.bits
  BY <1>1, <1>3, BitsAre DEF Door
<1>5. door' = [door EXCEPT ![n] = d]
  BY DEF Let, SetBits
<1> HIDE DEF d
<1>6. /\ door' \in Seq(Door) /\ Len(door') = Len(door) /\ door' # <<>>
      /\ \A i \in 1..Len(door) : door'[i] = IF i = n THEN d ELSE door[i]
  BY <1>1, <1>2, <1>4, <1>5
<1>7. ASSUME NEW i \in 1..Len(door), NEW j \in Object
      PROVE  /\ BitsOf(door'[i], j) = BitsOf(door[i], j)
             /\ door[i].bits \subseteq door'[i].bits
  BY <1>4, <1>6, <1>7 DEF BitsOf
<1>8. /\ setter' \in [Setter -> Setting] /\ setter'[s] = r
      /\ \A t \in Setter \ {s} : setter'[t] = setter[t]
  BY DEF Does, AdmInv, Covered, AdmissionTypeOK, Setting
<1>9. Covered'
  BY <1>6, <1>8 DEF AdmInv, Covered, AdmissionTypeOK, Setting, Covers, Door
<1>10. Len(door) \in 1..Len(door)
  BY <1>1, <1>2
<1>11. ASSUME NEW t \in Setter \ {s} PROVE Told(t)'
  <2>1. CASE Doing(t, "idle")
    BY <1>8, <2>1 DEF Told, Doing
  <2>2. CASE ~Doing(t, "idle")
    <3>1. setter[t].key \in Object /\ setter'[t] = setter[t]
      BY <1>8, <2>2, SetterIs DEF AdmInv, Covered
    <3>2. /\ BitsOf(door'[Len(door)], setter[t].key) = BitsOf(door[Len(door)], setter[t].key)
          /\ door[Len(door)].bits \subseteq door'[Len(door)].bits
      BY <1>7, <1>10, <3>1
    <3> QED BY <1>6, <3>1, <3>2 DEF AdmInv, Told, Doing
  <2> QED BY <2>1, <2>2
<1>12. Told(s)'
  <2>1. CASE r.pc = "idle"
    BY <1>8, <2>1 DEF Told, Doing
  <2>2. CASE r = [setter[s] EXCEPT !.pc = "admit"]
    <3>1. r.pc = "admit" /\ r.key = k /\ r.door = n /\ r.rotated = setter[s].rotated
      BY <1>1, <2>2
    <3>2. ~r.rotated => n = Len(door)
      BY <3>1 DEF AdmInv, Told, Doing
    <3>3. n = Len(door) => BitsOf(door'[Len(door)], k) \subseteq door'[Len(door)].bits
      BY <1>1, <1>4, <1>6, <1>7
    <3> QED BY <1>6, <1>8, <3>1, <3>2, <3>3 DEF Told, Doing
  <2> QED BY <2>1, <2>2
<1> QED BY <1>9, <1>11, <1>12 DEF AdmInv

\* Rotations do not touch the setters, but for the history.
LEMMA SeenSetters ==
    ASSUME AdmissionTypeOK, setter' = Seen
    PROVE  /\ setter' \in [Setter -> Setting]
           /\ \A s \in Setter : /\ setter'[s].pc = setter[s].pc
                                /\ ~Doing(s, "idle") => /\ setter'[s].door = setter[s].door
                                                        /\ setter'[s].rotated
<1>1. ASSUME NEW s \in Setter, Doing(s, "idle")
      PROVE  setter'[s] \in Setting /\ setter'[s].pc = setter[s].pc
  BY <1>1 DEF Seen, Rest, Doing, Setting
<1>2. ASSUME NEW s \in Setter, ~Doing(s, "idle")
      PROVE  /\ setter'[s] \in Setting /\ setter'[s].pc = setter[s].pc
             /\ setter'[s].door = setter[s].door /\ setter'[s].rotated
  <2>1. setter'[s] = [setter[s] EXCEPT !.rotated = TRUE]
    BY <1>2 DEF Seen
  <2> QED BY <1>2, <2>1, SetterIs DEF Setting
<1> QED BY <1>1, <1>2 DEF Seen

LEMMA RotationKeeps ==
    ASSUME AdmInv, SwapCurr \/ StorePrev \/ StoreDoor
    PROVE  AdmInv'
<1> USE DEF AdmInv, Covered
<1>1. setter' = Seen
  BY DEF SwapCurr, StorePrev, StoreDoor
<1>2. /\ setter' \in [Setter -> Setting]
      /\ \A s \in Setter : /\ setter'[s].pc = setter[s].pc
                           /\ ~Doing(s, "idle") => /\ setter'[s].door = setter[s].door
                                                   /\ setter'[s].rotated
  BY <1>1, SeenSetters
<1>3. /\ sketch \in Seq(Sketch) /\ door \in Seq(Door) /\ door # <<>>
      /\ curr \in DOMAIN sketch /\ prev \in DOMAIN sketch
  BY DEF AdmissionTypeOK, Sketch, Door
<1>4. /\ door' \in Seq(Door) /\ door' # <<>> /\ Len(door') >= Len(door)
  <2>1. CASE SwapCurr \/ StorePrev
    BY <1>3, <2>1 DEF SwapCurr, StorePrev
  <2>2. CASE StoreDoor
    <3>1. PICK h \in Hash \X Hash : door' = Append(door, NewDoor(h))
      BY <2>2 DEF StoreDoor
    <3>2. NewDoor(h) \in Door
      BY DEF NewDoor, Door
    <3> QED BY <1>3, <3>1, <3>2
  <2> QED BY <2>1, <2>2
<1>5. /\ sketch' \in Seq(Sketch) /\ \A i \in DOMAIN sketch' : Covers(sketch'[i])
      /\ curr' \in DOMAIN sketch' /\ prev' \in DOMAIN sketch' /\ curr' > 1
  <2>1. CASE SwapCurr
    <3>1. PICK h \in [Row -> Hash] : sketch' = Append(sketch, NewSketch(h))
      BY <2>1 DEF SwapCurr
    <3>2. NewSketch(h) \in Sketch /\ Covers(NewSketch(h))
      BY NewSketchCovers
    <3>3. /\ sketch' \in Seq(Sketch) /\ Len(sketch') = Len(sketch) + 1
          /\ \A i \in 1..Len(sketch) : sketch'[i] = sketch[i]
          /\ sketch'[Len(sketch) + 1] = NewSketch(h)
      BY <1>3, <3>1, <3>2
    <3>4. \A i \in DOMAIN sketch' : Covers(sketch'[i])
      <4> TAKE i \in DOMAIN sketch'
      <4>1. i \in 1..Len(sketch) \/ i = Len(sketch) + 1
        BY <1>3, <3>3
      <4> QED BY <1>3, <3>2, <3>3, <4>1
    <3>5. curr' = Len(sketch) + 1 /\ prev' = prev
      BY <2>1 DEF SwapCurr
    <3> QED BY <1>3, <3>3, <3>4, <3>5
  <2>2. CASE StorePrev
    BY <1>3, <2>2 DEF StorePrev
  <2>3. CASE StoreDoor
    BY <1>3, <2>3 DEF StoreDoor
  <2> QED BY <2>1, <2>2, <2>3
<1>6. rotator' \in {"wait", "prev", "door"}
  BY DEF SwapCurr, StorePrev, StoreDoor
<1>7. AdmissionTypeOK'
  BY <1>2, <1>4, <1>5, <1>6 DEF AdmissionTypeOK, Sketch, Door, Setting
<1>8. ASSUME NEW s \in Setter PROVE Told(s)'
  <2>1. Told(s) /\ Len(door) \in Nat /\ Len(door') \in Nat
    BY <1>3, <1>4
  <2>2. CASE Doing(s, "idle")
    BY <1>2, <2>2 DEF Told, Doing
  <2>3. CASE ~Doing(s, "idle")
    BY <1>2, <1>4, <2>1, <2>3 DEF Told, Doing
  <2> QED BY <2>2, <2>3
<1> QED BY <1>5, <1>7, <1>8

LEMMA AdmissionKept == AdmInv /\ [AdmissionNext]_admissionVars => AdmInv'
<1> SUFFICES ASSUME AdmInv, [AdmissionNext]_admissionVars PROVE AdmInv'
  OBVIOUS
<1>1. AdmissionTypeOK /\ door \in Seq(Door) /\ door # <<>>
  BY DEF AdmInv, Covered, AdmissionTypeOK, Door
<1>2. ASSUME NEW s \in Setter, NEW k \in Object, Starts(s, k) PROVE AdmInv'
  <2> DEFINE r == [pc |-> "count", key |-> k, door |-> 0, rotated |-> FALSE]
  <2>1. r \in Setting /\ Does(s, r) /\ UNCHANGED <<sketch, curr, prev, door, rotator>>
    BY <1>2 DEF Starts, Setting
  <2>2. setter'[s] = r
    BY <1>1, <2>1 DEF Does, AdmissionTypeOK
  <2>3. Told(s)'
    BY <2>2 DEF Told, Doing
  <2> QED BY <2>1, <2>3, SetterOnly
<1>3. ASSUME NEW s \in Setter, Increment(s) PROVE AdmInv'
  <2>1. /\ Doing(s, "count") /\ ~Doing(s, "idle")
        /\ sketch' = [sketch EXCEPT ![curr] = Added(@, setter[s].key)]
        /\ Does(s, [setter[s] EXCEPT !.pc = "load"])
        /\ UNCHANGED <<curr, prev, door, rotator>>
    BY <1>3 DEF Increment, Doing
  <2>2. setter[s] \in Setting /\ setter[s].key \in Object
    BY <1>1, <2>1, SetterIs DEF Setting
  <2>3. sketch \in Seq(Sketch) /\ curr \in DOMAIN sketch /\ Covers(sketch[curr])
    BY DEF AdmInv, Covered, AdmissionTypeOK, Sketch
  <2>4. Added(sketch[curr], setter[s].key) \in Sketch /\ Covers(Added(sketch[curr], setter[s].key))
    BY <2>2, <2>3, AddedCovers
  <2>5. /\ sketch' \in Seq(Sketch) /\ DOMAIN sketch' = DOMAIN sketch
        /\ \A i \in DOMAIN sketch' : Covers(sketch'[i])
    BY <2>1, <2>3, <2>4 DEF AdmInv, Covered
  <2>6. setter'[s] = [setter[s] EXCEPT !.pc = "load"] /\ setter'[s] \in Setting
        /\ setter' \in [Setter -> Setting]
        /\ \A t \in Setter \ {s} : setter'[t] = setter[t]
    BY <1>1, <2>1, <2>2, SetterIs DEF Does, AdmissionTypeOK, Setting
  <2>7. Covered'
    BY <1>1, <2>1, <2>5, <2>6 DEF AdmInv, Covered, AdmissionTypeOK, Sketch, Setting
  <2>8. Told(s)'
    BY <1>1, <2>1, <2>6, SetterIs DEF Told, Doing
  <2>9. \A t \in Setter \ {s} : Told(t)'
    BY <2>1, <2>6 DEF AdmInv, Told, Doing, BitsOf
  <2> QED BY <2>7, <2>8, <2>9 DEF AdmInv
<1>4. ASSUME NEW s \in Setter, LoadDoor(s) PROVE AdmInv'
  <2> DEFINE r == [setter[s] EXCEPT !.pc = IF @ = "load" THEN "allow" ELSE "ask",
                                   !.door = Len(door)]
  <2>1. /\ Doing(s, "load") \/ Doing(s, "admit")
        /\ ~Doing(s, "idle") /\ Does(s, r)
        /\ UNCHANGED <<sketch, curr, prev, door, rotator>>
    BY <1>4 DEF LoadDoor, Doing
  <2>2. Len(door) \in Nat /\ Len(door) \in 1..Len(door)
    BY <1>1
  <2>3. /\ r \in Setting /\ r.door = Len(door) /\ r.key = setter[s].key
        /\ r.rotated = setter[s].rotated
        /\ r.pc = IF Doing(s, "load") THEN "allow" ELSE "ask"
    BY <1>1, <2>1, <2>2, SetterIs DEF Setting, Doing
  <2> HIDE DEF r
  <2>4. setter'[s] = r
    BY <1>1, <2>1 DEF Does, AdmissionTypeOK
  <2>5. Told(s)'
    BY <2>1, <2>2, <2>3, <2>4 DEF AdmInv, Told, Doing
  <2> QED BY <2>1, <2>3, <2>5, SetterOnly
<1>5. Rest \in Setting /\ Rest.pc = "idle"
  BY DEF Rest, Setting
<1>6. ASSUME NEW s \in Setter, Allow(s) PROVE AdmInv'
  <2>1. ~Doing(s, "idle") /\ Doing(s, "allow")
    BY <1>6 DEF Allow, Doing
  <2>2. [setter[s] EXCEPT !.pc = "admit"] \in Setting
    BY <1>1, <2>1, SetterIs DEF Setting
  <2>3. PICK r \in Setting : Does(s, r) /\ (r.pc = "idle" \/ r = [setter[s] EXCEPT !.pc = "admit"])
    BY <1>5, <1>6, <2>2 DEF Allow
  <2> QED BY <1>6, <2>1, <2>3, LetTells DEF Allow
<1>7. ASSUME NEW s \in Setter, AdmitUnknown(s) PROVE AdmInv'
  BY <1>5, <1>7, LetTells DEF AdmitUnknown
<1>8. ASSUME NEW s \in Setter, Compare(s) PROVE AdmInv'
  <2>1. Does(s, Rest) /\ UNCHANGED <<sketch, curr, prev, door, rotator>>
    BY <1>8 DEF Compare
  <2>2. setter'[s] = Rest
    BY <1>1, <2>1 DEF Does, AdmissionTypeOK
  <2>3. Told(s)'
    BY <1>5, <2>2 DEF Told, Doing
  <2> QED BY <1>5, <2>1, <2>3, SetterOnly
<1>9. CASE UNCHANGED admissionVars
  BY <1>9 DEF admissionVars, AdmInv, Covered, AdmissionTypeOK, Covers, Told, Doing, BitsOf
<1> QED BY <1>2, <1>3, <1>4, <1>6, <1>7, <1>8, <1>9, RotationKeeps DEF AdmissionNext

\* The estimate is the least of the cells of a key, and none of them is too low.
LEMMA EstimateCovers ==
    ASSUME NEW sk \in Sketch, Covers(sk), NEW k \in Object
    PROVE  estimate(sk, k) >= sk.count[k]
<1> DEFINE cells == {sk.cell[r][sk.hash[r][k]] : r \in Row}
<1>1. \A r \in Row : sk.hash[r][k] \in Bucket
  BY AdmissionAssumption DEF Sketch
<1>2. cells \in SUBSET Nat /\ cells # {}
  BY <1>1, AdmissionAssumption DEF Sketch
<1>3. \A c \in cells : c >= sk.count[k]
  BY DEF Covers
<1> HIDE DEF cells
<1>4. \E c \in cells : \A d \in cells : c <= d
  BY <1>2, LeastNat
<1>5. Min(cells) \in cells
  BY <1>4 DEF Min
<1>6. estimate(sk, k) = Min(cells)
  BY DEF estimate, cells
<1> QED BY <1>3, <1>5, <1>6

LEMMA AdmInvHolds == AdmissionSpec => []AdmInv
BY AdmissionInitially, AdmissionKept, PTL DEF AdmissionSpec

\* Whatever keys collide in the rows, whoever counts and whenever the sketches
\* rotate: no key is estimated below the times it was counted (sketch.go).
THEOREM NeverUnderestimatesHolds == AdmissionSpec => []NeverUnderestimates
<1>1. AdmInv => NeverUnderestimates
  <2> SUFFICES ASSUME AdmInv, NEW i \in DOMAIN sketch, NEW k \in Object
               PROVE  estimate(sketch[i], k) >= sketch[i].count[k]
    BY DEF NeverUnderestimates
  <2>1. sketch \in Seq(Sketch)
    BY DEF AdmInv, Covered, AdmissionTypeOK, Sketch
  <2>2. sketch[i] \in Sketch /\ Covers(sketch[i])
    BY <2>1 DEF AdmInv, Covered
  <2> QED BY <2>2, EstimateCovers
<1> QED BY <1>1, AdmInvHolds, PTL

\* A setter meets a door keeper that does not know its key only after a rotation
\* during its Set (tiny_lfu.go, Increment before Admit).
THEOREM UnknownOnlyAfterRotationHolds == AdmissionSpec => []UnknownOnlyAfterRotation
<1>1. AdmInv => UnknownOnlyAfterRotation
  <2> SUFFICES ASSUME AdmInv, NEW s \in Setter, Doing(s, "ask"), ~setter[s].rotated
               PROVE  Known(s)
    BY DEF UnknownOnlyAfterRotation
  <2> QED BY DEF AdmInv, Told, Known, Doing
<1> QED BY <1>1, AdmInvHolds, PTL

-----------------------------------------------------------------------------
(* Refresher: what its goroutines count.                                    *)

Awaiting == {w \in Worker : worker[w] = "await"}

\* RefreshesAddUp, counter by counter.
WorkAddsUp ==
    count["found"] + logged["found"] =
        Cardinality(Awaiting) + fetching + failing + missed
          + (count["success"] + logged["success"]) + (count["failed"] + logged["failed"])

AddsUp == RefresherTypeOK /\ WorkAddsUp

LEMMA AwaitingFinite == IsFiniteSet(Awaiting) /\ Cardinality(Awaiting) \in Nat
<1>1. IsFiniteSet(Awaiting)
  BY RefresherAssumption, FS_Subset DEF Awaiting
<1> QED BY <1>1, FS_CardinalityType

\* One worker starts or ends its wait.
LEMMA AwaitingChanges ==
    ASSUME RefresherTypeOK, NEW w \in Worker, NEW a, worker' = [worker EXCEPT ![w] = a]
    PROVE  Cardinality(Awaiting)' = Cardinality(Awaiting)
                + (IF a = "await" THEN 1 ELSE 0) - (IF worker[w] = "await" THEN 1 ELSE 0)
<1>1. worker'[w] = a /\ \A v \in Worker \ {w} : worker'[v] = worker[v]
  BY DEF RefresherTypeOK
<1>2. IsFiniteSet(Awaiting) /\ Cardinality(Awaiting) \in Nat
  BY AwaitingFinite
<1>3. CASE a = "await" /\ worker[w] # "await"
  <2>1. Awaiting' = Awaiting \cup {w} /\ w \notin Awaiting
    BY <1>1, <1>3 DEF Awaiting
  <2> QED BY <1>2, <1>3, <2>1, FS_AddElement
<1>4. CASE a # "await" /\ worker[w] = "await"
  <2>1. Awaiting' = Awaiting \ {w} /\ w \in Awaiting
    BY <1>1, <1>4 DEF Awaiting
  <2>2. Cardinality(Awaiting') = Cardinality(Awaiting) - 1
    BY <1>2, <2>1, FS_RemoveElement
  <2> QED BY <1>2, <1>4, <2>2
<1>5. CASE a = "await" <=> worker[w] = "await"
  <2>1. Awaiting' = Awaiting
    BY <1>1, <1>5 DEF Awaiting
  <2> QED BY <1>2, <1>5, <2>1
<1> QED BY <1>3, <1>4, <1>5

LEMMA AddsUpInitially == RefresherInit => AddsUp
<1> SUFFICES ASSUME RefresherInit PROVE AddsUp
  OBVIOUS
<1>1. Awaiting = {}
  BY DEF RefresherInit, Awaiting
<1>2. Cardinality(Awaiting) = 0
  BY <1>1, FS_EmptySet
<1>3. RefresherTypeOK
  BY DEF RefresherInit, RefresherTypeOK, Numbers
<1>4. {"success", "failed", "scans", "found"} \subseteq Number
  BY DEF Number, Numbers
<1>5. WorkAddsUp
  BY <1>2, <1>4 DEF RefresherInit, WorkAddsUp
<1> QED BY <1>3, <1>5 DEF AddsUp

LEMMA AddsUpKept == AddsUp /\ [RefresherNext]_refresherVars => AddsUp'
<1> SUFFICES ASSUME AddsUp, [RefresherNext]_refresherVars PROVE AddsUp'
  OBVIOUS
<1> USE DEF AddsUp, WorkAddsUp
<1>1. Cardinality(Awaiting) \in Nat /\ (worker' = worker => Cardinality(Awaiting)' = Cardinality(Awaiting))
  BY AwaitingFinite DEF Awaiting
<1>2. Number = {"success", "failed", "scans", "found"}
  BY DEF Number, Numbers
<1>3. /\ worker \in [Worker -> {"scan", "await", "gone"}]
      /\ fetching \in Nat /\ failing \in Nat /\ missed \in Nat
      /\ count \in [Number -> Nat] /\ logged \in [Number -> Nat]
      /\ swapping \in 0..4
  BY DEF RefresherTypeOK, Numbers
<1>4. SUFFICES
        /\ worker' \in [Worker -> {"scan", "await", "gone"}]
        /\ fetching' \in Nat /\ failing' \in Nat /\ missed' \in Nat
        /\ count' \in [Number -> Nat] /\ logged' \in [Number -> Nat]
        /\ swapping' \in 0..4
        /\ WorkAddsUp'
  BY DEF RefresherTypeOK, Numbers
<1>5. ASSUME NEW ks, Bump(ks)
      PROVE  /\ count' \in [Number -> Nat]
             /\ \A k \in Number : count'[k] = count[k] + (IF k \in ks THEN 1 ELSE 0)
  BY <1>3, <1>5 DEF Bump
<1>6. RefresherTypeOK
  OBVIOUS
<1>7. ASSUME NEW w \in Worker, Scan(w) PROVE <1>4!1
  <2>1. UNCHANGED <<fetching, failing, missed, logged, swapping>> /\ worker[w] = "scan"
    BY <1>7 DEF Scan
  <2>2. CASE Bump({"scans"}) /\ UNCHANGED worker
    BY <1>1, <1>2, <1>3, <1>5, <2>1, <2>2
  <2>3. CASE Bump({"scans", "found"}) /\ worker' = [worker EXCEPT ![w] = "await"]
    <3>1. /\ Cardinality(Awaiting)' = Cardinality(Awaiting) + 1
          /\ worker' \in [Worker -> {"scan", "await", "gone"}]
      <4>1. Cardinality(Awaiting)' = Cardinality(Awaiting)
              + (IF "await" = "await" THEN 1 ELSE 0) - (IF worker[w] = "await" THEN 1 ELSE 0)
        BY <1>6, <1>7, <2>3, AwaitingChanges
      <4> QED BY <1>1, <1>3, <1>7, <2>1, <2>3, <4>1
    <3>2. /\ count' \in [Number -> Nat]
          /\ \A k \in Number : count'[k] = count[k] + (IF k \in {"scans", "found"} THEN 1 ELSE 0)
      BY <1>5, <2>3
    <3> QED BY <1>1, <1>2, <1>3, <2>1, <3>1, <3>2
  <2> QED BY <1>7, <2>2, <2>3 DEF Scan
<1>8. ASSUME NEW w \in Worker, StartRefresh(w) PROVE <1>4!1
  <2>1. /\ worker[w] = "await" /\ fetching' = fetching + 1
        /\ UNCHANGED <<failing, missed, count, logged, swapping>>
        /\ worker' = [worker EXCEPT ![w] = "scan"]
    BY <1>8 DEF StartRefresh
  <2>2. /\ Cardinality(Awaiting)' = Cardinality(Awaiting) - 1
        /\ worker' \in [Worker -> {"scan", "await", "gone"}]
    <3>1. Cardinality(Awaiting)' = Cardinality(Awaiting)
            + (IF "scan" = "await" THEN 1 ELSE 0) - (IF worker[w] = "await" THEN 1 ELSE 0)
      BY <1>6, <1>8, <2>1, AwaitingChanges
    <3> QED BY <1>1, <1>3, <1>8, <2>1, <3>1
  <2> QED BY <1>1, <1>2, <1>3, <2>1, <2>2
<1>9. ASSUME NEW w \in Worker, Quit(w) PROVE <1>4!1
  <2>1. /\ missed' = IF worker[w] = "await" THEN missed + 1 ELSE missed
        /\ UNCHANGED <<fetching, failing, count, logged, swapping>>
        /\ worker' = [worker EXCEPT ![w] = "gone"]
    BY <1>9 DEF Quit
  <2>2. /\ Cardinality(Awaiting)' = Cardinality(Awaiting) - (IF worker[w] = "await" THEN 1 ELSE 0)
        /\ worker' \in [Worker -> {"scan", "await", "gone"}]
    <3>1. Cardinality(Awaiting)' = Cardinality(Awaiting)
            + (IF "gone" = "await" THEN 1 ELSE 0) - (IF worker[w] = "await" THEN 1 ELSE 0)
      BY <1>6, <1>9, <2>1, AwaitingChanges
    <3> QED BY <1>1, <1>3, <1>9, <2>1, <3>1
  <2> QED BY <1>1, <1>2, <1>3, <2>1, <2>2
<1>10. CASE RefreshSucceeds
  <2>1. /\ fetching > 0 /\ fetching' = fetching - 1 /\ Bump({"success"})
        /\ UNCHANGED <<worker, failing, missed, logged, swapping>>
    BY <1>10 DEF RefreshSucceeds
  <2> QED BY <1>1, <1>2, <1>3, <1>5, <2>1
<1>11. CASE RefreshFailed
  <2>1. /\ fetching > 0 /\ fetching' = fetching - 1 /\ failing' = failing + 1
        /\ UNCHANGED <<worker, missed, count, logged, swapping>>
    BY <1>11 DEF RefreshFailed
  <2> QED BY <1>1, <1>2, <1>3, <2>1
<1>12. CASE ReportError
  <2>1. /\ failing > 0 /\ failing' = failing - 1 /\ Bump({"failed"})
        /\ UNCHANGED <<worker, fetching, missed, logged, swapping>>
    BY <1>12 DEF ReportError
  <2> QED BY <1>1, <1>2, <1>3, <1>5, <2>1
<1>13. CASE Swap
  <2>1. PICK k : k = Numbers[swapping + 1]
    OBVIOUS
  <2>2. k \in Number /\ swapping' \in 0..4
    BY <1>3, <1>13, <2>1 DEF Swap, Number, Numbers
  <2>3. /\ logged' = [logged EXCEPT ![k] = @ + count[k]]
        /\ count' = [count EXCEPT ![k] = 0]
        /\ UNCHANGED <<worker, fetching, failing, missed>>
    BY <1>13, <2>1 DEF Swap, workVars
  <2>4. /\ logged' \in [Number -> Nat] /\ count' \in [Number -> Nat]
        /\ \A j \in Number : count'[j] + logged'[j] = count[j] + logged[j]
    BY <1>3, <2>2, <2>3
  <2> QED BY <1>1, <1>2, <1>3, <2>2, <2>3, <2>4
<1>14. CASE LogNumbers \/ LogErrors \/ UNCHANGED refresherVars
  <2>1. /\ UNCHANGED <<worker, fetching, failing, missed, count, logged>>
        /\ swapping' \in {0, swapping}
    BY <1>14 DEF LogNumbers, LogErrors, refresherVars, workVars
  <2> QED BY <1>1, <1>3, <2>1
<1> QED BY <1>7, <1>8, <1>9, <1>10, <1>11, <1>12, <1>13, <1>14 DEF RefresherNext

\* Every entry that a worker found is accounted for once, for any number of
\* workers, and the logger that takes the counters one by one loses and doubles
\* nothing (refresher.go: the atomic counters and runLogger).
THEOREM RefreshesAddUpHolds == RefresherSpec => []RefreshesAddUp
<1>1. AddsUp => RefreshesAddUp
  BY DEF AddsUp, WorkAddsUp, Awaiting, RefreshesAddUp, Counted
<1> QED BY AddsUpInitially, AddsUpKept, <1>1, PTL DEF RefresherSpec

\* The refresher's steps are steps of its logger of errors, or leave it alone.
LEMMA LogsErrors == [RefresherNext]_refresherVars => [ErrorLogNext]_errorLogVars
BY DEF RefresherNext, refresherVars, errorLogVars, ErrorLogNext, Scan, StartRefresh, Quit,
       RefreshSucceeds, RefreshFailed, ReportError, SendError, OfferError, Swap, LogNumbers, LogErrors

-----------------------------------------------------------------------------
(* Pools: no pair is in two hands.                                          *)

\* The header after n - 1 others: it is kept or not.
Keeping(cells, n, ks) == IF IsAllowed(cells[n]) THEN Append(ks, n) ELSE ks

\* f is the recursion of Kept over the first n headers.
Keeps(cells, n, f) ==
    f = [m \in 0..n |-> IF m = 0 THEN <<>>
                        ELSE IF IsAllowed(cells[m]) THEN Append(f[m - 1], m) ELSE f[m - 1]]

LEMMA KeepsExists ==
    ASSUME NEW cells, NEW n \in Nat
    PROVE  \E f : Keeps(cells, n, f)
<1> DEFINE T == {m \in Nat : \E f : Keeps(cells, m, f)}
<1>1. 0 \in T
  <2> DEFINE f == [m \in 0..0 |-> <<>>]
  <2>1. Keeps(cells, 0, f)
    BY DEF Keeps
  <2> QED BY <2>1
<1>2. ASSUME NEW m \in T PROVE m + 1 \in T
  <2>1. PICK f : Keeps(cells, m, f)
    OBVIOUS
  <2> DEFINE h == [k \in 0..(m + 1) |-> IF k = m + 1 THEN Keeping(cells, m + 1, f[m]) ELSE f[k]]
  <2>2. m \in Nat /\ m + 1 # 0 /\ (m + 1) - 1 = m
    OBVIOUS
  <2>3. h[m] = f[m] /\ h[m + 1] = Keeping(cells, m + 1, f[m])
    BY <2>2
  <2>4. ASSUME NEW k \in 0..(m + 1)
        PROVE  h[k] = IF k = 0 THEN <<>>
                      ELSE IF IsAllowed(cells[k]) THEN Append(h[k - 1], k) ELSE h[k - 1]
    <3>1. CASE k = m + 1
      BY <2>2, <2>3, <3>1 DEF Keeping
    <3>2. CASE k # m + 1
      <4>1. k \in 0..m /\ h[k] = f[k] /\ (k # 0 => k - 1 \in 0..m /\ h[k - 1] = f[k - 1])
        BY <2>2, <3>2
      <4>2. f[k] = IF k = 0 THEN <<>>
                   ELSE IF IsAllowed(cells[k]) THEN Append(f[k - 1], k) ELSE f[k - 1]
        BY <2>1, <4>1 DEF Keeps
      <4> HIDE DEF h
      <4> QED BY <4>1, <4>2
    <3> QED BY <3>1, <3>2
  <2>5. h = [k \in 0..(m + 1) |-> h[k]]
    OBVIOUS
  <2> HIDE DEF h
  <2>6. Keeps(cells, m + 1, h)
    BY <2>4, <2>5 DEF Keeps
  <2> QED BY <2>2, <2>6
<1>3. T = Nat
  <2> HIDE DEF T
  <2>1. T \in SUBSET Nat
    BY DEF T
  <2> QED BY <1>1, <1>2, <2>1, AllNaturals
<1> QED BY <1>3

\* ks are the positions up to n of the headers that the rule lists, in order.
Listed(cells, n, ks) ==
    /\ ks \in Seq(1..n)
    /\ \A i \in 1..Len(ks) : ks[i] >= i /\ IsAllowed(cells[ks[i]])
    /\ \A i, j \in 1..Len(ks) : i < j => ks[i] < ks[j]
    /\ \A m \in 1..n : IsAllowed(cells[m]) => \E i \in 1..Len(ks) : ks[i] = m

LEMMA ListedGrows ==
    ASSUME NEW cells, NEW n \in Nat, NEW ks, Listed(cells, n, ks)
    PROVE  Listed(cells, n + 1, Keeping(cells, n + 1, ks)) 
<1>1. CASE ~IsAllowed(cells[n + 1])
  <2>1. Keeping(cells, n + 1, ks) = ks
    BY <1>1 DEF Keeping
  <2>2. ks \in Seq(1..(n + 1))
    BY DEF Listed
  <2>3. ASSUME NEW m \in 1..(n + 1), IsAllowed(cells[m]) PROVE m \in 1..n
    BY <1>1, <2>3
  <2> QED BY <2>1, <2>2, <2>3 DEF Listed
<1>2. CASE IsAllowed(cells[n + 1])
  <2> DEFINE ts == Append(ks, n + 1)
             l == Len(ks)
  <2>1. Keeping(cells, n + 1, ks) = ts
    BY <1>2 DEF Keeping
  <2>2. /\ ks \in Seq(1..n) /\ l \in Nat /\ \A i \in 1..l : ks[i] \in 1..n
        /\ ks \in Seq(1..(n + 1))
    BY DEF Listed
  <2>3. /\ ts \in Seq(1..(n + 1)) /\ Len(ts) = l + 1 /\ ts[l + 1] = n + 1
        /\ \A i \in 1..l : ts[i] = ks[i]
    BY <2>2
  <2>4. l <= n
    <3>1. CASE l = 0
      BY <3>1
    <3>2. CASE l # 0
      <4>1. l \in 1..l
        BY <2>2, <3>2
      <4>2. ks[l] >= l /\ ks[l] <= n
        BY <2>2, <4>1 DEF Listed
      <4> QED BY <2>2, <4>1, <4>2
    <3> QED BY <3>1, <3>2
  <2> HIDE DEF ts, l
  <2>5. \A i \in 1..(l + 1) : i = l + 1 \/ i \in 1..l
    BY <2>2
  <2>6. \A i \in 1..l : ks[i] >= i /\ IsAllowed(cells[ks[i]])
    BY DEF Listed, l
  <2>7. \A i, j \in 1..l : i < j => ks[i] < ks[j]
    BY DEF Listed, l
  <2>8. \A m \in 1..n : IsAllowed(cells[m]) => \E i \in 1..l : ks[i] = m
    BY DEF Listed, l
  <2>9. ASSUME NEW i \in 1..Len(ts) PROVE ts[i] >= i /\ IsAllowed(cells[ts[i]])
    <3>1. CASE i \in 1..l
      BY <2>3, <2>6, <3>1
    <3>2. CASE i = l + 1
      BY <1>2, <2>2, <2>3, <2>4, <3>2
    <3> QED BY <2>3, <2>5, <3>1, <3>2
  <2>10. ASSUME NEW i \in 1..Len(ts), NEW j \in 1..Len(ts), i < j PROVE ts[i] < ts[j]
    <3>1. i \in 1..l
      BY <2>2, <2>3, <2>5, <2>10
    <3>2. CASE j \in 1..l
      BY <2>3, <2>7, <2>10, <3>1, <3>2
    <3>3. CASE j = l + 1
      BY <2>2, <2>3, <3>1, <3>3
    <3> QED BY <2>3, <2>5, <3>2, <3>3
  <2>11. ASSUME NEW m \in 1..(n + 1), IsAllowed(cells[m]) PROVE \E i \in 1..Len(ts) : ts[i] = m
    <3>1. CASE m = n + 1
      BY <2>2, <2>3, <3>1
    <3>2. CASE m # n + 1
      <4>1. m \in 1..n
        BY <3>2
      <4>2. PICK i \in 1..l : ks[i] = m
        BY <2>8, <2>11, <4>1
      <4>3. i \in 1..Len(ts) /\ ts[i] = m
        BY <2>2, <2>3, <4>2
      <4> QED BY <4>3
    <3> QED BY <3>1, <3>2
  <2> QED BY <2>1, <2>3, <2>9, <2>10, <2>11 DEF Listed
<1> QED BY <1>1, <1>2

\* What the loop over the headers keeps.
LEMMA KeptListed ==
    ASSUME NEW cells, Len(cells) \in Nat
    PROVE  Listed(cells, Len(cells), Kept(cells))
<1> DEFINE N == Len(cells)
           f == CHOOSE g : Keeps(cells, N, g)
           T == {n \in Nat : n <= N => Listed(cells, n, f[n])}
<1>1. Kept(cells) = f[N]
  BY DEF Kept, Keeps
<1>2. Keeps(cells, N, f)
  BY KeepsExists
<1> HIDE DEF f
<1>3. 0 \in T
  <2>1. f[0] = <<>>
    BY <1>2 DEF Keeps
  <2>2. <<>> \in Seq(1..0) /\ Len(<<>>) = 0
    OBVIOUS
  <2>3. Listed(cells, 0, <<>>)
    BY <2>2 DEF Listed
  <2> QED BY <2>1, <2>3
<1>4. ASSUME NEW n \in T PROVE n + 1 \in T
  <2> SUFFICES ASSUME n + 1 <= N PROVE Listed(cells, n + 1, f[n + 1])
    OBVIOUS
  <2>1. n \in Nat /\ n + 1 \in 0..N /\ n + 1 # 0 /\ (n + 1) - 1 = n /\ n <= N
    OBVIOUS
  <2>2. f[n + 1] = Keeping(cells, n + 1, f[n])
    BY <1>2, <2>1 DEF Keeps, Keeping
  <2>3. Listed(cells, n, f[n])
    BY <2>1
  <2> QED BY <2>1, <2>2, <2>3, ListedGrows
<1>5. T = Nat
  <2> HIDE DEF T
  <2>1. T \in SUBSET Nat
    BY DEF T
  <2> QED BY <1>3, <1>4, <2>1, AllNaturals
<1> QED BY <1>1, <1>5

\* The cells after the first n of the kept headers were written to them.
Written(cells, ks, n) ==
    [j \in DOMAIN cells |-> IF j \in 1..n THEN cells[ks[j]] ELSE cells[j]]

\* The n-th cell gets the n-th header that is kept.
Over(cs, ks, n) == [cs EXCEPT ![n] = cs[ks[n]]]

Writes(cells, ks, f) ==
    f = [n \in 0..Len(ks) |-> IF n = 0 THEN cells ELSE Over(f[n - 1], ks, n)]

\* No cell is overwritten before it was read, as no header moves to the back.
LEMMA WriteNext ==
    ASSUME NEW N \in Nat, NEW cells, DOMAIN cells = 1..N, NEW ks \in Seq(1..N),
           \A i \in 1..Len(ks) : ks[i] >= i,
           NEW n \in 1..Len(ks)
    PROVE  Written(cells, ks, n) = Over(Written(cells, ks, n - 1), ks, n)
<1>1. Len(ks) \in Nat /\ n \in Nat /\ n >= 1 /\ n - 1 \in Nat
  OBVIOUS
<1>2. ks[n] \in 1..N /\ ks[n] >= n
  OBVIOUS
<1>3. n \in 1..N /\ ks[n] \notin 1..(n - 1)
  BY <1>1, <1>2
<1>4. Written(cells, ks, n - 1)[ks[n]] = cells[ks[n]]
  BY <1>2, <1>3 DEF Written
<1>5. ASSUME NEW j \in 1..N
      PROVE  Written(cells, ks, n)[j]
               = IF j = n THEN cells[ks[n]] ELSE Written(cells, ks, n - 1)[j]
  <2>1. CASE j = n
    BY <1>1, <2>1 DEF Written
  <2>2. CASE j # n
    <3>1. j \in 1..n <=> j \in 1..(n - 1)
      BY <1>1, <2>2
    <3> QED BY <2>2, <3>1 DEF Written
  <2> QED BY <2>1, <2>2
<1>6. /\ Written(cells, ks, n) = [j \in 1..N |-> Written(cells, ks, n)[j]]
      /\ DOMAIN Written(cells, ks, n - 1) = 1..N
  BY DEF Written
<1> QED BY <1>4, <1>5, <1>6 DEF Over

LEMMA WritesAre ==
    ASSUME NEW N \in Nat, NEW cells, cells = [j \in 1..N |-> cells[j]], NEW ks \in Seq(1..N),
           \A i \in 1..Len(ks) : ks[i] >= i
    PROVE  (CHOOSE f : Writes(cells, ks, f))[Len(ks)] = Written(cells, ks, Len(ks))
<1>0. Len(ks) \in Nat /\ DOMAIN cells = 1..N
  OBVIOUS
<1>1. Written(cells, ks, 0) = cells
  BY <1>0 DEF Written
<1>2. \E f : Writes(cells, ks, f)
  <2> DEFINE w == [n \in 0..Len(ks) |-> Written(cells, ks, n)]
  <2>1. ASSUME NEW n \in 0..Len(ks)
        PROVE  w[n] = IF n = 0 THEN cells ELSE Over(w[n - 1], ks, n)
    <3>1. CASE n = 0
      BY <1>0, <1>1, <3>1
    <3>2. CASE n # 0
      <4>1. n \in 1..Len(ks) /\ n - 1 \in 0..Len(ks)
        BY <1>0, <3>2
      <4>2. w[n] = Written(cells, ks, n) /\ w[n - 1] = Written(cells, ks, n - 1)
        BY <4>1
      <4>3. Written(cells, ks, n) = Over(Written(cells, ks, n - 1), ks, n)
        BY <1>0, <4>1, WriteNext
      <4> HIDE DEF w
      <4> QED BY <3>2, <4>2, <4>3
    <3> QED BY <3>1, <3>2
  <2>2. w = [n \in 0..Len(ks) |-> w[n]]
    OBVIOUS
  <2> HIDE DEF w
  <2>3. Writes(cells, ks, w)
    BY <2>1, <2>2 DEF Writes
  <2> QED BY <2>3
<1> DEFINE f == CHOOSE g : Writes(cells, ks, g)
           T == {n \in Nat : n <= Len(ks) => f[n] = Written(cells, ks, n)}
<1>3. Writes(cells, ks, f)
  BY <1>2
<1> HIDE DEF f
<1>4. 0 \in T
  <2>1. f[0] = cells
    BY <1>0, <1>3 DEF Writes
  <2> QED BY <1>1, <2>1
<1>5. ASSUME NEW n \in T PROVE n + 1 \in T
  <2> SUFFICES ASSUME n + 1 <= Len(ks) PROVE f[n + 1] = Written(cells, ks, n + 1)
    OBVIOUS
  <2>1. /\ n \in Nat /\ n + 1 \in 1..Len(ks) /\ n + 1 \in 0..Len(ks)
        /\ n + 1 # 0 /\ (n + 1) - 1 = n
    BY <1>0
  <2>2. f[n] = Written(cells, ks, n)
    BY <1>0, <2>1
  <2>3. f[n + 1] = Over(f[n], ks, n + 1)
    BY <1>3, <2>1 DEF Writes
  <2>4. Written(cells, ks, n + 1) = Over(Written(cells, ks, (n + 1) - 1), ks, n + 1)
    BY <1>0, <2>1, WriteNext
  <2> QED BY <2>1, <2>2, <2>3, <2>4
<1>6. T = Nat
  <2> HIDE DEF T
  <2>1. T \in SUBSET Nat
    BY DEF T
  <2> QED BY <1>4, <1>5, <2>1, AllNaturals
<1>7. f[Len(ks)] = Written(cells, ks, Len(ks))
  BY <1>0, <1>6
<1> QED BY <1>7 DEF f

LEMMA ElementIn ==
    ASSUME NEW S, NEW s \in Seq(S)
    PROVE  \A i \in 1..Len(s) : s[i] \in S
OBVIOUS

\* The filter of the headers in place leaves exactly those that the rule lists.
LEMMA Filters == ASSUME NEW u PROVE Compact(Heads(u)) = AllowedHeads(u)
<1> DEFINE cells == Heads(u)
           ks == Kept(cells)
<1>1. NumHeads \in Nat /\ cells = [j \in 1..NumHeads |-> cells[j]]
  BY PoolsAssumption DEF Heads
<1>2. Len(cells) = NumHeads
  BY <1>1 DEF Heads
<1>3. Listed(cells, NumHeads, ks)
  BY <1>1, <1>2, KeptListed
<1>4. Compact(cells) = SubSeq((CHOOSE f : Writes(cells, ks, f))[Len(ks)], 1, Len(ks))
  BY DEF Compact, Writes, Over
<1>5. AllowedHeads(u) = [i \in DOMAIN ks |-> cells[ks[i]]]
  BY DEF AllowedHeads
<1> HIDE DEF cells, ks
<1>6. ks \in Seq(1..NumHeads) /\ \A i \in 1..Len(ks) : ks[i] >= i /\ ks[i] \in 1..NumHeads
  <2>1. ks \in Seq(1..NumHeads) /\ \A i \in 1..Len(ks) : ks[i] >= i
    BY <1>3 DEF Listed
  <2> QED BY <2>1, ElementIn
<1>7. Compact(cells) = SubSeq(Written(cells, ks, Len(ks)), 1, Len(ks))
  BY <1>1, <1>4, <1>6, WritesAre
<1>8. Len(ks) \in Nat /\ DOMAIN ks = 1..Len(ks) /\ DOMAIN cells = 1..NumHeads
  BY <1>1, <1>6
<1>9. Len(ks) <= NumHeads
  <2>1. CASE Len(ks) = 0
    BY <1>1, <2>1
  <2>2. CASE Len(ks) # 0
    <3>1. Len(ks) \in 1..Len(ks)
      BY <1>8, <2>2
    <3> QED BY <1>1, <1>6, <1>8, <3>1
  <2> QED BY <2>1, <2>2
<1>10. ASSUME NEW i \in 1..Len(ks) PROVE Written(cells, ks, Len(ks))[i] = cells[ks[i]]
  <2>1. i \in DOMAIN cells
    BY <1>1, <1>8, <1>9
  <2> QED BY <2>1 DEF Written
<1>11. Compact(cells) = [i \in 1..Len(ks) |-> Written(cells, ks, Len(ks))[i]]
  BY <1>7, <1>8
<1>12. Compact(cells) = [i \in 1..Len(ks) |-> cells[ks[i]]]
  BY <1>10, <1>11
<1> QED BY <1>5, <1>8, <1>12 DEF cells

UseType ==
    [pc     : {"rest", "fetch", "send", "filter", "store", "respond", "return"},
     kind   : {"none", "hit", "miss", "proxy", "refresh", "check", "mock"},
     source : Pair \cup {NoPair}, pair : Pair \cup {NoPair}, defers : Seq(Pair)]

\* The pairs that a goroutine at s will release: those deferred, and the one of
\* a call that is under way and has not deferred it yet.
Deferred(s) == {s.defers[i] : i \in DOMAIN s.defers}
Holds(s) ==
    Deferred(s)
      \cup {o \in {s.pair} : s.pc \in {"send", "filter"} /\ s.kind # "check"}

\* Where a goroutine may be: what it works on it holds, and each once.
Shape(s) ==
    /\ s \in UseType
    /\ \A i, j \in DOMAIN s.defers : s.defers[i] = s.defers[j] => i = j
    /\ s.pc = "rest" => s.defers = <<>>
    /\ s.pc = "fetch" => s.kind = "refresh" /\ s.source \in Deferred(s)
    /\ s.pc = "send" => /\ s.kind \in {"miss", "proxy", "refresh", "check"} /\ s.pair \in Pair
                        /\ s.kind = "check" <=> s.pair \in Deferred(s)
    /\ s.pc = "filter" => /\ s.kind \in {"miss", "proxy", "refresh"} /\ s.pair \in Pair
                          /\ s.pair \notin Deferred(s)
    /\ s.pc \in {"store", "respond"} => s.pair \in Deferred(s)

\* What u reads at s, with the requests q and the responses r, is its own.
Reads(u, s, q, r) ==
    /\ s.pc \in {"send", "filter", "store", "respond"} => q[s.pair] = u
    /\ s.pc = "fetch" => q[s.source] = u
    /\ s.pc = "filter" => r[s.pair] = Heads(u)
    /\ s.pc \in {"store", "respond"} =>
           r[s.pair] = IF s.kind \in {"proxy", "mock"} THEN Heads(u) ELSE AllowedHeads(u)

HandsApart ==
    /\ \A u \in User : \A o \in Holds(using[u]) : pooled[o] = 0
    /\ \A u, v \in User : u # v => Holds(using[u]) \cap Holds(using[v]) = {}

Owned ==
    /\ pooled \in [Pair -> {0, 1}]
    /\ query \in [Pair -> User \cup {NoUser}] /\ DOMAIN reply = Pair
    /\ using \in [User -> UseType]
    /\ HandsApart
    /\ \A u \in User : Shape(using[u]) /\ Reads(u, using[u], query, reply)

\* What a goroutine reads it holds.
LEMMA ReadsHeld ==
    ASSUME NEW s, Shape(s)
    PROVE  /\ Holds(s) \subseteq Pair
           /\ s.pc \in {"send", "filter", "store", "respond"} => s.pair \in Holds(s)
           /\ s.pc = "fetch" => s.source \in Holds(s)
BY DEF Shape, Holds, Deferred, UseType

\* So what happens to pairs that it does not hold does not matter to it.
LEMMA ReadsOthersUntouched ==
    ASSUME NEW u, NEW s, Shape(s), NEW q, NEW r, NEW q1, NEW r1, Reads(u, s, q, r),
           \A p \in Holds(s) : q1[p] = q[p] /\ r1[p] = r[p]
    PROVE  Reads(u, s, q1, r1)
<1>1. /\ s.pc \in {"send", "filter", "store", "respond"} =>
           q1[s.pair] = q[s.pair] /\ r1[s.pair] = r[s.pair]
      /\ s.pc = "fetch" => q1[s.source] = q[s.source]
  BY ReadsHeld
<1> QED BY <1>1 DEF Reads

\* A step of u to s that changes at most the pair o, which it takes from the
\* pool, holds, or gives back.
LEMMA UserStep ==
    ASSUME Owned, NEW u \in User, NEW o \in Pair, NEW s, Shape(s), Reads(u, s, query', reply'),
           using' = [using EXCEPT ![u] = s],
           query' \in [Pair -> User \cup {NoUser}], DOMAIN reply' = Pair,
           \A p \in Pair \ {o} : query'[p] = query[p] /\ reply'[p] = reply[p],
           \/ /\ pooled[o] > 0 /\ pooled' = [pooled EXCEPT ![o] = @ - 1]
              /\ Holds(s) \subseteq Holds(using[u]) \cup {o}
           \/ /\ o \in Holds(using[u]) /\ pooled' = [pooled EXCEPT ![o] = @ + 1]
              /\ Holds(s) \subseteq Holds(using[u]) \ {o}
           \/ /\ o \in Holds(using[u]) /\ pooled' = pooled
              /\ Holds(s) \subseteq Holds(using[u])
    PROVE  Owned'
<1>1. /\ s \in UseType /\ using' \in [User -> UseType] /\ using'[u] = s
      /\ \A v \in User \ {u} : using'[v] = using[v]
  BY DEF Owned, Shape
<1>2. \A v \in User \ {u} : o \notin Holds(using[v])
  BY DEF Owned, HandsApart
<1>3. \A v \in User : Holds(using[v]) \subseteq Pair
  BY ReadsHeld DEF Owned
<1>4. /\ pooled' \in [Pair -> {0, 1}]
      /\ \A p \in Pair \ {o} : pooled'[p] = pooled[p]
      /\ o \in Holds(s) => pooled'[o] = 0
  BY DEF Owned, HandsApart
<1>5. ASSUME NEW v \in User \ {u}
      PROVE  Shape(using[v]) /\ Reads(v, using[v], query', reply')
  <2>1. \A p \in Holds(using[v]) : query'[p] = query[p] /\ reply'[p] = reply[p]
    BY <1>2, <1>3
  <2>2. Shape(using[v]) /\ Reads(v, using[v], query, reply)
    BY DEF Owned
  <2> QED BY <2>1, <2>2, ReadsOthersUntouched
<1>6. HandsApart'
  <2>1. ASSUME NEW v \in User, NEW p \in Holds(using'[v]) PROVE pooled'[p] = 0
    BY <1>1, <1>2, <1>3, <1>4, <2>1 DEF Owned, HandsApart
  <2>2. ASSUME NEW v \in User \ {u} PROVE Holds(s) \cap Holds(using[v]) = {}
    BY <1>2, <2>2 DEF Owned, HandsApart
  <2>3. ASSUME NEW v \in User, NEW w \in User, v # w
        PROVE  Holds(using'[v]) \cap Holds(using'[w]) = {}
    BY <1>1, <2>2, <2>3 DEF Owned, HandsApart
  <2> QED BY <2>1, <2>3 DEF HandsApart
<1>7. \A v \in User : Shape(using'[v]) /\ Reads(v, using'[v], query', reply')
  BY <1>1, <1>5
<1> QED BY <1>1, <1>4, <1>6, <1>7 DEF Owned

\* A step of u to s that leaves all pairs alone.
LEMMA UserRests ==
    ASSUME Owned, NEW u \in User, NEW s, Shape(s), Reads(u, s, query, reply),
           using' = [using EXCEPT ![u] = s], UNCHANGED <<pooled, query, reply>>,
           Holds(s) \subseteq Holds(using[u])
    PROVE  Owned'
<1>1. /\ s \in UseType /\ using' \in [User -> UseType] /\ using'[u] = s
      /\ \A v \in User \ {u} : using'[v] = using[v]
  BY DEF Owned, Shape
<1>2. HandsApart'
  BY <1>1 DEF Owned, HandsApart
<1> QED BY <1>1, <1>2 DEF Owned

LEMMA OwnedInitially == PoolsInit => Owned
<1> SUFFICES ASSUME PoolsInit PROVE Owned
  OBVIOUS
<1>1. AtRest \in UseType /\ AtRest.pc = "rest" /\ AtRest.defers = <<>>
  BY DEF AtRest, UseType
<1>2. Shape(AtRest) /\ Holds(AtRest) = {}
  BY <1>1 DEF Shape, Holds, Deferred
<1>3. \A u \in User : using[u] = AtRest /\ Reads(u, AtRest, query, reply)
  BY <1>1 DEF PoolsInit, Reads
<1> QED BY <1>1, <1>2, <1>3 DEF PoolsInit, Owned, HandsApart

\* A pair is filled with what an entry holds, or by the mocks, or for a check of
\* health, by a goroutine that holds nothing.
LEMMA Fills ==
    ASSUME Owned, NEW u \in User, NEW o \in Pair, NEW s, using[u].pc = "rest",
           Acquire(o), query' = [query EXCEPT ![o] = u], using' = [using EXCEPT ![u] = s],
           s \in UseType, s.pair = o, s.defers = <<o>>,
           \/ /\ s.kind = "hit" /\ s.pc = "respond" /\ s.source = o
              /\ reply' = [reply EXCEPT ![o] = AllowedHeads(u)]
           \/ /\ s.kind = "refresh" /\ s.pc = "fetch" /\ s.source = o
              /\ reply' = [reply EXCEPT ![o] = AllowedHeads(u)]
           \/ s.kind = "mock" /\ s.pc = "store" /\ reply' = [reply EXCEPT ![o] = Heads(u)]
           \/ s.kind = "check" /\ s.pc = "send" /\ reply' = reply
    PROVE  Owned'
<1>1. Deferred(s) = {o}
  BY DEF Deferred
<1>2. Shape(s)
  BY <1>1 DEF Shape
<1>3. /\ query' \in [Pair -> User \cup {NoUser}] /\ query'[o] = u /\ DOMAIN reply' = Pair
      /\ \A p \in Pair \ {o} : query'[p] = query[p] /\ reply'[p] = reply[p]
  BY DEF Owned
<1>4. Reads(u, s, query', reply')
  BY <1>3 DEF Owned, Reads
<1>5. Holds(s) = {o}
  BY <1>1 DEF Holds
<1> QED BY <1>2, <1>3, <1>4, <1>5, UserStep DEF Acquire

LEMMA UseOf == ASSUME Owned, NEW u \in User
  PROVE using[u] \in UseType /\ Shape(using[u]) /\ Reads(u, using[u], query, reply)
BY DEF Owned

\* A copy of the request is sent.
LEMMA CopyOwned ==
    ASSUME Owned, NEW u \in User, NEW o \in Pair, Copy(u, o)
    PROVE  Owned'
<1> DEFINE s == using[u]
<1>1. s \in UseType /\ Shape(s) /\ Reads(u, s, query, reply)
  BY UseOf
<1>2. PICK k \in {"miss", "proxy", "refresh"} :
        /\ s.pc = "rest" => k # "refresh"
        /\ s.pc = "fetch" => k = s.kind
        /\ s.pc \in {"rest", "fetch"}
        /\ using' = [using EXCEPT ![u] = [s EXCEPT !.pc = "send", !.kind = k, !.pair = o]]
  <2>1. CASE s.pc = "rest"
    BY <2>1 DEF Copy, Continue
  <2>2. CASE s.pc = "fetch"
    <3>1. using' = [using EXCEPT ![u] = [s EXCEPT !.pc = "send", !.pair = o]]
      BY <2>2 DEF Copy, Continue
    <3>2. s.kind = "refresh"
      BY <1>1, <2>2 DEF Shape
    <3>3. [s EXCEPT !.pc = "send", !.pair = o] = [s EXCEPT !.pc = "send", !.kind = "refresh", !.pair = o]
      BY <1>1, <3>2 DEF UseType
    <3> QED BY <2>2, <3>1, <3>2, <3>3
  <2> QED BY <2>1, <2>2 DEF Copy
<1>3. /\ query' \in [Pair -> User \cup {NoUser}] /\ query'[o] = u /\ reply' = reply
      /\ \A p \in Pair \ {o} : query'[p] = query[p]
  <2>1. s.pc = "fetch" => query[s.source] = u
    BY <1>1 DEF Reads
  <2> QED BY <1>2, <2>1 DEF Owned, Copy
<1> DEFINE t == [s EXCEPT !.pc = "send", !.kind = k, !.pair = o]
<1>4. /\ t \in UseType /\ t.pc = "send" /\ t.kind = k /\ t.pair = o
      /\ t.defers = s.defers
  BY <1>1 DEF UseType
<1>5. o \notin Holds(s) /\ pooled[o] > 0 /\ pooled' = [pooled EXCEPT ![o] = @ - 1]
  BY DEF Owned, HandsApart, Copy, Acquire
<1>6. Deferred(t) = Deferred(s) /\ Deferred(s) \subseteq Holds(s) /\ Holds(t) \subseteq Holds(s) \cup {o}
  BY <1>4 DEF Deferred, Holds
<1>7. Shape(t)
  BY <1>1, <1>4, <1>5, <1>6 DEF Shape
<1> HIDE DEF t
<1>8. Reads(u, t, query', reply')
  BY <1>3, <1>4 DEF Reads
<1>9. using' = [using EXCEPT ![u] = t]
  BY <1>2 DEF t
<1> QED BY <1>3, <1>5, <1>6, <1>7, <1>8, <1>9, UserStep DEF Owned

\* The upstream answers; a check only looks at the status.
LEMMA AnswerOwned ==
    ASSUME Owned, NEW u \in User, Replied(u) \/ HealthKnown(u)
    PROVE  Owned'
<1> DEFINE s == using[u]
           o == s.pair
<1>1. s \in UseType /\ Shape(s) /\ Reads(u, s, query, reply)
  BY UseOf
<1>2. s.pc = "send" /\ o \in Pair /\ query[o] = u /\ o \in Holds(s)
  BY <1>1, ReadsHeld DEF Replied, HealthKnown, Reads, Shape
<1>3. /\ DOMAIN reply' = Pair /\ UNCHANGED <<pooled, query>>
      /\ \A p \in Pair \ {o} : reply'[p] = reply[p]
  BY <1>2 DEF Owned, Replied, HealthKnown
<1>4. CASE Replied(u)
  <2> DEFINE t == [s EXCEPT !.pc = "filter"]
  <2>1. /\ t \in UseType /\ t.pc = "filter" /\ t.kind = s.kind /\ t.pair = o
        /\ t.defers = s.defers
    BY <1>1 DEF UseType
  <2>2. s.kind # "check" /\ reply'[o] = Heads(u)
    BY <1>2, <1>4 DEF Replied, Owned
  <2>3. Deferred(t) = Deferred(s) /\ Holds(t) \subseteq Holds(s)
    BY <1>2, <2>1, <2>2 DEF Deferred, Holds
  <2>4. Shape(t)
    BY <1>1, <1>2, <2>1, <2>2, <2>3 DEF Shape
  <2>5. using' = [using EXCEPT ![u] = t]
    BY <1>4 DEF Replied, GoTo, Continue
  <2> HIDE DEF t
  <2>6. Reads(u, t, query', reply')
    BY <1>2, <1>3, <2>1, <2>2 DEF Reads
  <2> QED BY <1>2, <1>3, <2>3, <2>4, <2>5, <2>6, UserStep DEF Owned
<1>5. CASE HealthKnown(u)
  <2> DEFINE t == [s EXCEPT !.pc = "return"]
  <2>1. t \in UseType /\ t.pc = "return" /\ t.defers = s.defers
    BY <1>1 DEF UseType
  <2>2. Deferred(t) = Deferred(s) /\ Holds(t) \subseteq Holds(s)
    BY <2>1 DEF Deferred, Holds
  <2>3. Shape(t)
    BY <1>1, <2>1, <2>2 DEF Shape
  <2>4. using' = [using EXCEPT ![u] = t]
    BY <1>5 DEF HealthKnown, GoTo, Continue
  <2> HIDE DEF t
  <2>5. Reads(u, t, query', reply')
    BY <2>1 DEF Reads
  <2> QED BY <1>2, <1>3, <2>2, <2>3, <2>4, <2>5, UserStep DEF Owned
<1> QED BY <1>4, <1>5

LEMMA ReleaseEffect ==
    ASSUME Owned, NEW o \in Pair, Release(o)
    PROVE  /\ pooled' = [pooled EXCEPT ![o] = @ + 1]
           /\ query' \in [Pair -> User \cup {NoUser}] /\ DOMAIN reply' = Pair
           /\ \A p \in Pair \ {o} : query'[p] = query[p] /\ reply'[p] = reply[p]
BY DEF Owned, Release

LEMMA TimedOutOwned ==
    ASSUME Owned, NEW u \in User, TimedOut(u)
    PROVE  Owned'
<1> DEFINE s == using[u]
           o == s.pair
           t == [s EXCEPT !.pc = "return"]
<1>1. s \in UseType /\ Shape(s)
  BY UseOf
<1>2. s.pc = "send" /\ s.kind # "check" /\ Release(o) /\ using' = [using EXCEPT ![u] = t]
  BY DEF TimedOut, GoTo, Continue
<1>3. o \in Pair /\ o \in Holds(s) /\ o \notin Deferred(s)
  BY <1>1, <1>2, ReadsHeld DEF Shape
<1>4. t \in UseType /\ t.pc = "return" /\ t.defers = s.defers
  BY <1>1 DEF UseType
<1>5. Deferred(t) = Deferred(s) /\ Holds(t) \subseteq Holds(s) \ {o}
  BY <1>3, <1>4 DEF Deferred, Holds
<1>6. Shape(t)
  BY <1>1, <1>4, <1>5 DEF Shape
<1> HIDE DEF t
<1>7. Reads(u, t, query', reply')
  BY <1>4 DEF Reads
<1> QED BY <1>2, <1>3, <1>5, <1>6, <1>7, ReleaseEffect, UserStep

\* The pair of a call that succeeded is deferred.
LEMMA FilterOwned ==
    ASSUME Owned, NEW u \in User, Filter(u)
    PROVE  Owned'
<1> DEFINE s == using[u]
           o == s.pair
<1>1. s \in UseType /\ Shape(s) /\ Reads(u, s, query, reply)
  BY UseOf
<1>2. /\ s.pc = "filter" /\ s.kind \in {"miss", "proxy", "refresh"}
      /\ o \in Pair /\ o \in Holds(s) /\ o \notin Deferred(s)
      /\ query[o] = u /\ reply[o] = Heads(u)
  BY <1>1, ReadsHeld DEF Filter, Shape, Reads
<1>3. PICK pc \in {"store", "respond", "return"} :
         using' = [using EXCEPT ![u] = [s EXCEPT !.pc = pc, !.defers = Append(@, o)]]
  BY <1>2 DEF Filter, Continue
<1> DEFINE t == [s EXCEPT !.pc = pc, !.defers = Append(@, o)]
<1>4. /\ s.defers \in Seq(Pair) /\ Append(s.defers, o) \in Seq(Pair)
      /\ Deferred(s) = {s.defers[i] : i \in DOMAIN s.defers}
  BY <1>1, <1>2 DEF UseType, Deferred
<1>5. /\ t \in UseType /\ t.pc = pc /\ t.pair = o /\ t.kind = s.kind
      /\ t.defers = Append(s.defers, o)
  BY <1>1, <1>4 DEF UseType
<1>6. /\ Deferred(t) = Deferred(s) \cup {o}
      /\ \A i, j \in DOMAIN t.defers : t.defers[i] = t.defers[j] => i = j
  <2> DEFINE d == s.defers
  <2>1. /\ d \in Seq(Pair) /\ t.defers = Append(d, o)
        /\ \A i \in 1..Len(d) : d[i] # o
        /\ \A i, j \in 1..Len(d) : d[i] = d[j] => i = j
    BY <1>1, <1>2, <1>4, <1>5 DEF Shape
  <2> HIDE DEF d, t
  <2>2. \A i, j \in DOMAIN t.defers : t.defers[i] = t.defers[j] => i = j
    BY <2>1
  <2>3. {t.defers[i] : i \in DOMAIN t.defers} = {d[i] : i \in DOMAIN d} \cup {o}
    BY <2>1
  <2> QED BY <2>2, <2>3 DEF Deferred, d
<1>7. Holds(t) \subseteq Holds(s)
  BY <1>2, <1>5, <1>6 DEF Holds
<1>8. Shape(t)
  BY <1>5, <1>6 DEF Shape
<1>9. using' = [using EXCEPT ![u] = t]
  BY <1>3
<1> HIDE DEF t
<1>10. /\ UNCHANGED <<pooled, query>> /\ DOMAIN reply' = Pair
       /\ \A p \in Pair \ {o} : reply'[p] = reply[p]
       /\ reply'[o] = IF s.kind = "proxy" THEN Heads(u) ELSE AllowedHeads(u)
  <2>1. /\ UNCHANGED <<pooled, query>>
        /\ reply' = IF s.kind = "proxy" THEN reply ELSE [reply EXCEPT ![o] = Compact(reply[o])]
    BY DEF Filter
  <2>2. Compact(reply[o]) = AllowedHeads(u)
    BY <1>2, Filters
  <2> HIDE DEF o, s
  <2>3. DOMAIN reply = Pair /\ reply[o] = Heads(u) /\ o \in Pair
    BY <1>2 DEF Owned
  <2>4. PICK c : c = Compact(reply[o])
    OBVIOUS
  <2> QED BY <2>1, <2>2, <2>3, <2>4
<1>11. Reads(u, t, query', reply')
  BY <1>2, <1>5, <1>10 DEF Reads
<1> QED BY <1>2, <1>7, <1>8, <1>9, <1>10, <1>11, UserStep DEF Owned

\* Steps that leave the pairs alone.
LEMMA GoesOn ==
    ASSUME Owned, NEW u \in User, NoBackend(u) \/ StoreReply(u) \/ SendReply(u)
    PROVE  Owned'
<1> DEFINE s == using[u]
<1>1. s \in UseType /\ Shape(s) /\ Reads(u, s, query, reply)
  BY UseOf
<1>2. PICK pc \in {"respond", "return"} :
        /\ using' = [using EXCEPT ![u] = [s EXCEPT !.pc = pc]]
        /\ pc = "respond" => s.pc = "store"
  BY DEF NoBackend, StoreReply, SendReply, GoTo, Continue
<1> DEFINE t == [s EXCEPT !.pc = pc]
<1>3. /\ t \in UseType /\ t.pc = pc /\ t.pair = s.pair /\ t.kind = s.kind
      /\ t.defers = s.defers
  BY <1>1 DEF UseType
<1>4. Deferred(t) = Deferred(s) /\ Holds(t) \subseteq Holds(s)
  BY <1>3 DEF Deferred, Holds
<1>5. Shape(t) /\ using' = [using EXCEPT ![u] = t]
  BY <1>1, <1>2, <1>3, <1>4 DEF Shape
<1> HIDE DEF t
<1>6. Reads(u, t, query, reply)
  BY <1>1, <1>2, <1>3 DEF Reads
<1>7. UNCHANGED <<pooled, query, reply>>
  BY DEF NoBackend, StoreReply, SendReply
<1> QED BY <1>4, <1>5, <1>6, <1>7, UserRests

\* A sequence without duplicates, without its last element.
LEMMA FrontLast ==
    ASSUME NEW S, NEW d \in Seq(S), d # <<>>, \A i, j \in DOMAIN d : d[i] = d[j] => i = j
    PROVE  /\ Last(d) \in S /\ Front(d) \in Seq(S)
           /\ {d[i] : i \in DOMAIN d} \ {Last(d)} = {Front(d)[i] : i \in DOMAIN Front(d)}
           /\ Last(d) \in {d[i] : i \in DOMAIN d}
           /\ \A i, j \in DOMAIN Front(d) : Front(d)[i] = Front(d)[j] => i = j
<1>1. PICK n \in Nat : n = Len(d) /\ n > 0 /\ DOMAIN d = 1..n
  OBVIOUS
<1>2. Last(d) = d[n] /\ d[n] \in S
  BY <1>1 DEF Last
<1>3. /\ Front(d) \in Seq(S) /\ DOMAIN Front(d) = 1..(n - 1)
      /\ \A i \in 1..(n - 1) : Front(d)[i] = d[i]
  BY <1>1 DEF Front
<1>4. 1..n = 1..(n - 1) \cup {n} /\ n \notin 1..(n - 1)
  BY <1>1
<1>5. \A i \in 1..(n - 1) : d[i] # d[n]
  BY <1>1, <1>4
<1>6. {d[i] : i \in DOMAIN d} \ {d[n]} = {Front(d)[i] : i \in DOMAIN Front(d)}
  <2>1. \A x : (\E i \in 1..n : d[i] = x) /\ x # d[n] <=> \E i \in 1..(n - 1) : d[i] = x
    BY <1>4, <1>5
  <2> QED BY <1>1, <1>3, <2>1
<1> QED BY <1>1, <1>2, <1>3, <1>4, <1>6

LEMMA DefersOwned ==
    ASSUME Owned, NEW u \in User, RunDefers(u)
    PROVE  Owned'
<1> DEFINE s == using[u]
           d == s.defers
<1>1. /\ s \in UseType /\ Shape(s) /\ s.pc = "return" /\ d \in Seq(Pair)
      /\ Holds(s) = Deferred(s)
  BY UseOf DEF RunDefers, UseType, Holds
<1>2. CASE d = <<>>
  <2>1. AtRest \in UseType /\ AtRest.pc = "rest" /\ AtRest.defers = <<>>
    BY DEF AtRest, UseType
  <2>2. Shape(AtRest) /\ Holds(AtRest) = {} /\ Reads(u, AtRest, query, reply)
    BY <2>1 DEF Shape, Holds, Deferred, Reads
  <2>3. using' = [using EXCEPT ![u] = AtRest] /\ UNCHANGED <<pooled, query, reply>>
    BY <1>2 DEF RunDefers
  <2> QED BY <2>2, <2>3, UserRests
<1>3. CASE d # <<>>
  <2> DEFINE o == Last(d)
             t == [s EXCEPT !.defers = Front(@)]
  <2>1. Release(o) /\ using' = [using EXCEPT ![u] = t]
    BY <1>3 DEF RunDefers, Continue
  <2>2. /\ o \in Pair /\ Front(d) \in Seq(Pair)
        /\ {d[i] : i \in DOMAIN d} \ {o} = {Front(d)[i] : i \in DOMAIN Front(d)}
        /\ o \in {d[i] : i \in DOMAIN d}
        /\ \A i, j \in DOMAIN Front(d) : Front(d)[i] = Front(d)[j] => i = j
    <3>1. \A i, j \in DOMAIN d : d[i] = d[j] => i = j
      BY <1>1 DEF Shape
    <3> HIDE DEF d
    <3> QED BY <1>1, <1>3, <3>1, FrontLast
  <2>3. t \in UseType /\ t.pc = "return" /\ t.defers = Front(d)
    BY <1>1, <2>2 DEF UseType
  <2>4. Deferred(t) = Deferred(s) \ {o} /\ Holds(t) = Deferred(t) /\ o \in Holds(s)
    BY <1>1, <2>2, <2>3 DEF Deferred, Holds
  <2>5. Shape(t)
    BY <2>2, <2>3 DEF Shape
  <2> HIDE DEF t
  <2>6. Reads(u, t, query', reply')
    BY <2>3 DEF Reads
  <2>7. /\ pooled' = [pooled EXCEPT ![o] = @ + 1]
        /\ query' \in [Pair -> User \cup {NoUser}] /\ DOMAIN reply' = Pair
        /\ \A p \in Pair \ {o} : query'[p] = query[p] /\ reply'[p] = reply[p]
        /\ o \in Pair
    BY <2>1, <2>2, ReleaseEffect
  <2>8. Holds(t) \subseteq Holds(s) \ {o} /\ o \in Holds(s) /\ using' = [using EXCEPT ![u] = t]
    BY <1>1, <2>1, <2>4
  <2> HIDE DEF o
  <2> QED BY <2>5, <2>6, <2>7, <2>8, UserStep
<1> QED BY <1>2, <1>3

LEMMA OwnedKept == Owned /\ [PoolsNext]_poolVars => Owned'
<1> SUFFICES ASSUME Owned, [PoolsNext]_poolVars PROVE Owned'
  OBVIOUS
<1>1. ASSUME NEW u \in User, NEW o \in Pair,
             ServeEntry(u, o) \/ RepeatEntry(u, o) \/ MakeMock(u, o) \/ AskHealth(u, o)
      PROVE  Owned'
  <2>1. using[u] \in UseType /\ using[u].pc = "rest"
    BY <1>1, UseOf DEF ServeEntry, RepeatEntry, MakeMock, AskHealth, Unpacked
  <2> DEFINE whole(pc, kind) == [pc |-> pc, kind |-> kind, source |-> o, pair |-> o, defers |-> <<o>>]
             stub(pc, kind) == [using[u] EXCEPT !.pc = pc, !.kind = kind, !.pair = o, !.defers = <<o>>]
  <2>2. /\ Acquire(o) /\ query' = [query EXCEPT ![o] = u]
        /\ \/ /\ using' = [using EXCEPT ![u] = whole("respond", "hit")]
              /\ reply' = [reply EXCEPT ![o] = AllowedHeads(u)]
           \/ /\ using' = [using EXCEPT ![u] = whole("fetch", "refresh")]
              /\ reply' = [reply EXCEPT ![o] = AllowedHeads(u)]
           \/ /\ using' = [using EXCEPT ![u] = stub("store", "mock")]
              /\ reply' = [reply EXCEPT ![o] = Heads(u)]
           \/ /\ using' = [using EXCEPT ![u] = stub("send", "check")]
              /\ reply' = reply
    BY <1>1 DEF ServeEntry, RepeatEntry, MakeMock, AskHealth, Unpacked, Continue
  <2>3. <<o>> \in Seq(Pair)
    OBVIOUS
  <2>4. /\ whole("respond", "hit") \in UseType /\ whole("fetch", "refresh") \in UseType
        /\ stub("store", "mock") \in UseType /\ stub("send", "check") \in UseType
    BY <2>1, <2>3 DEF UseType
  <2>5. CASE using' = [using EXCEPT ![u] = whole("respond", "hit")]
             /\ reply' = [reply EXCEPT ![o] = AllowedHeads(u)]
    <3>1. PICK s \in UseType : s = whole("respond", "hit")
      BY <2>4
    <3>2. /\ s.kind = "hit" /\ s.pc = "respond" /\ s.source = o /\ s.pair = o
          /\ s.defers = <<o>>
      BY <3>1
    <3> HIDE DEF whole
    <3> QED BY <2>1, <2>2, <2>5, <3>1, <3>2, Fills
  <2>6. CASE using' = [using EXCEPT ![u] = whole("fetch", "refresh")]
             /\ reply' = [reply EXCEPT ![o] = AllowedHeads(u)]
    <3>1. PICK s \in UseType : s = whole("fetch", "refresh")
      BY <2>4
    <3>2. /\ s.kind = "refresh" /\ s.pc = "fetch" /\ s.source = o /\ s.pair = o
          /\ s.defers = <<o>>
      BY <3>1
    <3> HIDE DEF whole
    <3> QED BY <2>1, <2>2, <2>6, <3>1, <3>2, Fills
  <2>7. CASE using' = [using EXCEPT ![u] = stub("store", "mock")]
             /\ reply' = [reply EXCEPT ![o] = Heads(u)]
    <3>1. PICK s \in UseType : s = stub("store", "mock")
      BY <2>4
    <3>2. s.kind = "mock" /\ s.pc = "store" /\ s.pair = o /\ s.defers = <<o>>
      BY <2>1, <3>1 DEF UseType
    <3> HIDE DEF stub
    <3> QED BY <2>1, <2>2, <2>7, <3>1, <3>2, Fills
  <2>8. CASE using' = [using EXCEPT ![u] = stub("send", "check")] /\ reply' = reply
    <3>1. PICK s \in UseType : s = stub("send", "check")
      BY <2>4
    <3>2. s.kind = "check" /\ s.pc = "send" /\ s.pair = o /\ s.defers = <<o>>
      BY <2>1, <3>1 DEF UseType
    <3> HIDE DEF stub
    <3> QED BY <2>1, <2>2, <2>8, <3>1, <3>2, Fills
  <2> HIDE DEF stub, whole
  <2> QED BY <2>2, <2>5, <2>6, <2>7, <2>8
<1>2. CASE UNCHANGED poolVars
  BY <1>2 DEF poolVars, Owned, HandsApart
<1> QED
  BY <1>1, <1>2, CopyOwned, AnswerOwned, TimedOutOwned, FilterOwned, GoesOn, DefersOwned
  DEF PoolsNext

\* Whatever the goroutines do and whichever calls fail, no pair of a request and
\* a response is in two hands, so what is sent, stored and answered is the own,
\* with exactly the headers that the rule lists (backend.go, payload.go: the
\* releasers and filterHeaders).
THEOREM ReadsOwnHolds == PoolsSpec => []ReadsOwn
<1>1. Owned => ReadsOwn
  BY DEF Owned, Reads, ReadsOwn
<1>2. Owned /\ [PoolsNext]_poolVars => Owned'
  BY OwnedKept
<1> QED BY OwnedInitially, <1>1, <1>2, PTL DEF PoolsSpec

\* What a response holds, and how many releases are deferred where.
Cells == Seq((User \cup {NoUser}) \X (1..NumHeads))

Short(s) ==
    /\ Len(s.defers) <= 2
    /\ s.pc \in {"fetch", "send", "filter"} => Len(s.defers) <= 1

PoolsInv ==
    /\ Owned
    /\ \A o \in Pair : reply[o] \in Cells
    /\ \A u \in User : Short(using[u])

LEMMA ShortDefers ==
    ASSUME NEW S, NEW d \in Seq(S), Len(d) <= 2
    PROVE  d \in BoundedSeq(S, 2)
<1>1. PICK n \in Nat : n = Len(d) /\ d \in [1..n -> S]
  OBVIOUS
<1>2. n \in 0..2
  BY <1>1
<1> QED BY <1>1, <1>2 DEF BoundedSeq, SeqOf

LEMMA PoolsTyped == PoolsInv => PoolsTypeOK
<1> SUFFICES ASSUME PoolsInv PROVE PoolsTypeOK
  OBVIOUS
<1>1. pooled \in [Pair -> Nat] /\ query \in [Pair -> User \cup {NoUser}]
  BY DEF PoolsInv, Owned
<1>2. ASSUME NEW o \in Pair, NEW i \in DOMAIN reply[o]
      PROVE  reply[o][i] \in (User \cup {NoUser}) \X (1..NumHeads)
  <2>1. reply[o] \in Cells
    BY DEF PoolsInv
  <2> QED BY <2>1, ElementIn DEF Cells
<1>3. ASSUME NEW u \in User PROVE using[u] \in Use
  <2>1. using[u] \in UseType /\ Len(using[u].defers) <= 2
    BY DEF PoolsInv, Owned, Short
  <2>2. using[u].defers \in BoundedSeq(Pair, 2)
    BY <2>1, ShortDefers DEF UseType
  <2> QED BY <2>1, <2>2 DEF UseType, Use
<1>4. using \in [User -> Use]
  BY <1>3 DEF PoolsInv, Owned
<1> QED BY <1>1, <1>2, <1>4 DEF PoolsTypeOK

LEMMA PoolsTypedInitially == PoolsInit => PoolsInv
<1> SUFFICES ASSUME PoolsInit PROVE PoolsInv
  OBVIOUS
<1>1. ASSUME NEW o \in Pair PROVE reply[o] \in Cells
  BY DEF PoolsInit, Cells
<1>2. ASSUME NEW u \in User PROVE Short(using[u])
  BY DEF PoolsInit, AtRest, Short
<1> QED BY <1>1, <1>2, OwnedInitially DEF PoolsInv

\* The headers of an answer, all of them or those that the rule lists.
LEMMA HeadsCells ==
    ASSUME NEW u \in User \cup {NoUser}
    PROVE  Heads(u) \in Cells /\ AllowedHeads(u) \in Cells
<1>1. Heads(u) \in Cells /\ Len(Heads(u)) = NumHeads
  BY PoolsAssumption DEF Heads, Cells
<1>2. Listed(Heads(u), NumHeads, Kept(Heads(u)))
  BY <1>1, KeptListed, PoolsAssumption
<1> DEFINE ks == Kept(Heads(u))
           h == Heads(u)
<1>3. ks \in Seq(1..NumHeads)
  BY <1>2 DEF Listed
<1>4. AllowedHeads(u) = [i \in DOMAIN ks |-> h[ks[i]]]
  BY DEF AllowedHeads
<1> HIDE DEF ks, h
<1>5. h \in Seq((User \cup {NoUser}) \X (1..NumHeads)) /\ DOMAIN h = 1..NumHeads
  BY <1>1, PoolsAssumption DEF Cells, h
<1>6. ASSUME NEW i \in DOMAIN ks PROVE h[ks[i]] \in (User \cup {NoUser}) \X (1..NumHeads)
  <2>1. i \in 1..Len(ks)
    BY <1>3
  <2>3. ks[i] \in 1..NumHeads
    BY <1>3, <2>1, ElementIn
  <2>2. Len(h) = NumHeads
    BY <1>5, PoolsAssumption
  <2> QED BY <1>5, <2>2, <2>3, ElementIn
<1>7. DOMAIN ks = 1..Len(ks) /\ Len(ks) \in Nat
  BY <1>3
<1> QED BY <1>1, <1>4, <1>6, <1>7 DEF Cells

\* What is said of where a goroutine goes, and what it defers there.
LEMMA Alters ==
    ASSUME NEW s \in UseType, NEW pc, NEW kind, NEW o, NEW d
    PROVE  /\ [s EXCEPT !.pc = pc].pc = pc /\ [s EXCEPT !.pc = pc].defers = s.defers
           /\ [s EXCEPT !.pc = pc, !.pair = o].defers = s.defers
           /\ [s EXCEPT !.pc = pc, !.kind = kind, !.pair = o].defers = s.defers
           /\ [s EXCEPT !.pc = pc, !.kind = kind, !.pair = o, !.defers = d].defers = d
           /\ [s EXCEPT !.pc = pc, !.defers = d].pc = pc
           /\ [s EXCEPT !.pc = pc, !.defers = d].defers = d
           /\ [s EXCEPT !.defers = d].pc = s.pc /\ [s EXCEPT !.defers = d].defers = d
BY DEF UseType

\* A step changes the response of one pair at most, and in one of four ways.
LEMMA CellsKept ==
    ASSUME PoolsInv, NEW o \in Pair, NEW u \in User \cup {NoUser},
           \/ reply' = reply
           \/ reply' = [reply EXCEPT ![o] = <<>>]
           \/ reply' = [reply EXCEPT ![o] = Heads(u)]
           \/ reply' = [reply EXCEPT ![o] = AllowedHeads(u)]
    PROVE  \A p \in Pair : reply'[p] \in Cells
<1>1. /\ <<>> \in Cells /\ Heads(u) \in Cells /\ AllowedHeads(u) \in Cells
      /\ DOMAIN reply = Pair /\ \A p \in Pair : reply[p] \in Cells
  BY HeadsCells DEF Cells, PoolsInv, Owned
<1> QED BY <1>1

LEMMA ShortKept ==
    ASSUME PoolsInv, NEW u \in User, NEW s, Short(s), using' = [using EXCEPT ![u] = s]
    PROVE  \A v \in User : Short(using'[v])
BY DEF PoolsInv, Owned

LEMMA PoolsTypeKept == PoolsInv /\ [PoolsNext]_poolVars => PoolsInv'
<1> SUFFICES ASSUME PoolsInv, [PoolsNext]_poolVars PROVE PoolsInv'
  OBVIOUS
<1>1. Owned /\ Owned'
  BY OwnedKept DEF PoolsInv
<1>2. SUFFICES (\A o \in Pair : reply'[o] \in Cells) /\ (\A u \in User : Short(using'[u]))
  BY <1>1 DEF PoolsInv
<1>3. ASSUME NEW u \in User
      PROVE  /\ using[u] \in UseType /\ Shape(using[u]) /\ Reads(u, using[u], query, reply)
             /\ using[u].defers \in Seq(Pair) /\ Short(using[u])
  BY UseOf DEF PoolsInv, UseType
\* A pair is taken by somebody at rest.
<1>4. ASSUME NEW u \in User, NEW o \in Pair,
             ServeEntry(u, o) \/ RepeatEntry(u, o) \/ MakeMock(u, o) \/ AskHealth(u, o)
      PROVE  <1>2!1
  <2> DEFINE whole(pc, kind) == [pc |-> pc, kind |-> kind, source |-> o, pair |-> o, defers |-> <<o>>]
             stub(pc, kind) == [using[u] EXCEPT !.pc = pc, !.kind = kind, !.pair = o, !.defers = <<o>>]
  <2>1. /\ Short(whole("respond", "hit")) /\ Short(whole("fetch", "refresh"))
        /\ Short(stub("store", "mock")) /\ Short(stub("send", "check"))
    <3>1. ASSUME NEW s, s.defers = <<o>> PROVE Short(s)
      BY <3>1 DEF Short
    <3>2. /\ whole("respond", "hit").defers = <<o>> /\ whole("fetch", "refresh").defers = <<o>>
          /\ stub("store", "mock").defers = <<o>> /\ stub("send", "check").defers = <<o>>
      BY <1>3, Alters
    <3> HIDE DEF whole, stub
    <3> QED BY <3>1, <3>2
  <2>2. \/ using' = [using EXCEPT ![u] = whole("respond", "hit")]
        \/ using' = [using EXCEPT ![u] = whole("fetch", "refresh")]
        \/ using' = [using EXCEPT ![u] = stub("store", "mock")]
        \/ using' = [using EXCEPT ![u] = stub("send", "check")]
    BY <1>4 DEF ServeEntry, RepeatEntry, MakeMock, AskHealth, Unpacked, Continue
  <2> HIDE DEF whole, stub
  <2>3. \A v \in User : Short(using'[v])
    BY <2>1, <2>2, ShortKept
  <2>4. \/ reply' = reply
        \/ reply' = [reply EXCEPT ![o] = Heads(u)]
        \/ reply' = [reply EXCEPT ![o] = AllowedHeads(u)]
    BY <1>4 DEF ServeEntry, RepeatEntry, MakeMock, AskHealth, Unpacked
  <2> QED BY <2>3, <2>4, CellsKept
<1>5. ASSUME NEW u \in User, NEW o \in Pair, Copy(u, o)
      PROVE  <1>2!1
  <2>1. Len(using[u].defers) <= 1
    <3>1. using[u].pc = "rest" => using[u].defers = <<>>
      BY <1>3 DEF Shape
    <3> QED BY <1>3, <1>5, <3>1 DEF Copy, Short
  <2> DEFINE to(kind) == [using[u] EXCEPT !.pc = "send", !.kind = kind, !.pair = o]
             again == [using[u] EXCEPT !.pc = "send", !.pair = o]
  <2>2. Short(again) /\ \A kind : Short(to(kind))
    <3>1. ASSUME NEW s, s.defers = using[u].defers PROVE Short(s)
      BY <1>3, <2>1, <3>1 DEF Short
    <3>2. again.defers = using[u].defers /\ \A kind : to(kind).defers = using[u].defers
      BY <1>3, Alters
    <3> HIDE DEF again, to
    <3> QED BY <3>1, <3>2
  <2>3. \/ using' = [using EXCEPT ![u] = to("miss")]
        \/ using' = [using EXCEPT ![u] = to("proxy")]
        \/ using' = [using EXCEPT ![u] = again]
    BY <1>5 DEF Copy, Continue
  <2> HIDE DEF again, to
  <2>4. \A v \in User : Short(using'[v])
    BY <2>2, <2>3, ShortKept
  <2> QED BY <1>5, <2>4, CellsKept DEF Copy
\* The steps of one who works on a pair.
<1>6. ASSUME NEW u \in User, NEW pc, pc \in {"filter", "respond", "return"},
             pc = "filter" => using[u].pc = "send",
             using' = [using EXCEPT ![u] = [using[u] EXCEPT !.pc = pc]]
      PROVE  \A v \in User : Short(using'[v])
  <2> DEFINE s == [using[u] EXCEPT !.pc = pc]
  <2>1. s.pc = pc /\ s.defers = using[u].defers
    BY <1>3, Alters
  <2> HIDE DEF s
  <2>2. Short(s)
    BY <1>3, <1>6, <2>1 DEF Short
  <2>3. using' = [using EXCEPT ![u] = s]
    BY <1>6 DEF s
  <2> QED BY <2>2, <2>3, ShortKept
<1>7. ASSUME NEW u \in User, Replied(u) \/ TimedOut(u) \/ HealthKnown(u)
      PROVE  <1>2!1
  <2> DEFINE o == using[u].pair
  <2>1. using[u].pc = "send" /\ o \in Pair /\ query[o] = u
    BY <1>3, <1>7 DEF Replied, TimedOut, HealthKnown, Shape, Reads
  <2>2. \/ reply' = reply
        \/ reply' = [reply EXCEPT ![o] = <<>>]
        \/ reply' = [reply EXCEPT ![o] = Heads(u)]
    BY <1>7, <2>1 DEF Replied, TimedOut, HealthKnown, Release
  <2>3. \/ using' = [using EXCEPT ![u] = [using[u] EXCEPT !.pc = "filter"]]
        \/ using' = [using EXCEPT ![u] = [using[u] EXCEPT !.pc = "return"]]
    BY <1>7 DEF Replied, TimedOut, HealthKnown, GoTo, Continue
  <2>4. \A v \in User : Short(using'[v])
    BY <1>6, <2>1, <2>3
  <2> HIDE DEF o
  <2> QED BY <2>1, <2>2, <2>4, CellsKept
<1>8. ASSUME NEW u \in User, NoBackend(u) \/ StoreReply(u) \/ SendReply(u)
      PROVE  <1>2!1
  <2>1. \/ using' = [using EXCEPT ![u] = [using[u] EXCEPT !.pc = "respond"]]
        \/ using' = [using EXCEPT ![u] = [using[u] EXCEPT !.pc = "return"]]
    BY <1>8 DEF NoBackend, StoreReply, SendReply, GoTo, Continue
  <2>2. reply' = reply
    BY <1>8 DEF NoBackend, StoreReply, SendReply
  <2> QED BY <1>6, <2>1, <2>2 DEF PoolsInv
<1>9. ASSUME NEW u \in User, Filter(u)
      PROVE  <1>2!1
  <2> DEFINE o == using[u].pair
             d == using[u].defers
  <2>1. /\ using[u].pc = "filter" /\ o \in Pair /\ reply[o] = Heads(u)
        /\ using[u].kind \in {"miss", "proxy", "refresh"}
        /\ d \in Seq(Pair) /\ Len(d) <= 1
    BY <1>3, <1>9 DEF Filter, Shape, Reads, Short
  <2>2. PICK pc \in {"store", "respond", "return"} :
           using' = [using EXCEPT ![u] = [using[u] EXCEPT !.pc = pc, !.defers = Append(@, o)]]
    BY <1>9, <2>1 DEF Filter, Continue
  <2> DEFINE s == [using[u] EXCEPT !.pc = pc, !.defers = Append(d, o)]
  <2>3. s.pc = pc /\ s.defers = Append(d, o)
    BY <1>3, Alters
  <2>4. using' = [using EXCEPT ![u] = s]
    BY <2>2
  <2>5. reply' = reply \/ reply' = [reply EXCEPT ![o] = AllowedHeads(u)]
    <3>1. reply' = reply \/ reply' = [reply EXCEPT ![o] = Compact(reply[o])]
      BY <1>9 DEF Filter
    <3>2. Compact(reply[o]) = AllowedHeads(u)
      BY <2>1, Filters
    <3> HIDE DEF o
    <3> QED BY <3>1, <3>2
  <2> HIDE DEF o, d, s
  <2>6. Len(Append(d, o)) <= 2
    BY <2>1
  <2>7. Short(s)
    BY <2>2, <2>3, <2>6 DEF Short
  <2> QED BY <2>1, <2>4, <2>5, <2>7, ShortKept, CellsKept
<1>11. ASSUME NEW u \in User, RunDefers(u)
       PROVE  <1>2!1
  <2> DEFINE d == using[u].defers
             o == Last(d)
             s == [using[u] EXCEPT !.defers = Front(d)]
  <2>1. using[u].pc = "return" /\ d \in Seq(Pair) /\ Len(d) <= 2
    BY <1>3, <1>11 DEF RunDefers, Short
  <2>2. CASE d = <<>>
    <3>1. using' = [using EXCEPT ![u] = AtRest] /\ reply' = reply
      BY <1>11, <2>2 DEF RunDefers
    <3>2. Short(AtRest)
      BY DEF AtRest, Short
    <3> QED BY <3>1, <3>2, ShortKept DEF PoolsInv
  <2>3. CASE d # <<>>
    <3>1. o \in Pair /\ Len(Front(d)) = Len(d) - 1
      <4> HIDE DEF d
      <4>1. PICK n \in Nat : n = Len(d) /\ n > 0 /\ d[n] \in Pair
        BY <2>1, <2>3
      <4>2. Front(d) \in Seq(Pair) /\ DOMAIN Front(d) = 1..(n - 1)
        BY <2>1, <4>1 DEF Front
      <4>3. Len(Front(d)) = n - 1
        BY <4>1, <4>2
      <4> QED BY <4>1, <4>3 DEF Last
    <3>2. s.pc = "return" /\ s.defers = Front(d)
      BY <1>3, <2>1, Alters
    <3>3. using' = [using EXCEPT ![u] = s] /\ reply' = [reply EXCEPT ![o] = <<>>]
      BY <1>11, <2>3 DEF RunDefers, Release, Continue
    <3> HIDE DEF o, d, s
    <3>4. Short(s)
      BY <2>1, <3>1, <3>2 DEF Short
    <3> QED BY <3>1, <3>3, <3>4, ShortKept, CellsKept
  <2> QED BY <2>2, <2>3
<1>10. CASE UNCHANGED poolVars
  BY <1>10 DEF poolVars, PoolsInv
<1> QED BY <1>4, <1>5, <1>7, <1>8, <1>9, <1>10, <1>11 DEF PoolsNext

-----------------------------------------------------------------------------
(* Stats: counters that are loaded and reset without a lock.                *)

\* What each part of an exporter's state is.
StatsShape ==
    /\ todo \in [Handler -> Seq(Kind)]
    /\ tally \in [Kind -> Nat] /\ bumped \in [Kind -> Nat]
    /\ local \in [Exporter -> [Kind -> Nat]] /\ exported \in [Exporter -> [Kind -> Nat]]
    /\ period \in [Exporter -> Nat] /\ long \in [Exporter -> Nat]
    /\ summed \in [Exporter -> [{"5s", "1h"} -> Nat]]
    /\ export \in [Exporter -> [at : 1..7, loaded : BOOLEAN]]

\* What is loaded has been counted, and the exporter has not exported it yet;
\* another exporter may have reset the counter since.
Unexported(e) ==
    export[e].loaded =>
        /\ export[e].at <= 6
        /\ exported[e][Kinds[export[e].at]] + local[e][Kinds[export[e].at]]
             <= bumped[Kinds[export[e].at]]

Counting == StatsShape /\ \A e \in Exporter : Unexported(e) /\ CountsOnce(e)

LEMMA SixKinds ==
    /\ DOMAIN Kinds = 1..6 /\ Len(Kinds) = 6
    /\ Kind = {"total", "hits", "misses", "proxied", "errered", "duration"}
    /\ \A i \in 1..6 : Kinds[i] \in Kind
    /\ \A i, j \in 1..6 : Kinds[i] = Kinds[j] => i = j
    /\ \A k \in Kind : \E i \in 1..6 : Kinds[i] = k
<1>1. DOMAIN Kinds = 1..6 /\ Len(Kinds) = 6
  BY DEF Kinds
<1>2. 1..6 = {1, 2, 3, 4, 5, 6}
  OBVIOUS
<1>3. /\ Kinds[1] = "total" /\ Kinds[2] = "hits" /\ Kinds[3] = "misses"
      /\ Kinds[4] = "proxied" /\ Kinds[5] = "errered" /\ Kinds[6] = "duration"
  BY DEF Kinds
<1>4. Kind = {"total", "hits", "misses", "proxied", "errered", "duration"}
  BY <1>1, <1>2, <1>3 DEF Kind
<1> QED BY <1>1, <1>2, <1>3, <1>4

LEMMA WaysAreKinds == Ways \subseteq Seq(Kind)
BY SixKinds DEF Ways

\* The first part of CountsOnce for the counter at i, without a sequence.
CountedOnce(e, i) ==
    exported[e][Kinds[i]] + (IF i < export[e].at THEN local[e][Kinds[i]] ELSE 0) + tally[Kinds[i]]
      <= bumped[Kinds[i]]

\* The sums of the summaries.
SumsAgree(e) ==
    /\ exported[e]["total"] = summed[e]["5s"] + period[e]
    /\ exported[e]["total"] = summed[e]["1h"] + long[e]

Fine(e) == Unexported(e) /\ (\A i \in 1..6 : CountedOnce(e, i)) /\ SumsAgree(e)

LEMMA CountingIs == Counting <=> StatsShape /\ \A e \in Exporter : Fine(e)
BY SixKinds DEF Counting, CountsOnce, Fine, CountedOnce, SumsAgree

LEMMA CountingInitially == StatsInit => Counting
<1> SUFFICES ASSUME StatsInit PROVE Counting
  OBVIOUS
<1>1. None \in [Kind -> Nat] /\ "total" \in Kind /\ \A k \in Kind : None[k] = 0
  BY SixKinds DEF None
<1>2. StatsShape
  BY <1>1 DEF StatsInit, StatsShape
<1>3. ASSUME NEW e \in Exporter PROVE Fine(e)
  <2>1. /\ tally = None /\ bumped = None /\ local[e] = None /\ exported[e] = None
        /\ export[e] = [at |-> 1, loaded |-> FALSE]
        /\ period[e] = 0 /\ long[e] = 0 /\ summed[e]["5s"] = 0 /\ summed[e]["1h"] = 0
    BY DEF StatsInit
  <2> QED BY <1>1, <2>1, SixKinds DEF Fine, Unexported, CountedOnce, SumsAgree
<1> QED BY <1>2, <1>3, CountingIs

\* An exporter that does nothing while others at most reset counters.
LEMMA OthersFine ==
    ASSUME StatsShape, StatsShape', NEW e \in Exporter, Fine(e),
           UNCHANGED bumped, \A k \in Kind : tally'[k] <= tally[k],
           export'[e] = export[e], local'[e] = local[e], exported'[e] = exported[e],
           period'[e] = period[e], long'[e] = long[e], summed'[e] = summed[e]
    PROVE  Fine(e)'
<1>1. Unexported(e)' /\ SumsAgree(e)'
  BY DEF Fine, Unexported, SumsAgree
<1>2. ASSUME NEW i \in 1..6 PROVE CountedOnce(e, i)'
  <2>1. PICK k \in Kind : k = Kinds[i]
    BY SixKinds
  <2>2. PICK t \in Nat : t = IF i < export[e].at THEN local[e][k] ELSE 0
    BY DEF StatsShape
  <2>3. /\ exported[e][k] \in Nat /\ tally[k] \in Nat /\ tally'[k] \in Nat /\ bumped[k] \in Nat
        /\ tally'[k] <= tally[k]
    BY DEF StatsShape
  <2>4. exported[e][k] + t + tally[k] <= bumped[k]
    BY <2>1, <2>2 DEF Fine, CountedOnce
  <2>5. exported[e][k] + t + tally'[k] <= bumped[k]
    BY <2>3, <2>4
  <2> QED BY <2>1, <2>2, <2>5 DEF CountedOnce
<1> QED BY <1>1, <1>2 DEF Fine

LEMMA BeginRequestKeeps ==
    ASSUME Counting, NEW h \in Handler, BeginRequest(h)
    PROVE  Counting'
<1>1. /\ todo' \in [Handler -> Seq(Kind)]
      /\ UNCHANGED <<tally, bumped, export, local, exported, period, long, summed>>
  BY WaysAreKinds DEF BeginRequest, reportVars, Counting, StatsShape
<1> QED BY <1>1 DEF Counting, StatsShape, Unexported, CountsOnce

LEMMA CountKeeps ==
    ASSUME Counting, NEW h \in Handler, Count(h)
    PROVE  Counting'
<1>1. StatsShape /\ \A e \in Exporter : Fine(e)
  BY CountingIs
<1>2. PICK d \in Seq(Kind) : d = todo[h] /\ d # <<>>
  BY <1>1 DEF Count, StatsShape
<1>3. PICK k \in Kind : k = Head(d)
  BY <1>2
<1>4. PICK x \in Nat, y \in Nat : x = tally[k] + 1 /\ y = bumped[k] + 1
  <2>1. tally[k] \in Nat /\ bumped[k] \in Nat
    BY <1>1 DEF StatsShape
  <2>2. tally[k] + 1 \in Nat /\ bumped[k] + 1 \in Nat
    BY <2>1
  <2> QED BY <2>2, Zenon
<1>5. /\ tally' = [tally EXCEPT ![k] = x] /\ bumped' = [bumped EXCEPT ![k] = y]
      /\ todo' = [todo EXCEPT ![h] = Tail(d)]
      /\ UNCHANGED <<export, local, exported, period, long, summed>>
  BY <1>2, <1>3, <1>4 DEF Count, reportVars
<1>6. StatsShape'
  <2>1. todo' \in [Handler -> Seq(Kind)]
    BY <1>1, <1>2, <1>5 DEF StatsShape
  <2>2. tally' \in [Kind -> Nat] /\ bumped' \in [Kind -> Nat]
    BY <1>1, <1>5 DEF StatsShape
  <2> QED BY <1>1, <1>5, <2>1, <2>2 DEF StatsShape
<1>7. ASSUME NEW j \in Kind
      PROVE  \E n \in {0, 1} : tally'[j] = tally[j] + n /\ bumped'[j] = bumped[j] + n
  <2>1. tally[j] \in Nat /\ bumped[j] \in Nat
    BY <1>1 DEF StatsShape
  <2>2. CASE j = k
    BY <1>1, <1>4, <1>5, <2>2 DEF StatsShape
  <2>3. CASE j # k
    <3>1. tally'[j] = tally[j] /\ bumped'[j] = bumped[j]
      BY <1>1, <1>5, <2>3 DEF StatsShape
    <3> QED BY <2>1, <3>1
  <2> QED BY <2>2, <2>3
<1>8. ASSUME NEW e \in Exporter PROVE Fine(e)'
  <2>1. ASSUME NEW i \in 1..6 PROVE CountedOnce(e, i)'
    <3>1. PICK j \in Kind : j = Kinds[i]
      BY SixKinds
    <3>2. PICK t \in Nat : t = IF i < export[e].at THEN local[e][j] ELSE 0
      BY <1>1 DEF StatsShape
    <3>3. exported[e][j] \in Nat /\ tally[j] \in Nat /\ bumped[j] \in Nat
      BY <1>1 DEF StatsShape
    <3>4. exported[e][j] + t + tally[j] <= bumped[j]
      BY <1>1, <3>1, <3>2 DEF Fine, CountedOnce
    <3>5. exported[e][j] + t + tally'[j] <= bumped'[j]
      <4>1. PICK n \in {0, 1} : tally'[j] = tally[j] + n /\ bumped'[j] = bumped[j] + n
        BY <1>7
      <4>2. PICK w \in Nat, a \in Nat, b \in Nat :
               w = exported[e][j] /\ a = tally[j] /\ b = bumped[j]
        BY <3>3, Zenon
      <4>3. w + t + a <= b
        BY <3>4, <4>2
      <4>4. w + t + (a + n) <= b + n
        BY <4>3
      <4> QED BY <4>1, <4>2, <4>4
    <3> QED BY <1>5, <3>1, <3>2, <3>5 DEF CountedOnce
  <2>2. Unexported(e)'
    <3> SUFFICES ASSUME export[e].loaded
                 PROVE  /\ export[e].at <= 6
                        /\ exported[e][Kinds[export[e].at]] + local[e][Kinds[export[e].at]]
                             <= bumped'[Kinds[export[e].at]]
      BY <1>5 DEF Unexported
    <3>1. export[e].at \in 1..6
      BY <1>1 DEF Fine, Unexported, StatsShape
    <3>2. PICK j \in Kind : j = Kinds[export[e].at]
      BY <3>1, SixKinds
    <3>3. exported[e][j] + local[e][j] <= bumped[j]
      BY <1>1, <3>2 DEF Fine, Unexported
    <3>4. exported[e][j] \in Nat /\ local[e][j] \in Nat /\ bumped[j] \in Nat
      BY <1>1 DEF StatsShape
    <3>5. bumped'[j] = bumped[j] \/ bumped'[j] = bumped[j] + 1
      BY <1>7, <3>4
    <3>6. exported[e][j] + local[e][j] <= bumped'[j]
      BY <3>3, <3>4, <3>5
    <3> QED BY <3>1, <3>2, <3>6
  <2>3. SumsAgree(e)'
    BY <1>1, <1>5 DEF Fine, SumsAgree
  <2> QED BY <2>1, <2>2, <2>3 DEF Fine
<1>9. (\A e \in Exporter : Fine(e))'
  BY <1>8
<1> QED BY <1>6, <1>9, CountingIs, PTL

LEMMA LoadTallyKeeps ==
    ASSUME Counting, NEW x \in Exporter, LoadTally(x)
    PROVE  Counting'
<1>1. StatsShape /\ \A e \in Exporter : Fine(e)
  BY CountingIs
<1>2. PICK a \in 1..6 : a = export[x].at
  <2>1. export[x].at \in 1..7 /\ export[x].at <= 6
    BY <1>1, SixKinds DEF LoadTally, StatsShape
  <2> QED BY <2>1
<1>3. PICK k \in Kind : k = Kinds[a]
  BY SixKinds
<1>4. /\ local' = [local EXCEPT ![x][k] = tally[k]]
      /\ export' = [export EXCEPT ![x].loaded = TRUE]
      /\ UNCHANGED <<todo, tally, bumped, exported, period, long, summed>>
  BY <1>2, <1>3 DEF LoadTally
<1>5. /\ local'[x][k] = tally[k] /\ export'[x].at = a /\ export'[x].loaded
      /\ \A j \in Kind \ {k} : local'[x][j] = local[x][j]
      /\ \A e \in Exporter \ {x} : local'[e] = local[e] /\ export'[e] = export[e]
  BY <1>1, <1>2, <1>4 DEF StatsShape
<1>6. StatsShape'
  <2>1. local' \in [Exporter -> [Kind -> Nat]]
    BY <1>1, <1>4 DEF StatsShape
  <2>2. export' \in [Exporter -> [at : 1..7, loaded : BOOLEAN]]
    BY <1>1, <1>4 DEF StatsShape
  <2> QED BY <1>1, <1>4, <2>1, <2>2 DEF StatsShape
<1>7. ASSUME NEW e \in Exporter \ {x} PROVE Fine(e)'
  <2>1. \A j \in Kind : tally'[j] <= tally[j]
    BY <1>1, <1>4 DEF StatsShape
  <2> QED BY <1>1, <1>4, <1>5, <1>6, <2>1, OthersFine
<1>8. ASSUME NEW i \in 1..6 PROVE CountedOnce(x, i)'
  <2>1. CountedOnce(x, i)
    BY <1>1 DEF Fine
  <2>2. i < a => Kinds[i] \in Kind \ {k}
    BY <1>2, <1>3, SixKinds
  <2> QED BY <1>2, <1>4, <1>5, <2>1, <2>2 DEF CountedOnce
<1>9. Unexported(x)'
  <2>1. CountedOnce(x, a) /\ ~(a < a)
    BY <1>1 DEF Fine
  <2>2. exported[x][k] \in Nat /\ tally[k] \in Nat /\ bumped[k] \in Nat
    BY <1>1 DEF StatsShape
  <2>3. exported[x][k] + 0 + tally[k] <= bumped[k]
    BY <1>2, <1>3, <2>1 DEF CountedOnce
  <2>4. exported[x][k] + tally[k] <= bumped[k]
    BY <2>2, <2>3
  <2> QED BY <1>3, <1>4, <1>5, <2>4 DEF Unexported
<1>10. Fine(x)'
  BY <1>1, <1>4, <1>8, <1>9 DEF Fine, SumsAgree
<1>11. (\A e \in Exporter : Fine(e))'
  BY <1>7, <1>10
<1> QED BY <1>6, <1>11, CountingIs, PTL

LEMMA StoreZeroKeeps ==
    ASSUME Counting, NEW x \in Exporter, StoreZero(x)
    PROVE  Counting'
<1>1. StatsShape /\ \A e \in Exporter : Fine(e)
  BY CountingIs
<1>2. PICK a \in 1..6 : a = export[x].at
  BY <1>1 DEF StoreZero, StatsShape, Fine, Unexported
<1>3. PICK k \in Kind : k = Kinds[a]
  BY SixKinds
<1>4. /\ tally' = [tally EXCEPT ![k] = 0]
      /\ export' = [export EXCEPT ![x] = [at |-> a + 1, loaded |-> FALSE]]
      /\ UNCHANGED <<todo, local, bumped, exported, period, long, summed>>
      /\ exported[x][k] + local[x][k] <= bumped[k]
  BY <1>1, <1>2, <1>3 DEF StoreZero, Fine, Unexported
<1>5. /\ tally'[k] = 0 /\ \A j \in Kind \ {k} : tally'[j] = tally[j]
      /\ export'[x].at = a + 1 /\ ~export'[x].loaded
      /\ \A e \in Exporter \ {x} : export'[e] = export[e]
  BY <1>1, <1>4 DEF StatsShape
<1>6. StatsShape'
  <2>1. a + 1 \in 1..7
    OBVIOUS
  <2>2. export' \in [Exporter -> [at : 1..7, loaded : BOOLEAN]]
    BY <1>1, <1>4, <2>1 DEF StatsShape
  <2>3. tally' \in [Kind -> Nat]
    BY <1>1, <1>4 DEF StatsShape
  <2> QED BY <1>1, <1>4, <2>2, <2>3 DEF StatsShape
<1>7. ASSUME NEW e \in Exporter \ {x} PROVE Fine(e)'
  <2>1. ASSUME NEW j \in Kind PROVE tally'[j] <= tally[j]
    <3>1. tally[j] \in Nat
      BY <1>1 DEF StatsShape
    <3> QED BY <1>5, <3>1
  <2> QED BY <1>1, <1>4, <1>5, <1>6, <2>1, OthersFine
<1>8. ASSUME NEW i \in 1..6 PROVE CountedOnce(x, i)'
  <2>1. CountedOnce(x, i) /\ Kinds[i] \in Kind
    BY <1>1, SixKinds DEF Fine
  <2>2. CASE i = a
    <3>1. exported[x][k] \in Nat /\ local[x][k] \in Nat
      BY <1>1 DEF StatsShape
    <3>2. exported[x][k] + local[x][k] + 0 <= bumped[k] /\ a < a + 1
      BY <1>4, <3>1
    <3> QED BY <1>3, <1>4, <1>5, <2>2, <3>2 DEF CountedOnce
  <2>3. CASE i # a
    <3>1. Kinds[i] # k /\ (i < a + 1 <=> i < a)
      BY <1>2, <1>3, <2>3, SixKinds
    <3> QED BY <1>2, <1>4, <1>5, <2>1, <3>1 DEF CountedOnce
  <2> QED BY <2>2, <2>3
<1>9. Fine(x)'
  BY <1>1, <1>4, <1>5, <1>8 DEF Fine, SumsAgree, Unexported
<1>10. (\A e \in Exporter : Fine(e))'
  BY <1>7, <1>9
<1> QED BY <1>6, <1>10, CountingIs, PTL

LEMMA ExportKeeps ==
    ASSUME Counting, NEW x \in Exporter, Export(x)
    PROVE  Counting'
<1>1. StatsShape /\ \A e \in Exporter : Fine(e)
  BY CountingIs
<1>2. PICK n \in Nat, p \in Nat, g \in Nat :
         n = local[x]["total"] /\ p = period[x] /\ g = long[x]
  <2>1. local[x]["total"] \in Nat /\ period[x] \in Nat /\ long[x] \in Nat
    BY <1>1, SixKinds DEF StatsShape
  <2> QED BY <2>1, Zenon
<1>3. PICK m \in [Kind -> Nat] : m = Metered(x)
  <2>1. \A k \in Kind : exported[x][k] \in Nat /\ local[x][k] \in Nat
    BY <1>1 DEF StatsShape
  <2>2. Metered(x) \in [Kind -> Nat]
    BY <2>1 DEF Metered
  <2> QED BY <2>2, Zenon
<1>4. /\ export[x].at = 7 /\ export' = [export EXCEPT ![x] = [at |-> 1, loaded |-> FALSE]]
      /\ exported' = [exported EXCEPT ![x] = m] /\ local' = [local EXCEPT ![x] = None]
      /\ long' = [long EXCEPT ![x] = g + n]
      /\ UNCHANGED <<todo, tally, bumped>>
  BY <1>2, <1>3, SixKinds DEF Export
<1>5. PICK five \in Nat : five = p + n
  OBVIOUS
<1>6. \/ five = 0 /\ UNCHANGED <<period, summed>>
      \/ /\ period' = [period EXCEPT ![x] = 0]
         /\ summed' = [summed EXCEPT ![x]["5s"] = @ + five]
      \/ period' = [period EXCEPT ![x] = five] /\ summed' = summed
  BY <1>2, <1>5 DEF Export
<1>7. StatsShape'
  <2>1. export' \in [Exporter -> [at : 1..7, loaded : BOOLEAN]]
    BY <1>1, <1>4 DEF StatsShape
  <2>2. exported' \in [Exporter -> [Kind -> Nat]]
    BY <1>1, <1>4 DEF StatsShape
  <2>3. local' \in [Exporter -> [Kind -> Nat]]
    BY <1>1, <1>4 DEF StatsShape, None
  <2>4. long' \in [Exporter -> Nat]
    BY <1>1, <1>4 DEF StatsShape
  <2>5. period' \in [Exporter -> Nat]
    BY <1>1, <1>6 DEF StatsShape
  <2>6. summed' \in [Exporter -> [{"5s", "1h"} -> Nat]]
    <3>1. summed[x]["5s"] \in Nat
      BY <1>1 DEF StatsShape
    <3>2. PICK s \in Nat : s = summed[x]["5s"] + five
      BY <3>1
    <3>3. summed' = summed \/ summed' = [summed EXCEPT ![x] = [summed[x] EXCEPT !["5s"] = s]]
      BY <1>6, <3>2
    <3>4. [summed[x] EXCEPT !["5s"] = s] \in [{"5s", "1h"} -> Nat]
      BY <1>1 DEF StatsShape
    <3> QED BY <1>1, <3>3, <3>4 DEF StatsShape
  <2> QED BY <1>1, <1>4, <2>1, <2>2, <2>3, <2>4, <2>5, <2>6 DEF StatsShape
<1>8. ASSUME NEW e \in Exporter \ {x} PROVE Fine(e)'
  <2>1. \A j \in Kind : tally'[j] <= tally[j]
    BY <1>1, <1>4 DEF StatsShape
  <2>2. /\ export'[e] = export[e] /\ exported'[e] = exported[e]
        /\ local'[e] = local[e] /\ long'[e] = long[e]
    BY <1>1, <1>4 DEF StatsShape
  <2>3. period'[e] = period[e] /\ summed'[e] = summed[e]
    BY <1>1, <1>6 DEF StatsShape
  <2> QED BY <1>1, <1>4, <1>7, <2>1, <2>2, <2>3, OthersFine
<1>9. /\ exported'[x] = m /\ export'[x].at = 1 /\ ~export'[x].loaded /\ long'[x] = g + n
  BY <1>1, <1>4 DEF StatsShape
<1>10. \A k \in Kind : m[k] = exported[x][k] + local[x][k]
  BY <1>3 DEF Metered
<1>11. ASSUME NEW i \in 1..6 PROVE CountedOnce(x, i)'
  <2>1. PICK k \in Kind : k = Kinds[i]
    BY SixKinds
  <2>2. exported[x][k] + local[x][k] + tally[k] <= bumped[k]
    BY <1>1, <1>4, <2>1 DEF Fine, CountedOnce
  <2>3. m[k] \in Nat /\ tally[k] \in Nat /\ m[k] + tally[k] <= bumped[k]
    BY <1>1, <1>10, <2>2 DEF StatsShape
  <2>4. m[k] + 0 + tally[k] <= bumped[k]
    BY <2>3
  <2> QED BY <1>4, <1>9, <2>1, <2>4 DEF CountedOnce
<1>12. SumsAgree(x)'
  <2>1. PICK s \in Nat, h \in Nat : s = summed[x]["5s"] /\ h = summed[x]["1h"]
    BY <1>1 DEF StatsShape
  <2>2. exported[x]["total"] = s + p /\ exported[x]["total"] = h + g
    BY <1>1, <1>2, <2>1 DEF Fine, SumsAgree
  <2>3. exported'[x]["total"] = s + p + n /\ s + p + n = h + g + n
    BY <1>2, <1>9, <1>10, <2>2, SixKinds
  <2>4. summed'[x]["5s"] + period'[x] = s + p + n /\ summed'[x]["1h"] = h
    <3>1. CASE five = 0 /\ UNCHANGED <<period, summed>>
      <4>1. summed'[x]["5s"] = s /\ period'[x] = p /\ summed'[x]["1h"] = h
        BY <1>2, <2>1, <3>1
      <4>2. s + p = s + p + n
        BY <1>5, <3>1
      <4> QED BY <4>1, <4>2
    <3>2. CASE /\ period' = [period EXCEPT ![x] = 0]
               /\ summed' = [summed EXCEPT ![x]["5s"] = @ + five]
      <4>1. period'[x] = 0 /\ summed'[x]["5s"] = s + five /\ summed'[x]["1h"] = h
        BY <1>1, <2>1, <3>2 DEF StatsShape
      <4> QED BY <1>5, <4>1
    <3>3. CASE period' = [period EXCEPT ![x] = five] /\ summed' = summed
      <4>1. period'[x] = five
        BY <1>1, <3>3 DEF StatsShape
      <4> QED BY <1>5, <2>1, <3>3, <4>1
    <3> QED BY <1>6, <3>1, <3>2, <3>3
  <2>5. summed'[x]["1h"] + long'[x] = h + g + n
    BY <1>9, <2>4
  <2> QED BY <2>3, <2>4, <2>5 DEF SumsAgree
<1>13. Fine(x)'
  BY <1>9, <1>11, <1>12 DEF Fine, Unexported
<1>14. (\A e \in Exporter : Fine(e))'
  BY <1>8, <1>13
<1> QED BY <1>7, <1>14, CountingIs, PTL

LEMMA LogLongKeeps ==
    ASSUME Counting, NEW x \in Exporter, LogLong(x)
    PROVE  Counting'
<1>1. StatsShape /\ \A e \in Exporter : Fine(e)
  BY CountingIs
<1>2. PICK n \in Nat : n = long[x]
  BY <1>1 DEF StatsShape
<1>3. /\ summed' = [summed EXCEPT ![x]["1h"] = @ + n] /\ long' = [long EXCEPT ![x] = 0]
      /\ UNCHANGED <<todo, tally, bumped, export, local, exported, period>>
  BY <1>2 DEF LogLong
<1>4. StatsShape'
  <2>1. summed' \in [Exporter -> [{"5s", "1h"} -> Nat]] /\ long' \in [Exporter -> Nat]
    BY <1>1, <1>3 DEF StatsShape
  <2> QED BY <1>1, <1>3, <2>1 DEF StatsShape
<1>5. ASSUME NEW e \in Exporter \ {x} PROVE Fine(e)'
  <2>1. \A j \in Kind : tally'[j] <= tally[j]
    BY <1>1, <1>3 DEF StatsShape
  <2>2. summed'[e] = summed[e] /\ long'[e] = long[e]
    BY <1>1, <1>3 DEF StatsShape
  <2> QED BY <1>1, <1>3, <1>4, <2>1, <2>2, OthersFine
<1>6. /\ long'[x] = 0 /\ summed'[x]["5s"] = summed[x]["5s"]
      /\ summed'[x]["1h"] = summed[x]["1h"] + n
  BY <1>1, <1>3 DEF StatsShape
<1>7. Fine(x)'
  <2>1. SumsAgree(x)'
    <3>1. summed[x]["1h"] \in Nat
      BY <1>1 DEF StatsShape
    <3> QED BY <1>1, <1>2, <1>3, <1>6, <3>1 DEF Fine, SumsAgree
  <2> QED BY <1>1, <1>3, <2>1 DEF Fine, Unexported, CountedOnce
<1>8. (\A e \in Exporter : Fine(e))'
  BY <1>5, <1>7
<1> QED BY <1>4, <1>8, CountingIs, PTL

LEMMA CountingKept == Counting /\ [StatsNext]_statsVars => Counting'
<1> SUFFICES ASSUME Counting, [StatsNext]_statsVars PROVE Counting'
  OBVIOUS
<1>1. CASE UNCHANGED statsVars
  BY <1>1 DEF statsVars, reportVars, Counting, StatsShape, Unexported, CountsOnce
<1>2. CASE StatsNext
  BY <1>2, BeginRequestKeeps, CountKeeps, LoadTallyKeeps, StoreZeroKeeps, ExportKeeps,
     LogLongKeeps DEF StatsNext
<1> QED BY <1>1, <1>2

\* f adds up the first n numbers of a channel.
Sums(ch, n, f) == f = [m \in 0..n |-> IF m = 0 THEN 0 ELSE f[m - 1] + ch[m]]

LEMMA SumsExist ==
    ASSUME NEW ch, NEW n \in Nat
    PROVE  \E f : Sums(ch, n, f)
<1> DEFINE T == {m \in Nat : \E f : Sums(ch, m, f)}
<1>1. 0 \in T
  <2> DEFINE f == [m \in 0..0 |-> 0]
  <2>1. Sums(ch, 0, f)
    BY DEF Sums
  <2> QED BY <2>1
<1>2. ASSUME NEW m \in T PROVE m + 1 \in T
  <2>1. PICK f : Sums(ch, m, f)
    OBVIOUS
  <2> DEFINE h == [k \in 0..(m + 1) |-> IF k = m + 1 THEN f[m] + ch[m + 1] ELSE f[k]]
  <2>2. m \in Nat /\ m + 1 # 0 /\ (m + 1) - 1 = m
    OBVIOUS
  <2>3. h[m] = f[m] /\ h[m + 1] = f[m] + ch[m + 1]
    BY <2>2
  <2>4. ASSUME NEW k \in 0..(m + 1)
        PROVE  h[k] = IF k = 0 THEN 0 ELSE h[k - 1] + ch[k]
    <3>1. CASE k = m + 1
      BY <2>2, <2>3, <3>1
    <3>2. CASE k # m + 1
      <4>1. k \in 0..m /\ h[k] = f[k] /\ (k # 0 => k - 1 \in 0..m /\ h[k - 1] = f[k - 1])
        BY <2>2, <3>2
      <4>2. f[k] = IF k = 0 THEN 0 ELSE f[k - 1] + ch[k]
        BY <2>1, <4>1 DEF Sums
      <4> HIDE DEF h
      <4> QED BY <4>1, <4>2
    <3> QED BY <3>1, <3>2
  <2>5. h = [k \in 0..(m + 1) |-> h[k]]
    OBVIOUS
  <2> HIDE DEF h
  <2>6. Sums(ch, m + 1, h)
    BY <2>4, <2>5 DEF Sums
  <2> QED BY <2>2, <2>6
<1>3. T = Nat
  <2> HIDE DEF T
  <2>1. T \in SUBSET Nat
    BY DEF T
  <2> QED BY <1>1, <1>2, <2>1, AllNaturals
<1> QED BY <1>3

LEMMA PendingIs ==
    ASSUME NEW ch \in Seq(Nat)
    PROVE  \E f : Sums(ch, Len(ch), f) /\ Pending(ch) = f[Len(ch)]
<1> DEFINE f == CHOOSE g : Sums(ch, Len(ch), g)
<1>1. Pending(ch) = f[Len(ch)]
  BY DEF Pending, Sums
<1>2. Sums(ch, Len(ch), f)
  BY SumsExist
<1> QED BY <1>1, <1>2

\* A sum from one number to the next.
LEMMA SumsStep ==
    ASSUME NEW ch, NEW n \in Nat, NEW f, Sums(ch, n, f)
    PROVE  f[0] = 0 /\ \A m \in Nat : m + 1 <= n => f[m + 1] = f[m] + ch[m + 1]
<1>1. f[0] = 0
  BY DEF Sums
<1>2. ASSUME NEW m \in Nat, m + 1 <= n PROVE f[m + 1] = f[m] + ch[m + 1]
  <2>1. m + 1 \in 0..n /\ m + 1 # 0 /\ (m + 1) - 1 = m
    BY <1>2
  <2> QED BY <2>1 DEF Sums
<1> QED BY <1>1, <1>2

LEMMA SumsAreNat ==
    ASSUME NEW ch \in Seq(Nat), NEW f, Sums(ch, Len(ch), f)
    PROVE  \A m \in Nat : m <= Len(ch) => f[m] \in Nat
<1> DEFINE T == {m \in Nat : m <= Len(ch) => f[m] \in Nat}
<1>1. f[0] = 0 /\ \A m \in Nat : m + 1 <= Len(ch) => f[m + 1] = f[m] + ch[m + 1]
  BY SumsStep
<1>2. ASSUME NEW m \in T PROVE m + 1 \in T
  <2>1. m + 1 <= Len(ch) => f[m] \in Nat /\ ch[m + 1] \in Nat
    OBVIOUS
  <2> QED BY <1>1, <2>1
<1>3. T = Nat
  <2> HIDE DEF T
  <2>1. T \in SUBSET Nat /\ 0 \in T
    BY <1>1 DEF T
  <2> QED BY <1>2, <2>1, AllNaturals
<1> QED BY <1>3

LEMMA PendingNat == ASSUME NEW ch \in Seq(Nat) PROVE Pending(ch) \in Nat
BY PendingIs, SumsAreNat

LEMMA PendingNone == Pending(<<>>) = 0
<1>1. <<>> \in Seq(Nat) /\ Len(<<>>) = 0
  OBVIOUS
<1>2. PICK f : Sums(<<>>, 0, f) /\ Pending(<<>>) = f[0]
  BY <1>1, PendingIs
<1> QED BY <1>2, SumsStep

LEMMA PendingMore ==
    ASSUME NEW ch \in Seq(Nat), NEW x \in Nat
    PROVE  Pending(Append(ch, x)) = Pending(ch) + x
<1> DEFINE more == Append(ch, x)
           n == Len(ch)
<1>1. /\ more \in Seq(Nat) /\ Len(more) = n + 1 /\ n \in Nat
      /\ more[n + 1] = x /\ \A i \in 1..n : more[i] = ch[i]
  OBVIOUS
<1> HIDE DEF more
<1>2. PICK f : Sums(ch, n, f) /\ Pending(ch) = f[n]
  BY PendingIs
<1>3. PICK g : Sums(more, n + 1, g) /\ Pending(more) = g[n + 1]
  BY <1>1, PendingIs
<1>4. f[0] = 0 /\ \A m \in Nat : m + 1 <= n => f[m + 1] = f[m] + ch[m + 1]
  BY <1>1, <1>2, SumsStep
<1>5. n + 1 \in Nat
  BY <1>1
<1>6. g[0] = 0 /\ \A m \in Nat : m + 1 <= n + 1 => g[m + 1] = g[m] + more[m + 1]
  BY <1>3, <1>5, SumsStep
<1> DEFINE T == {m \in Nat : m <= n => g[m] = f[m]}
<1> HIDE DEF n
<1>7. ASSUME NEW m \in T PROVE m + 1 \in T
  BY <1>1, <1>4, <1>6
<1>8. T = Nat
  <2> HIDE DEF T
  <2>1. T \in SUBSET Nat /\ 0 \in T
    BY <1>4, <1>6 DEF T
  <2> QED BY <1>7, <2>1, AllNaturals
<1>9. g[n] = f[n]
  BY <1>1, <1>8
<1>10. g[n + 1] = g[n] + x
  BY <1>1, <1>6
<1> QED BY <1>2, <1>3, <1>9, <1>10 DEF more

LEMMA PendingFewer ==
    ASSUME NEW ch \in Seq(Nat), ch # <<>>
    PROVE  /\ Tail(ch) \in Seq(Nat) /\ Head(ch) \in Nat
           /\ Pending(ch) = Head(ch) + Pending(Tail(ch))
<1> DEFINE rest == Tail(ch)
           n == Len(rest)
           x == Head(ch)
<1>1. /\ rest \in Seq(Nat) /\ Len(ch) = n + 1 /\ n \in Nat /\ x \in Nat
      /\ ch[1] = x /\ \A i \in 1..n : rest[i] = ch[i + 1]
  OBVIOUS
<1> HIDE DEF rest, x
<1>2. PICK f : Sums(ch, n + 1, f) /\ Pending(ch) = f[n + 1]
  BY <1>1, PendingIs
<1>3. PICK g : Sums(rest, n, g) /\ Pending(rest) = g[n]
  BY <1>1, PendingIs
<1>4. n + 1 \in Nat
  BY <1>1
<1>5. f[0] = 0 /\ \A m \in Nat : m + 1 <= n + 1 => f[m + 1] = f[m] + ch[m + 1]
  BY <1>2, <1>4, SumsStep
<1>6. g[0] = 0 /\ \A m \in Nat : m + 1 <= n => g[m + 1] = g[m] + rest[m + 1]
  BY <1>1, <1>3, SumsStep
<1>7. \A m \in Nat : m <= n => g[m] \in Nat
  BY <1>1, <1>3, SumsAreNat
<1> DEFINE T == {m \in Nat : m <= n => f[m + 1] = x + g[m]}
<1> HIDE DEF n
<1>8. ASSUME NEW m \in T PROVE m + 1 \in T
  <2> SUFFICES ASSUME m + 1 <= n PROVE f[(m + 1) + 1] = x + g[m + 1]
    OBVIOUS
  <2>1. m \in Nat /\ m <= n /\ f[m + 1] = x + g[m] /\ g[m] \in Nat
    BY <1>1, <1>7
  <2>2. rest[m + 1] = ch[(m + 1) + 1] /\ rest[m + 1] \in Nat
    <3>1. m + 1 \in 1..n
      BY <1>1, <2>1
    <3>2. rest[m + 1] \in Nat
      BY <1>1, <3>1, ElementIn DEF n
    <3> QED BY <1>1, <3>1, <3>2
  <2>3. f[(m + 1) + 1] = f[m + 1] + ch[(m + 1) + 1]
    BY <1>1, <1>5, <2>1
  <2>4. g[m + 1] = g[m] + rest[m + 1]
    BY <1>6, <2>1
  <2> QED BY <1>1, <2>1, <2>2, <2>3, <2>4
<1>9. f[1] = x + g[0]
  <2>1. 0 + 1 = 1 /\ 0 + 1 <= n + 1
    BY <1>1
  <2> QED BY <1>1, <1>5, <1>6, <2>1
<1>10. T = Nat
  <2> HIDE DEF T
  <2>1. T \in SUBSET Nat /\ 0 \in T
    BY <1>9 DEF T
  <2> QED BY <1>8, <2>1, AllNaturals
<1>11. f[n + 1] = x + g[n]
  <2> HIDE DEF T
  <2>1. n \in T
    BY <1>1, <1>10
  <2> QED BY <1>1, <2>1 DEF T
<1> QED BY <1>1, <1>2, <1>3, <1>11 DEF rest, x

\* What was freed has been told, is held by the logger, or on its way.
Telling ==
    /\ stats \in Seq(Nat)
    /\ evicted \in [freed : Nat, held : Nat, told : Nat]
    /\ evicted.freed = evicted.told + evicted.held + Pending(stats)

LEMMA TellingKept == Telling /\ [EvictionsNext]_evictionVars => Telling'
<1> SUFFICES ASSUME Telling, [EvictionsNext]_evictionVars PROVE Telling'
  OBVIOUS
<1>1. PICK a \in Nat, h \in Nat, t \in Nat : evicted = [freed |-> a, held |-> h, told |-> t]
  BY DEF Telling
<1>2. PICK w \in Nat : w = Pending(stats) /\ a = t + h + w
  BY <1>1, PendingNat DEF Telling
<1>3. stats \in Seq(Nat)
  BY DEF Telling
<1>4. ASSUME NEW b \in Nat, NEW g \in Nat, NEW s \in Nat, NEW v \in Nat,
             evicted' = [freed |-> b, held |-> g, told |-> s], b = s + g + v,
             stats' \in Seq(Nat), Pending(stats') = v
      PROVE  Telling'
  BY <1>4 DEF Telling
<1>5. CASE SendStat
  <2>1. PICK n \in 1..(MaxFreed - evicted.freed) :
            stats' = Append(stats, n) /\ evicted' = [evicted EXCEPT !.freed = @ + n]
    BY <1>5 DEF SendStat
  <2>2. n \in Nat
    BY StatsAssumption
  <2>3. Pending(stats') = w + n /\ stats' \in Seq(Nat)
    BY <1>2, <1>3, <2>1, <2>2, PendingMore
  <2>4. evicted' = [freed |-> a + n, held |-> h, told |-> t]
    BY <1>1, <2>1
  <2> QED BY <1>2, <1>4, <2>2, <2>3, <2>4
<1>6. CASE TakeStat
  <2>1. /\ stats # <<>> /\ stats' = Tail(stats)
        /\ evicted' = [evicted EXCEPT !.held = @ + Head(stats)]
    BY <1>6 DEF TakeStat
  <2>2. /\ stats' \in Seq(Nat) /\ Head(stats) \in Nat
        /\ Pending(stats) = Head(stats) + Pending(stats')
    BY <1>3, <2>1, PendingFewer
  <2>3. PICK x \in Nat, v \in Nat : x = Head(stats) /\ v = Pending(stats')
    BY <2>2, PendingNat
  <2>4. evicted' = [freed |-> a, held |-> h + x, told |-> t]
    BY <1>1, <2>1, <2>3
  <2>5. w = x + v
    BY <1>2, <2>2, <2>3
  <2>6. h + x \in Nat /\ a = t + (h + x) + v
    BY <1>2, <2>5
  <2> QED BY <1>4, <2>2, <2>3, <2>4, <2>6
<1>7. CASE TellEvictions
  <2>1. /\ evicted' = [evicted EXCEPT !.told = @ + evicted.held, !.held = 0]
        /\ stats' = stats
    BY <1>7 DEF TellEvictions
  <2>2. evicted' = [freed |-> a, held |-> 0, told |-> t + h]
    BY <1>1, <2>1
  <2>3. t + h \in Nat /\ a = (t + h) + 0 + w
    BY <1>2
  <2> QED BY <1>2, <1>3, <1>4, <2>1, <2>2, <2>3
<1>8. CASE UNCHANGED evictionVars
  BY <1>8 DEF evictionVars, Telling
<1> QED BY <1>5, <1>6, <1>7, <1>8 DEF EvictionsNext

LEMMA TellingInitially == StatsInit => Telling
BY PendingNone DEF StatsInit, Telling

\* Whatever handlers count, and whatever other exporters reset, between the load
\* and the reset of a counter: what is counted may be lost, or be reported by two
\* exporters, but no exporter reports a request twice, the sums of its summaries
\* agree with what it exported, and each eviction is told once (api/cache.go: the
\* metrics' goroutine of each controller; evictor.go: the logger).
THEOREM NoExporterRepeatsHolds == StatsSpec => []NoExporterRepeats
<1> DEFINE SInv == Counting /\ Telling
<1>1. StatsInit => SInv
  BY CountingInitially, TellingInitially
<1>2. SInv /\ [ReportsNext]_<<statsVars, evictionVars>> => SInv'
  <2> SUFFICES ASSUME SInv, [ReportsNext]_<<statsVars, evictionVars>> PROVE SInv'
    OBVIOUS
  <2>1. [StatsNext]_statsVars /\ [EvictionsNext]_evictionVars
    BY DEF ReportsNext
  <2> QED BY <2>1, CountingKept, TellingKept
<1>3. SInv => NoExporterRepeats
  BY DEF Counting, Telling, NoExporterRepeats
<1> QED BY <1>1, <1>2, <1>3, PTL DEF StatsSpec

\* The bounds of what the exporter, the evictor and its channel count.
Bounded ==
    /\ begun \in 0..MaxRequests /\ second \in [Exporter -> 0..LogEvery]
    /\ stats \in Seq(1..MaxFreed) /\ Len(stats) <= StatCap
    /\ evicted.freed <= MaxFreed

StatsInv == Counting /\ Telling /\ Bounded

LEMMA StatsTyped == StatsInv => StatsTypeOK
<1> SUFFICES ASSUME StatsInv PROVE StatsTypeOK
  OBVIOUS
<1>1. Len(Kinds) + 1 = 7
  BY SixKinds
<1>2. evicted \in [freed : 0..MaxFreed, held : Nat, told : Nat]
  BY StatsAssumption DEF StatsInv, Telling, Bounded
<1> QED BY <1>1, <1>2 DEF StatsInv, Counting, StatsShape, Bounded, StatsTypeOK

LEMMA StatsTypedInitially == StatsInit => StatsInv
<1> SUFFICES ASSUME StatsInit PROVE StatsInv
  OBVIOUS
<1>1. /\ begun = 0 /\ second = [e \in Exporter |-> LogEvery] /\ stats = <<>>
      /\ evicted = [freed |-> 0, held |-> 0, told |-> 0]
  BY DEF StatsInit
<1>2. Bounded
  BY <1>1, StatsAssumption DEF Bounded
<1> QED BY <1>2, CountingInitially, TellingInitially DEF StatsInv

LEMMA BoundsKept ==
    ASSUME StatsInv, [StatsNext]_statsVars, [EvictionsNext]_evictionVars
    PROVE  Bounded'
<1>1. begun' \in 0..MaxRequests
  <2>1. begun \in 0..MaxRequests
    BY DEF StatsInv, Bounded
  <2>2. begun' = begun \/ (begun < MaxRequests /\ begun' = begun + 1)
    BY DEF StatsNext, statsVars, BeginRequest, Count, LoadTally, StoreZero, Export, LogLong
  <2> QED BY <2>1, <2>2, StatsAssumption
<1>2. second' \in [Exporter -> 0..LogEvery]
  <2>1. second \in [Exporter -> 0..LogEvery]
    BY DEF StatsInv, Bounded
  <2>2. \/ second' = second
        \/ \E e \in Exporter :
             \/ second' = [second EXCEPT ![e] = 1]
             \/ second[e] # LogEvery /\ second' = [second EXCEPT ![e] = second[e] + 1]
    BY DEF StatsNext, statsVars, reportVars, BeginRequest, Count, LoadTally, StoreZero, Export, LogLong
  <2>3. ASSUME NEW e \in Exporter, second' = [second EXCEPT ![e] = 1]
        PROVE  second' \in [Exporter -> 0..LogEvery]
    BY <2>1, <2>3, StatsAssumption
  <2>4. ASSUME NEW e \in Exporter, second[e] # LogEvery,
               second' = [second EXCEPT ![e] = second[e] + 1]
        PROVE  second' \in [Exporter -> 0..LogEvery]
    <3>1. second[e] \in 0..LogEvery
      BY <2>1
    <3>2. second[e] + 1 \in 0..LogEvery
      BY <2>4, <3>1, StatsAssumption
    <3> QED BY <2>1, <2>4, <3>2
  <2> QED BY <2>1, <2>2, <2>3, <2>4
<1>3. /\ stats \in Seq(1..MaxFreed) /\ Len(stats) <= StatCap /\ Len(stats) \in Nat
      /\ evicted \in [freed : Nat, held : Nat, told : Nat] /\ evicted.freed <= MaxFreed
  BY DEF StatsInv, Bounded, Telling
<1>4. /\ stats' \in Seq(1..MaxFreed) /\ Len(stats') <= StatCap
      /\ evicted'.freed <= MaxFreed
  <2>1. CASE SendStat
    <3>1. PICK n \in 1..(MaxFreed - evicted.freed) :
            stats' = Append(stats, n) /\ evicted' = [evicted EXCEPT !.freed = @ + n]
      BY <2>1 DEF SendStat
    <3>2. n \in 1..MaxFreed /\ evicted.freed + n <= MaxFreed
      BY <1>3, StatsAssumption
    <3>3. stats' \in Seq(1..MaxFreed) /\ Len(stats') = Len(stats) + 1
      BY <1>3, <3>1, <3>2
    <3>4. Len(stats') <= StatCap
      BY <1>3, <2>1, <3>3, StatsAssumption DEF SendStat
    <3>5. evicted'.freed = evicted.freed + n
      BY <1>3, <3>1
    <3> QED BY <3>2, <3>3, <3>4, <3>5
  <2>2. CASE TakeStat
    <3>1. stats # <<>> /\ stats' = Tail(stats) /\ evicted'.freed = evicted.freed
      BY <1>3, <2>2 DEF TakeStat
    <3>2. stats' \in Seq(1..MaxFreed) /\ Len(stats') = Len(stats) - 1
      BY <1>3, <3>1
    <3> QED BY <1>3, <3>1, <3>2, StatsAssumption
  <2>3. CASE TellEvictions
    BY <1>3, <2>3 DEF TellEvictions
  <2>4. CASE UNCHANGED evictionVars
    BY <1>3, <2>4 DEF evictionVars
  <2> QED BY <2>1, <2>2, <2>3, <2>4 DEF EvictionsNext
<1> QED BY <1>1, <1>2, <1>4 DEF Bounded

LEMMA StatsTypeKept ==
    ASSUME StatsInv, [StatsNext]_statsVars, [EvictionsNext]_evictionVars
    PROVE  StatsInv'
BY BoundsKept, CountingKept, TellingKept DEF StatsInv

-----------------------------------------------------------------------------
(* Start: the application that serves has what was asked for.               *)

LoadItem == Version \cup {"dump", "mocks"}

StartShape ==
    /\ content \in [File -> Content] /\ wanted \in File \cup {NoFile}
    /\ apps \in Seq(Config) /\ loaded \in Seq(SUBSET LoadItem) /\ Len(loaded) = Len(apps)
    /\ app = Len(apps)

\* From the menu on there is an application.  Until the data is loaded all
\* storages are empty, and only the last application's is ever filled.
Filled ==
    /\ stage \in {"menu", "files", "retry", "data", "save", "serving", "stopped"} => app > 0
    /\ stage \in {"config", "build", "menu", "files", "retry", "data"} =>
           \A a \in 1..app : loaded[a] = {}
    /\ \A a \in 1..app : a # app => loaded[a] = {}

\* What is built or will be served is what was chosen last.
AsChosen ==
    /\ stage = "build" => wanted \in File /\ Loads(wanted) /\ choice = wanted
    /\ stage = "data" => choice \in File /\ apps[app] = content[choice]
    /\ stage = "save" =>
           /\ choice \in Version \cup {"nothing", "mocks"}
           /\ loaded[app] \subseteq (IF choice = "nothing" THEN {} ELSE {choice})
    /\ ServesWhatItLoaded

StartInv == StartShape /\ Filled /\ AsChosen

LEMMA StartInitially == StartInit => StartInv
BY DEF StartInit, StartInv, StartShape, Filled, AsChosen, ServesWhatItLoaded

\* What the application with the data in choice may have.
Served ==
    CASE choice \in Version -> {choice}
      [] choice = "nothing" -> {}
      [] choice = "mocks"   -> {"mocks"}
      [] choice \in File    -> {s \in {"dump", "mocks"} :
                                 /\ apps[app].enabled
                                 /\ s = "dump" => apps[app].dump
                                 /\ s = "mocks" => apps[app].mock}

\* The choices are apart, so that the case is no choice.
LEMMA ServedIs ==
    /\ choice \in Version \cup {"nothing", "mocks"} =>
         Served = IF choice = "nothing" THEN {} ELSE {choice}
    /\ choice \in File =>
         Served = {s \in {"dump", "mocks"} : /\ apps[app].enabled
                                             /\ s = "dump" => apps[app].dump
                                             /\ s = "mocks" => apps[app].mock}
<1>1. CASE choice \in Version
  BY <1>1, StartAssumption DEF Served
<1>2. CASE choice = "nothing"
  BY <1>2, StartAssumption DEF Served
<1>3. CASE choice = "mocks"
  BY <1>3, StartAssumption DEF Served
<1>4. CASE choice \in File
  BY <1>4, StartAssumption DEF Served
<1> QED BY <1>1, <1>2, <1>3, <1>4, StartAssumption

\* A build adds an application, which then is the one that c points to, or none.
LEMMA Built ==
    ASSUME StartInv, stage = "build", NEW S, NEW onError,
           S \subseteq {"menu", "data"}, onError \in {"ended", "retry"},
           onError = "retry" => apps # <<>>,
           Build(S, onError)
    PROVE  StartInv'
<1>1. /\ wanted \in File /\ choice = wanted /\ content[wanted] \in Config
      /\ UNCHANGED <<content, wanted, choice>>
  BY StartAssumption DEF StartInv, StartShape, AsChosen, Loads, Build
<1>2. CASE UNCHANGED <<apps, app, loaded>> /\ stage' \in {"panicked", onError}
  <2>1. apps # <<>> => app > 0
    BY DEF StartInv, StartShape
  <2> QED
    BY <1>1, <1>2, <2>1 DEF StartInv, StartShape, Filled, AsChosen, ServesWhatItLoaded
<1>3. CASE /\ apps' = Append(apps, content[wanted]) /\ loaded' = Append(loaded, {})
           /\ app' = Len(apps) + 1
           /\ stage' \in S
  <2>1. /\ apps' \in Seq(Config) /\ loaded' \in Seq(SUBSET LoadItem)
        /\ Len(apps') = Len(apps) + 1 /\ Len(loaded') = Len(loaded) + 1
        /\ apps'[app'] = content[wanted]
        /\ \A a \in 1..app' : loaded'[a] = IF a = app' THEN {} ELSE loaded[a]
    BY <1>1, <1>3 DEF StartInv, StartShape
  <2>2. app \in Nat /\ app' = app + 1 /\ \A a \in 1..app : loaded[a] = {}
    BY <1>3 DEF StartInv, StartShape, Filled
  <2>3. \A a \in 1..app' : loaded'[a] = {}
    BY <2>1, <2>2
  <2> QED
    BY <1>1, <1>3, <2>1, <2>2, <2>3
    DEF StartInv, StartShape, Filled, AsChosen, ServesWhatItLoaded
<1> QED BY <1>2, <1>3 DEF Build, Goto

\* Only the application that c points to gets data or another setting.
LEMMA StartKept == StartInv /\ [StartNext]_startVars => StartInv'
<1> SUFFICES ASSUME StartInv, [StartNext]_startVars PROVE StartInv'
  OBVIOUS
<1>1. /\ content \in [File -> Content] /\ wanted \in File \cup {NoFile}
      /\ apps \in Seq(Config) /\ loaded \in Seq(SUBSET LoadItem) /\ Len(loaded) = Len(apps)
      /\ app = Len(apps) /\ app \in Nat
  BY DEF StartInv, StartShape
<1>2. ASSUME NEW f \in File, Loads(f)
      PROVE  content[f] \in Config
  BY <1>1, <1>2, StartAssumption DEF Loads
<1>3. CASE LoadCfg
  <2>1. stage' \in {"build", "ended"} /\ stage = "config"
    BY <1>3 DEF LoadCfg, Goto
  <2>2. stage' = "build" => wanted' \in File /\ Loads(wanted') /\ choice' = wanted'
    BY <1>1, <1>3, StartAssumption DEF LoadCfg, Goto
  <2>3. stage' = "ended" => UNCHANGED <<wanted, choice>>
    BY <1>1, <1>3, StartAssumption DEF LoadCfg, Goto
  <2> QED
    BY <1>1, <1>3, <2>1, <2>2, <2>3
    DEF LoadCfg, StartInv, StartShape, Filled, AsChosen, ServesWhatItLoaded, Loads
<1>4. CASE BuildFirst \/ Rebuild
  BY <1>4, Built DEF BuildFirst, Rebuild
\* The steps of the menu that load nothing.
<1>5. CASE LeaveMenu \/ ChooseFiles \/ BackToMenu \/ AskRetry \/ Stop \/ UNCHANGED startVars
  <2>1. UNCHANGED <<content, wanted, apps, app, loaded, gauges, choice>>
    BY <1>5 DEF LeaveMenu, ChooseFiles, BackToMenu, AskRetry, Stop, startVars
  <2>2. \/ stage \in {"menu", "files", "retry"} /\ stage' \in {"ended", "files", "menu"}
        \/ stage = "serving" /\ stage' = "stopped"
        \/ stage' = stage
    BY <1>5 DEF LeaveMenu, ChooseFiles, BackToMenu, AskRetry, Stop, Goto, startVars
  <2> QED
    BY <2>1, <2>2 DEF StartInv, StartShape, Filled, AsChosen, ServesWhatItLoaded, Loads
<1>6. ASSUME NEW f \in File, ChooseFile(f)
      PROVE  StartInv'
  BY <1>1, <1>6 DEF ChooseFile, Goto, Chosen, StartInv, StartShape, Filled, AsChosen,
                    ServesWhatItLoaded, Loads
<1>7. ASSUME NEW c \in Content, EditFile(c)
      PROVE  StartInv'
  <2>1. PICK f \in File : f = IF content["local"] # Missing THEN "local" ELSE "default"
    BY StartAssumption
  <2>2. /\ stage = "menu" /\ c # Missing
        /\ IF content[f] = Missing THEN UNCHANGED content
                                  ELSE content' = [content EXCEPT ![f] = c]
        /\ \/ /\ content[f] # Missing /\ c # Broken
              /\ stage' = "build" /\ wanted' = f /\ choice' = f
           \/ stage' = "ended" /\ UNCHANGED <<wanted, choice>>
        /\ UNCHANGED <<apps, app, loaded, gauges>>
    BY <1>7, <2>1 DEF EditFile, Goto, Chosen
  <2>3. content' \in [File -> Content] /\ (stage' = "build" => content'[f] = c)
    BY <1>1, <2>2
  <2> QED
    BY <1>1, <2>2, <2>3 DEF StartInv, StartShape, Filled, AsChosen, ServesWhatItLoaded, Loads
<1>8. ASSUME NEW S, stage = "menu", stage' = "save", S \subseteq LoadItem,
             choice' \in Version \cup {"nothing", "mocks"},
             S \subseteq (IF choice' = "nothing" THEN {} ELSE {choice'}),
             loaded' = [loaded EXCEPT ![app] = @ \cup S],
             UNCHANGED <<content, wanted, apps, app, gauges>>
      PROVE  StartInv'
  <2>1. app \in 1..Len(loaded) /\ \A a \in 1..app : loaded[a] = {}
    BY <1>1, <1>8 DEF StartInv, Filled
  <2>2. /\ loaded' \in Seq(SUBSET LoadItem) /\ Len(loaded') = Len(loaded)
        /\ loaded'[app] = S /\ \A a \in 1..app : a # app => loaded'[a] = {}
    BY <1>1, <1>8, <2>1
  <2> QED
    BY <1>1, <1>8, <2>1, <2>2 DEF StartInv, StartShape, Filled, AsChosen, ServesWhatItLoaded
<1>9. ASSUME NEW v \in Version, ChooseVersion(v)
      PROVE  StartInv'
  <2>1. CASE stage' = "save"
    <3>1. /\ stage = "menu" /\ choice' = v
          /\ loaded' = [loaded EXCEPT ![app] = @ \cup {v}]
          /\ UNCHANGED <<content, wanted, apps, app, gauges>>
      BY <1>9, <2>1 DEF ChooseVersion, Goto, Chosen
    <3>2. {v} \subseteq LoadItem /\ v # "nothing"
      BY StartAssumption DEF LoadItem
    <3>3. {v} \subseteq (IF choice' = "nothing" THEN {} ELSE {choice'})
      BY <3>1, <3>2
    <3> QED BY <1>8, <2>1, <3>1, <3>2, <3>3
  <2>2. CASE stage' = "ended"
    BY <1>1, <1>9, <2>2
    DEF ChooseVersion, Goto, StartInv, StartShape, Filled, AsChosen, ServesWhatItLoaded
  <2> QED BY <1>9, <2>1, <2>2 DEF ChooseVersion, Goto
<1>10. CASE ChooseNothing
  <2>1. app \in DOMAIN loaded
    BY <1>1, <1>10 DEF ChooseNothing, StartInv, Filled
  <2>2. loaded' = [loaded EXCEPT ![app] = @ \cup {}]
    BY <1>1, <1>10, <2>1 DEF ChooseNothing
  <2>3. {} \subseteq (IF choice' = "nothing" THEN {} ELSE {choice'}) /\ {} \subseteq LoadItem
    OBVIOUS
  <2>4. /\ stage = "menu" /\ stage' = "save" /\ choice' = "nothing"
        /\ UNCHANGED <<content, wanted, apps, app, gauges>>
    BY <1>10 DEF ChooseNothing, Goto, Chosen
  <2> DEFINE none == {}
  <2>5. /\ none \subseteq (IF choice' = "nothing" THEN {} ELSE {choice'}) /\ none \subseteq LoadItem
        /\ choice' \in Version \cup {"nothing", "mocks"}
        /\ loaded' = [loaded EXCEPT ![app] = @ \cup none]
    BY <2>2, <2>3, <2>4
  <2> HIDE DEF none
  <2> QED BY <1>8, <2>4, <2>5
<1>11. CASE ChooseMocks
  BY <1>8, <1>11 DEF ChooseMocks, Goto, Chosen, LoadItem
<1>12. CASE LoadFromConfig
  <2>1. /\ stage = "data" /\ stage' = "serving"
        /\ UNCHANGED <<content, wanted, apps, app, gauges, choice>>
        /\ choice \in File /\ apps[app] = content[choice]
        /\ app \in 1..Len(loaded) /\ \A a \in 1..app : loaded[a] = {}
    BY <1>1, <1>12 DEF LoadFromConfig, Goto, StartInv, AsChosen, Filled
  <2>2. PICK S : /\ S \subseteq {s \in {"dump", "mocks"} :
                                   /\ apps[app].enabled
                                   /\ s = "dump" => apps[app].dump
                                   /\ s = "mocks" => apps[app].mock}
                 /\ loaded' = [loaded EXCEPT ![app] = S]
    <3>1. PICK dump \in SUBSET {"dump"} :
            /\ dump # {} => apps[app].dump
            /\ loaded' = [loaded EXCEPT ![app] =
                 IF apps[app].enabled
                 THEN @ \cup dump \cup (IF apps[app].mock THEN {"mocks"} ELSE {}) ELSE @]
      BY <1>12 DEF LoadFromConfig
    <3> QED BY <1>1, <2>1, <3>1
  <2>3. /\ loaded' \in Seq(SUBSET LoadItem) /\ Len(loaded') = Len(loaded)
        /\ loaded'[app] = S /\ \A a \in 1..app : a # app => loaded'[a] = {}
    BY <1>1, <2>1, <2>2 DEF LoadItem
  <2>4. S \subseteq Served'
    BY <2>1, <2>2, ServedIs, StartAssumption DEF Served
  <2>5. ServesWhatItLoaded'
    BY <1>1, <2>1, <2>3, <2>4 DEF ServesWhatItLoaded, Served
  <2> QED
    BY <1>1, <2>1, <2>3, <2>5 DEF StartInv, StartShape, Filled, AsChosen
<1>13. CASE AskSave
  <2>1. /\ stage = "save" /\ stage' = "serving"
        /\ UNCHANGED <<content, wanted, app, loaded, gauges, choice>>
        /\ choice \in Version \cup {"nothing", "mocks"} /\ choice \notin File
        /\ loaded[app] \subseteq (IF choice = "nothing" THEN {} ELSE {choice})
        /\ app \in 1..Len(apps)
    BY <1>1, <1>13, StartAssumption DEF AskSave, Goto, StartInv, AsChosen, Filled
  <2>2. apps' \in Seq(Config) /\ Len(apps') = Len(apps)
    <3>1. [apps[app] EXCEPT !.dump = TRUE] \in Config
      <4>1. apps[app] \in Config
        BY <1>1, <2>1
      <4> QED BY <4>1 DEF Config
    <3>2. apps' = apps \/ apps' = [apps EXCEPT ![app] = [apps[app] EXCEPT !.dump = TRUE]]
      BY <1>13 DEF AskSave
    <3>3. PICK c \in Config : c = [apps[app] EXCEPT !.dump = TRUE]
      BY <3>1
    <3> HIDE DEF Config
    <3>4. [apps EXCEPT ![app] = c] \in Seq(Config) /\ Len([apps EXCEPT ![app] = c]) = Len(apps)
      <4>1. apps \in Seq(Config) /\ app \in 1..Len(apps)
        BY <1>1, <2>1
      <4> QED BY <4>1
    <3> QED BY <1>1, <3>2, <3>3, <3>4
  <2>3. Served' = IF choice = "nothing" THEN {} ELSE {choice}
    BY <2>1, StartAssumption DEF Served
  <2>4. ServesWhatItLoaded'
    <3>1. \A a \in 1..app : a # app => loaded[a] = {}
      BY DEF StartInv, Filled
    <3> QED BY <1>1, <2>1, <2>2, <2>3, <3>1 DEF ServesWhatItLoaded, Served
  <2> QED
    BY <1>1, <2>1, <2>2, <2>4 DEF StartInv, StartShape, Filled, AsChosen
<1> QED
  BY <1>3, <1>4, <1>5, <1>6, <1>7, <1>9, <1>10, <1>11, <1>12, <1>13 DEF StartNext

\* Whatever files there are, whichever the operator tries, edits and loads, and
\* however many applications are built and thrown away meanwhile: the one that
\* serves is the last one, with the data that was chosen last (main.go, ui.go).
THEOREM ServesWhatItLoadedHolds == StartSpec => []ServesWhatItLoaded
<1>1. StartInv => ServesWhatItLoaded
  BY DEF StartInv, AsChosen
<1> QED BY StartInitially, StartKept, <1>1, PTL DEF StartSpec

\* What was made of the backends after some of them.
Making == [outcome : {"ok", "error", "panic"}, made : SUBSET BackendId]

Backend == [id : BackendId, enabled : BOOLEAN, rate : Nat]

LEMMA AddBackendType ==
    ASSUME NEW r \in Making, NEW b \in Backend
    PROVE  AddBackend(r, b) \in Making
<1>1. b.id \in BackendId
  BY DEF Backend
<1> QED BY <1>1 DEF Making, AddBackend, newBackendMetrics

Adds(bs, f) ==
    f = [n \in 0..Len(bs) |->
           IF n = 0 THEN [outcome |-> "ok", made |-> {}] ELSE AddBackend(f[n - 1], bs[n])]

LEMMA AddsExists ==
    ASSUME NEW bs \in Seq(Backend)
    PROVE  \E f \in [0..Len(bs) -> Making] : Adds(bs, f)
<1> DEFINE N == Len(bs)
           nothing == [outcome |-> "ok", made |-> {}]
           step == [x \in Making \X (1..N) |-> AddBackend(x[1], bs[x[2]])]
<1>1. N \in Nat /\ nothing \in Making
  BY DEF Making
<1>2. step \in [Making \X (1..N) -> Making]
  <2>1. ASSUME NEW x \in Making \X (1..N) PROVE AddBackend(x[1], bs[x[2]]) \in Making
    <3>1. x[1] \in Making /\ bs[x[2]] \in Backend
      BY ElementIn
    <3> QED BY <3>1, AddBackendType
  <2> QED BY <2>1
<1> HIDE DEF step, N, nothing
<1>3. PICK g \in [0..N -> Making] : g[0] = nothing /\ \A n \in 1..N : g[n] = step[<<g[n - 1], n>>]
  <2>1. Recurs(N, Making, nothing, step)
    BY <1>1, <1>2, Recursion
  <2> QED BY <2>1 DEF Recurs
<1>4. ASSUME NEW n \in 1..N PROVE g[n] = AddBackend(g[n - 1], bs[n])
  <2>1. n - 1 \in 0..N
    BY <1>1
  <2>2. <<g[n - 1], n>> \in Making \X (1..N)
    BY <2>1
  <2>3. g[n] = step[<<g[n - 1], n>>]
    BY <1>3
  <2> QED BY <2>2, <2>3 DEF step
<1>5. ASSUME NEW n \in 0..N
      PROVE  g[n] = IF n = 0 THEN nothing ELSE AddBackend(g[n - 1], bs[n])
  <2>1. n = 0 \/ n \in 1..N
    BY <1>1
  <2> QED BY <1>3, <1>4, <2>1
<1>6. g = [n \in 0..N |-> g[n]]
  OBVIOUS
<1> QED BY <1>5, <1>6 DEF Adds, N, nothing

LEMMA InitBackendsType ==
    ASSUME NEW cfg \in Config
    PROVE  InitBackends(cfg).made \subseteq BackendId
<1> DEFINE bs == cfg.backends
           f == CHOOSE g : Adds(bs, g)
<1>1. bs \in Seq(Backend)
  BY DEF Config, Backend
<1>2. \/ InitBackends(cfg).made = {}
      \/ InitBackends(cfg) = f[Len(bs)]
  BY DEF InitBackends, Adds
<1>3. PICK g \in [0..Len(bs) -> Making] : Adds(bs, g)
  BY <1>1, AddsExists
<1>4. Adds(bs, f)
  BY <1>3
<1> HIDE DEF f, bs
<1> DEFINE T == {n \in 0..Len(bs) : f[n] \in Making}
<1>5. Len(bs) \in Nat
  BY <1>1
<1>6. 0 \in T
  BY <1>4, <1>5 DEF Adds, Making
<1>7. ASSUME NEW n \in 1..Len(bs), n - 1 \in T PROVE n \in T
  <2>1. n \in 0..Len(bs) /\ n # 0 /\ f[n - 1] \in Making
    BY <1>5, <1>7
  <2>2. f[n] = AddBackend(f[n - 1], bs[n])
    BY <1>4, <2>1 DEF Adds
  <2>3. bs[n] \in Backend
    BY <1>1, ElementIn
  <2> QED BY <2>1, <2>2, <2>3, AddBackendType
<1>8. Len(bs) \in T
  <2> HIDE DEF T
  <2>1. \A n \in 0..Len(bs) : n \in T
    BY <1>5, <1>6, <1>7, UpTo
  <2> QED BY <1>5, <2>1
<1>9. f[Len(bs)] \in Making
  BY <1>8
<1> QED BY <1>2, <1>9 DEF Making

StartTyped == StartInv /\ stage \in Stage /\ gauges \subseteq BackendId

LEMMA StartTypeIs == StartTyped => StartTypeOK
<1> SUFFICES ASSUME StartTyped PROVE StartTypeOK
  OBVIOUS
<1>1. /\ content \in [File -> Content] /\ wanted \in File \cup {NoFile}
      /\ apps \in Seq(Config) /\ loaded \in Seq(SUBSET LoadItem) /\ Len(loaded) = Len(apps)
      /\ app = Len(apps)
  BY DEF StartTyped, StartInv, StartShape
<1>2. \A a \in DOMAIN apps : apps[a] \in Config
  BY <1>1, ElementIn
<1>3. app \in 0..Len(apps) /\ DOMAIN loaded = DOMAIN apps
  BY <1>1
<1> QED BY <1>1, <1>2, <1>3 DEF StartTyped, StartTypeOK

LEMMA StartTypedInitially == StartInit => StartTyped
BY StartInitially DEF StartInit, StartTyped, Stage

LEMMA BuildTyped ==
    ASSUME StartTyped, stage = "build", NEW S, S \subseteq Stage, NEW onError \in Stage,
           Build(S, onError)
    PROVE  stage' \in Stage /\ gauges' \subseteq BackendId
<1>1. wanted \in File /\ content[wanted] \in Config
  BY StartAssumption DEF StartTyped, StartInv, StartShape, AsChosen, Loads
<1> DEFINE r == InitBackends(content[wanted])
<1>2. r.made \subseteq BackendId
  BY <1>1, InitBackendsType
<1>3. gauges' = gauges \cup r.made /\ (stage' \in S \/ stage' = onError \/ stage' = "panicked")
  BY DEF Build, Goto
<1> HIDE DEF r
<1> QED BY <1>2, <1>3 DEF StartTyped, Stage

LEMMA StartTypeKept == StartTyped /\ [StartNext]_startVars => StartTyped'
<1> SUFFICES ASSUME StartTyped, [StartNext]_startVars PROVE StartTyped'
  OBVIOUS
<1>1. StartInv'
  BY StartKept DEF StartTyped
<1>2. CASE BuildFirst \/ Rebuild
  <2>1. {"menu", "data"} \subseteq Stage /\ {"data"} \subseteq Stage /\ {"ended", "retry"} \subseteq Stage
    BY DEF Stage
  <2>2. CASE BuildFirst
    <3>1. stage = "build" /\ Build({"menu", "data"}, "ended") /\ "ended" \in Stage
      BY <2>1, <2>2 DEF BuildFirst
    <3> DEFINE S == {"menu", "data"}
    <3>2. S \subseteq Stage /\ Build(S, "ended")
      BY <2>1, <3>1
    <3> HIDE DEF S
    <3>3. stage' \in Stage /\ gauges' \subseteq BackendId
      BY <3>1, <3>2, BuildTyped
    <3> QED BY <1>1, <3>3 DEF StartTyped
  <2>3. CASE Rebuild
    <3>1. stage = "build" /\ Build({"data"}, "retry") /\ "retry" \in Stage
      BY <2>1, <2>3 DEF Rebuild
    <3> DEFINE S == {"data"}
    <3>2. S \subseteq Stage /\ Build(S, "retry")
      BY <2>1, <3>1
    <3> HIDE DEF S
    <3>3. stage' \in Stage /\ gauges' \subseteq BackendId
      BY <3>1, <3>2, BuildTyped
    <3> QED BY <1>1, <3>3 DEF StartTyped
  <2> QED BY <1>2, <2>2, <2>3
<1>3. CASE ~(BuildFirst \/ Rebuild)
  <2>1. gauges' = gauges
    BY <1>3 DEF StartNext, startVars, LoadCfg, LoadFromConfig, AskSave, AskRetry, Stop, ChooseNothing,
                ChooseMocks, ChooseFiles, LeaveMenu, BackToMenu, ChooseVersion, ChooseFile, EditFile
  <2>2. stage' = stage \/ stage' \in Stage
    BY <1>3 DEF StartNext, startVars, LoadCfg, LoadFromConfig, AskSave, AskRetry, Stop, ChooseNothing,
                ChooseMocks, ChooseFiles, LeaveMenu, BackToMenu, ChooseVersion, ChooseFile, EditFile,
                Goto, Stage
  <2> QED BY <1>1, <2>1, <2>2 DEF StartTyped
<1> QED BY <1>2, <1>3

-----------------------------------------------------------------------------
(* Keys: the order of the pairs.                                            *)

\* A character of a text, and -1 behind its end.
Ch(a, i) == IF i <= Len(a) THEN a[i] ELSE -1

\* a and b differ at i for the first time, and a is the smaller one.
Below(a, b, i) ==
    i \in Nat \ {0} /\ Ch(a, i) < Ch(b, i) /\ \A j \in 1..(i - 1) : Ch(a, j) = Ch(b, j)

LEMMA ChIsInt == ASSUME NEW a \in Text, NEW i \in Nat \ {0}
                 PROVE  Ch(a, i) \in Int /\ Len(a) \in Nat /\ (i <= Len(a) => Ch(a, i) \in Nat)
BY DEF Text, Ch

\* Texts with the same characters are the same.
LEMMA SameText ==
    ASSUME NEW a \in Text, NEW b \in Text, \A i \in Nat \ {0} : Ch(a, i) = Ch(b, i)
    PROVE  a = b
<1>1. Len(a) \in Nat /\ Len(b) \in Nat /\ a \in Seq(Nat) /\ b \in Seq(Nat)
  BY DEF Text
<1>2. ~(Len(a) < Len(b))
  <2> SUFFICES ASSUME Len(a) < Len(b) PROVE FALSE
    OBVIOUS
  <2>1. Len(b) \in Nat \ {0} /\ Len(b) \in 1..Len(b)
    BY <1>1
  <2>2. Ch(b, Len(b)) \in Nat
    BY <1>1, <2>1, ChIsInt
  <2>3. Ch(a, Len(b)) = -1
    BY <1>1 DEF Ch
  <2> QED BY <2>1, <2>2, <2>3
<1>3. ~(Len(b) < Len(a))
  <2> SUFFICES ASSUME Len(b) < Len(a) PROVE FALSE
    OBVIOUS
  <2>1. Len(a) \in Nat \ {0} /\ Len(a) \in 1..Len(a)
    BY <1>1
  <2>2. Ch(a, Len(a)) \in Nat
    BY <1>1, <2>1, ChIsInt
  <2>3. Ch(b, Len(a)) = -1
    BY <1>1 DEF Ch
  <2> QED BY <2>1, <2>2, <2>3
<1>4. Len(a) = Len(b)
  BY <1>1, <1>2, <1>3
<1>5. ASSUME NEW i \in 1..Len(a) PROVE a[i] = b[i]
  BY <1>1, <1>4 DEF Ch
<1> QED BY <1>1, <1>4, <1>5, SeqEqual

LEMMA PrefixIs ==
    ASSUME NEW a \in Text, NEW b \in Text
    PROVE  IsPrefix(a, b) <=> Len(a) <= Len(b) /\ \A i \in 1..Len(a) : a[i] = b[i]
<1>1. Len(a) \in Nat /\ Len(b) \in Nat /\ a \in Seq(Nat) /\ b \in Seq(Nat)
  BY DEF Text
<1>2. SubSeq(a, 1, Len(a)) = a
  BY <1>1
<1>3. ASSUME Len(a) <= Len(b)
      PROVE  a = SubSeq(b, 1, Len(a)) <=> \A i \in 1..Len(a) : a[i] = b[i]
  <2> DEFINE t == SubSeq(b, 1, Len(a))
  <2>1. t \in Seq(Nat) /\ Len(t) = Len(a) /\ \A i \in 1..Len(a) : t[i] = b[i]
    BY <1>1, <1>3
  <2> HIDE DEF t
  <2>2. ASSUME \A i \in 1..Len(a) : a[i] = b[i] PROVE a = t
    BY <1>1, <2>1, <2>2, SeqEqual
  <2>3. a = t => \A i \in 1..Len(a) : a[i] = b[i]
    BY <2>1
  <2> QED BY <2>2, <2>3 DEF t
<1> QED BY <1>2, <1>3 DEF IsPrefix

LEMMA MinOfTwo ==
    ASSUME NEW m \in Nat, NEW n \in Nat
    PROVE  Min({m, n}) \in Nat /\ Min({m, n}) = IF m <= n THEN m ELSE n
<1>1. CASE m <= n
  <2>1. m \in {m, n} /\ \A y \in {m, n} : m =< y
    BY <1>1
  <2>2. \A x \in {m, n} : (\A y \in {m, n} : x =< y) => x = m
    BY <1>1
  <2> QED BY <1>1, <2>1, <2>2 DEF Min
<1>2. CASE ~(m <= n)
  <2>1. n \in {m, n} /\ \A y \in {m, n} : n =< y
    BY <1>2
  <2>2. \A x \in {m, n} : (\A y \in {m, n} : x =< y) => x = n
    BY <1>2
  <2> QED BY <1>2, <2>1, <2>2 DEF Min
<1> QED BY <1>1, <1>2

\* The comparison of the code says where the first difference is.
LEMMA LessIs ==
    ASSUME NEW a \in Text, NEW b \in Text
    PROVE  less(a, b) <=> \E i : Below(a, b, i)
<1>1. Len(a) \in Nat /\ Len(b) \in Nat
  BY DEF Text
<1>2. ASSUME less(a, b) PROVE \E i : Below(a, b, i)
  <2>1. CASE IsStrictPrefix(a, b)
    <3>1. Len(a) <= Len(b) /\ \A i \in 1..Len(a) : a[i] = b[i]
      BY <2>1, PrefixIs DEF IsStrictPrefix
    <3>2. Len(a) # Len(b)
      <4> SUFFICES ASSUME Len(a) = Len(b) PROVE FALSE
        OBVIOUS
      <4>1. a \in Seq(Nat) /\ b \in Seq(Nat)
        BY DEF Text
      <4>2. a = b
        BY <3>1, <4>1, SeqEqual
      <4> QED BY <2>1, <4>2 DEF IsStrictPrefix
    <3> DEFINE i == Len(a) + 1
    <3>3. i \in Nat \ {0} /\ i <= Len(b) /\ ~(i <= Len(a))
      BY <1>1, <3>1, <3>2
    <3>4. Ch(a, i) = -1 /\ Ch(b, i) \in Nat
      BY <3>3, ChIsInt DEF Ch
    <3>5. \A j \in 1..(i - 1) : Ch(a, j) = Ch(b, j)
      BY <1>1, <3>1 DEF Ch
    <3>6. Below(a, b, i)
      BY <3>3, <3>4, <3>5 DEF Below
    <3> QED BY <3>6
  <2>2. CASE ~IsStrictPrefix(a, b)
    <3>1. PICK i \in 1..Min({Len(a), Len(b)}) : a[i] < b[i] /\ \A j \in 1..(i - 1) : a[j] = b[j]
      BY <1>2, <2>2 DEF less
    <3>2. i \in Nat \ {0} /\ i <= Len(a) /\ i <= Len(b)
      BY <1>1, <3>1, MinOfTwo
    <3>3. Ch(a, i) = a[i] /\ Ch(b, i) = b[i]
      BY <3>2 DEF Ch
    <3>4. \A j \in 1..(i - 1) : Ch(a, j) = Ch(b, j)
      BY <1>1, <3>1, <3>2 DEF Ch
    <3>5. Below(a, b, i)
      BY <3>1, <3>2, <3>3, <3>4 DEF Below
    <3> QED BY <3>5
  <2> QED BY <2>1, <2>2
<1>3. ASSUME NEW i, Below(a, b, i) PROVE less(a, b)
  <2>1. i \in Nat \ {0} /\ Ch(a, i) < Ch(b, i) /\ \A j \in 1..(i - 1) : Ch(a, j) = Ch(b, j)
    BY <1>3 DEF Below
  <2>2. i <= Len(b)
    <3> SUFFICES ASSUME ~(i <= Len(b)) PROVE FALSE
      OBVIOUS
    <3>1. Ch(b, i) = -1
      BY DEF Ch
    <3>2. Ch(a, i) = -1 \/ Ch(a, i) \in Nat
      BY <2>1, ChIsInt DEF Ch
    <3> QED BY <2>1, <3>1, <3>2
  \* Before i both texts go on, or both have ended.
  <2>3. \A j \in 1..(i - 1) : j <= Len(a) /\ a[j] = b[j]
    <3> TAKE j \in 1..(i - 1)
    <3>1. j \in Nat \ {0} /\ j <= Len(b)
      BY <1>1, <2>1, <2>2
    <3>2. Ch(b, j) \in Nat /\ Ch(b, j) = b[j] /\ Ch(a, j) = Ch(b, j)
      BY <2>1, <3>1, ChIsInt DEF Ch
    <3> QED BY <3>2 DEF Ch
  <2>4. CASE i <= Len(a)
    <3>1. i \in 1..Min({Len(a), Len(b)})
      BY <1>1, <2>1, <2>2, <2>4, MinOfTwo
    <3>2. a[i] < b[i] /\ \A j \in 1..(i - 1) : a[j] = b[j]
      BY <2>1, <2>2, <2>3, <2>4 DEF Ch
    <3> QED BY <3>1, <3>2 DEF less
  <2>5. CASE ~(i <= Len(a))
    <3>1. Len(a) = i - 1
      <4>1. CASE i = 1
        BY <1>1, <2>5, <4>1
      <4>2. CASE i # 1
        <5>1. i - 1 \in 1..(i - 1)
          BY <2>1, <4>2
        <5>2. i - 1 <= Len(a)
          BY <2>3, <5>1
        <5> QED BY <1>1, <2>1, <2>5, <5>2
      <4> QED BY <4>1, <4>2
    <3>2. Len(a) <= Len(b) /\ a # b /\ \A j \in 1..Len(a) : a[j] = b[j]
      <4>1. Len(a) < Len(b)
        BY <1>1, <2>1, <2>2, <3>1
      <4> QED BY <1>1, <2>3, <3>1, <4>1
    <3> QED BY <3>2, PrefixIs DEF less, IsStrictPrefix
  <2> QED BY <2>4, <2>5
<1> QED BY <1>2, <1>3

LEMMA LessIrreflexive == ASSUME NEW a \in Text PROVE ~less(a, a)
<1>1. ASSUME NEW i, Below(a, a, i) PROVE FALSE
  <2>1. i \in Nat \ {0} /\ Ch(a, i) < Ch(a, i)
    BY <1>1 DEF Below
  <2>2. Ch(a, i) \in Int
    BY <2>1, ChIsInt
  <2> QED BY <2>1, <2>2
<1> QED BY <1>1, LessIs

LEMMA LessTransitive ==
    ASSUME NEW a \in Text, NEW b \in Text, NEW c \in Text, less(a, b), less(b, c)
    PROVE  less(a, c)
<1>1. PICK i : Below(a, b, i)
  BY LessIs
<1>2. PICK k : Below(b, c, k)
  BY LessIs
<1>3. /\ i \in Nat \ {0} /\ Ch(a, i) < Ch(b, i) /\ \A j \in 1..(i - 1) : Ch(a, j) = Ch(b, j)
      /\ k \in Nat \ {0} /\ Ch(b, k) < Ch(c, k) /\ \A j \in 1..(k - 1) : Ch(b, j) = Ch(c, j)
  BY <1>1, <1>2 DEF Below
<1>4. \A j \in Nat \ {0} : Ch(a, j) \in Int /\ Ch(b, j) \in Int /\ Ch(c, j) \in Int
  BY ChIsInt
<1>5. CASE i < k
  <2>1. i \in 1..(k - 1) /\ \A j \in 1..(i - 1) : j \in 1..(k - 1)
    BY <1>3, <1>5
  <2>2. Below(a, c, i)
    BY <1>3, <2>1 DEF Below
  <2> QED BY <2>2, LessIs
<1>6. CASE k < i
  <2>1. k \in 1..(i - 1) /\ \A j \in 1..(k - 1) : j \in 1..(i - 1)
    BY <1>3, <1>6
  <2>2. Below(a, c, k)
    BY <1>3, <2>1 DEF Below
  <2> QED BY <2>2, LessIs
<1>7. CASE i = k
  <2>1. Ch(a, i) < Ch(c, i)
    <3>1. Ch(a, i) \in Int /\ Ch(b, i) \in Int /\ Ch(c, i) \in Int
      BY <1>3, <1>4
    <3> QED BY <1>3, <1>7, <3>1
  <2>2. Below(a, c, i)
    BY <1>3, <1>7, <2>1 DEF Below
  <2> QED BY <2>2, LessIs
<1> QED BY <1>3, <1>5, <1>6, <1>7

LEMMA LessTotal ==
    ASSUME NEW a \in Text, NEW b \in Text, a # b
    PROVE  less(a, b) \/ less(b, a)
<1> DEFINE U == {i \in Nat : i # 0 /\ Ch(a, i) # Ch(b, i)}
<1>1. U # {}
  BY SameText
<1>2. PICK i \in U : \A m \in U : i <= m
  <2> HIDE DEF U
  <2>1. U \in SUBSET Nat
    BY DEF U
  <2> QED BY <1>1, <2>1, LeastNat
<1>3. i \in Nat \ {0} /\ Ch(a, i) # Ch(b, i) /\ Ch(a, i) \in Int /\ Ch(b, i) \in Int
  BY ChIsInt
<1>4. \A j \in 1..(i - 1) : Ch(a, j) = Ch(b, j)
  <2> TAKE j \in 1..(i - 1)
  <2>1. j \in Nat /\ j # 0 /\ ~(i <= j)
    BY <1>3
  <2> QED BY <1>2, <2>1
<1>5. CASE Ch(a, i) < Ch(b, i)
  BY <1>3, <1>4, <1>5, LessIs DEF Below
<1>6. CASE Ch(b, i) < Ch(a, i)
  BY <1>3, <1>4, <1>6, LessIs DEF Below
<1> QED BY <1>3, <1>5, <1>6

\* A bounded set of naturals has a greatest element.
LEMMA GreatestNat ==
    ASSUME NEW n \in Nat, NEW U \in SUBSET (0..n), U # {}
    PROVE  /\ Max(U) \in U
           /\ \A u \in U : u <= Max(U)
<1> DEFINE D == {d \in Nat : \E u \in U : d = n - u}
<1>1. D # {} /\ D \in SUBSET Nat
  <2>1. PICK u \in U : TRUE
    OBVIOUS
  <2>2. n - u \in Nat
    OBVIOUS
  <2> QED BY <2>2
<1>2. PICK d \in D : \A m \in D : d <= m
  <2> HIDE DEF D
  <2> QED BY <1>1, LeastNat
<1>3. PICK x \in U : d = n - x
  OBVIOUS
<1>4. ASSUME NEW u \in U PROVE u <= x
  <2>1. n - u \in D
    OBVIOUS
  <2>2. n - x <= n - u
    BY <1>2, <1>3, <2>1
  <2>3. x \in 0..n /\ u \in 0..n
    OBVIOUS
  <2> QED BY <2>2, <2>3
<1>5. \A y \in U : x >= y
  <2> TAKE y \in U
  <2>1. y <= x /\ x \in 0..n /\ y \in 0..n
    BY <1>4
  <2> QED BY <2>1
<1>6. Max(U) \in U /\ \A y \in U : Max(U) >= y
  BY <1>5 DEF Max
<1> QED
  <2>1. \A u \in U : u \in Int
    OBVIOUS
  <2> QED BY <1>6, <2>1

\* The names are in ascending order, so that they are different.
Ascending(s) ==
    /\ s \in Seq(Field)
    /\ \A i, j \in 1..Len(s) : i < j => less(s[i][1], s[j][1])

\* The elements of a sequence.
Members(s) == {s[i] : i \in 1..Len(s)}

LEMMA NameIsText ==
    ASSUME NEW s \in Seq(Field), NEW i \in 1..Len(s)
    PROVE  s[i] \in Field /\ s[i][1] \in Text
BY DEF Field

\* What the insertion of x at its place gives.
Inserted(s, p, x) ==
    [i \in 1..(Len(s) + 1) |-> IF i < p THEN s[i] ELSE IF i = p THEN x ELSE s[i - 1]]

LEMMA InsertIs ==
    ASSUME NEW s \in Seq(Field), NEW x \in Field, NEW p \in 1..(Len(s) + 1)
    PROVE  /\ InsertAt(s, p, x) = Inserted(s, p, x)
           /\ InsertAt(s, p, x) \in Seq(Field)
           /\ Len(InsertAt(s, p, x)) = Len(s) + 1
<1> DEFINE l == SubSeq(s, 1, p - 1)
           r == SubSeq(s, p, Len(s))
           t == Inserted(s, p, x)
<1>1. Len(s) \in Nat /\ p \in Nat /\ p - 1 \in 0..Len(s)
  OBVIOUS
<1>2. l \in Seq(Field) /\ Len(l) = p - 1 /\ \A i \in 1..(p - 1) : l[i] = s[i]
  BY <1>1
<1>3. r \in Seq(Field) /\ Len(r) = Len(s) - p + 1 /\ \A i \in 1..(Len(s) - p + 1) : r[i] = s[p + i - 1]
  BY <1>1
<1>4. InsertAt(s, p, x) = l \o <<x>> \o r
  BY DEF InsertAt
<1> HIDE DEF l, r
<1>5. <<x>> \in Seq(Field) /\ Len(<<x>>) = 1
  OBVIOUS
<1> DEFINE m == l \o <<x>>
<1>6. /\ m \in Seq(Field) /\ Len(m) = p /\ m[p] = x
      /\ \A i \in 1..(p - 1) : m[i] = s[i]
  BY <1>1, <1>2, <1>5
<1> HIDE DEF m
<1>7. m \o r \in Seq(Field) /\ Len(m \o r) = Len(s) + 1
  BY <1>1, <1>3, <1>6
<1>8. ASSUME NEW i \in 1..(Len(s) + 1) PROVE (m \o r)[i] = t[i]
  <2>1. t[i] = IF i < p THEN s[i] ELSE IF i = p THEN x ELSE s[i - 1]
    BY DEF Inserted
  <2>2. CASE i <= p
    <3>1. (m \o r)[i] = m[i]
      BY <1>1, <1>3, <1>6, <2>2
    <3>2. i = p \/ i \in 1..(p - 1)
      BY <1>1, <2>2
    <3> QED BY <1>1, <1>6, <2>1, <3>1, <3>2
  <2>3. CASE ~(i <= p)
    <3>1. i - p \in 1..Len(r) /\ i - p \in 1..(Len(s) - p + 1) /\ p + (i - p) - 1 = i - 1
      BY <1>1, <1>3, <2>3
    <3>2. (m \o r)[i] = r[i - p]
      BY <1>1, <1>3, <1>6, <2>3, <3>1
    <3>3. r[i - p] = s[i - 1]
      BY <1>3, <3>1
    <3>4. ~(i < p) /\ i # p
      BY <1>1, <2>3
    <3> QED BY <2>1, <3>2, <3>3, <3>4
  <2> QED BY <2>2, <2>3
<1>9. m \o r = t
  <2>1. ASSUME NEW i \in 1..(Len(s) + 1) PROVE t[i] \in Field
    <3>1. (m \o r)[i] \in Field
      BY <1>7
    <3> QED BY <1>8, <3>1
  <2>2. t = [i \in 1..(Len(s) + 1) |-> t[i]] /\ Len(s) + 1 \in Nat
    BY <1>1 DEF Inserted
  <2> HIDE DEF t
  <2>3. t \in Seq(Field) /\ Len(t) = Len(s) + 1
    BY <2>1, <2>2
  <2> DEFINE w == m \o r
  <2>4. w \in Seq(Field) /\ Len(w) = Len(s) + 1 /\ \A i \in 1..(Len(s) + 1) : w[i] = t[i]
    BY <1>7, <1>8
  <2> HIDE DEF w
  <2>5. w = t
    BY <2>3, <2>4, SeqEqual
  <2> QED BY <2>5 DEF w
<1> QED BY <1>4, <1>7, <1>9 DEF m

\* The place in a sorted sequence: what stands before it is smaller, the rest is greater.
LEMMA PlaceIs ==
    ASSUME NEW s, Ascending(s), NEW x \in Field, \A i \in 1..Len(s) : s[i][1] # x[1]
    PROVE  /\ Place(s, x) \in 1..(Len(s) + 1)
           /\ \A i \in 1..Len(s) : i < Place(s, x) => less(s[i][1], x[1])
           /\ \A i \in 1..Len(s) : i >= Place(s, x) => less(x[1], s[i][1])
<1> DEFINE U == {0} \cup {j \in DOMAIN s : ~less(x[1], s[j][1])}
           m == Max(U)
<1>1. s \in Seq(Field) /\ Len(s) \in Nat /\ DOMAIN s = 1..Len(s) /\ x[1] \in Text
  BY DEF Ascending, Field
<1>2. U \in SUBSET (0..Len(s)) /\ U # {}
  BY <1>1
<1>3. m \in U /\ \A u \in U : u <= m
  <2> HIDE DEF U
  <2> QED BY <1>1, <1>2, GreatestNat
<1>4. Place(s, x) = m + 1
  BY DEF Place
<1>5. m \in 0..Len(s)
  BY <1>2, <1>3
<1>6. ASSUME NEW i \in 1..Len(s), i >= m + 1 PROVE less(x[1], s[i][1])
  <2>1. ~(i <= m) /\ i \in DOMAIN s
    BY <1>1, <1>5, <1>6
  <2> QED BY <1>3, <2>1
<1>7. ASSUME NEW i \in 1..Len(s), i < m + 1 PROVE less(s[i][1], x[1])
  <2>1. m \in 1..Len(s) /\ i <= m
    BY <1>1, <1>5, <1>7
  <2>2. m # 0 /\ m \in DOMAIN s /\ ~less(x[1], s[m][1])
    BY <1>3, <2>1
  <2>3. s[m][1] \in Text /\ s[i][1] \in Text /\ s[m][1] # x[1]
    BY <1>1, <2>1, NameIsText
  <2>4. less(s[m][1], x[1])
    BY <1>1, <2>2, <2>3, LessTotal
  <2>5. CASE i = m
    BY <2>4, <2>5
  <2>6. CASE i # m
    <3>1. i < m
      BY <1>5, <2>1, <2>6
    <3>2. less(s[i][1], s[m][1])
      BY <2>1, <3>1 DEF Ascending
    <3> QED BY <1>1, <2>3, <2>4, <3>2, LessTransitive
  <2> QED BY <2>5, <2>6
<1> HIDE DEF m
<1>8. m + 1 \in 1..(Len(s) + 1)
  BY <1>1, <1>5
<1> QED BY <1>4, <1>6, <1>7, <1>8

LEMMA InsertAscends ==
    ASSUME NEW s, Ascending(s), NEW x \in Field, \A i \in 1..Len(s) : s[i][1] # x[1]
    PROVE  LET t == InsertAt(s, Place(s, x), x)
           IN  Ascending(t) /\ Members(t) = Members(s) \cup {x}
<1> DEFINE p == Place(s, x)
           t == InsertAt(s, p, x)
           n == Len(s)
<1>1. s \in Seq(Field) /\ n \in Nat
  BY DEF Ascending
<1>2. /\ p \in 1..(n + 1)
      /\ \A i \in 1..n : i < p => less(s[i][1], x[1])
      /\ \A i \in 1..n : i >= p => less(x[1], s[i][1])
  BY PlaceIs
<1> HIDE DEF p
<1>3. t = Inserted(s, p, x) /\ t \in Seq(Field) /\ Len(t) = n + 1
  BY <1>1, <1>2, InsertIs
<1> HIDE DEF t
<1>4. /\ \A i \in 1..(n + 1) : i < p => t[i] = s[i] /\ i \in 1..n
      /\ t[p] = x
      /\ \A i \in 1..(n + 1) : i > p => t[i] = s[i - 1] /\ i - 1 \in 1..n /\ i - 1 >= p
  BY <1>1, <1>2, <1>3 DEF Inserted
<1> HIDE DEF n
<1>5. ASSUME NEW i \in 1..(n + 1), NEW j \in 1..(n + 1), i < j PROVE less(t[i][1], t[j][1])
  <2>1. CASE j < p
    <3>1. t[i] = s[i] /\ t[j] = s[j] /\ i \in 1..n /\ j \in 1..n
      BY <1>1, <1>2, <1>4, <1>5, <2>1
    <3> QED BY <1>5, <3>1 DEF Ascending, n
  <2>2. CASE j = p
    <3>1. t[i] = s[i] /\ t[j] = x /\ i \in 1..n /\ i < p
      BY <1>1, <1>2, <1>4, <1>5, <2>2
    <3> QED BY <1>2, <3>1
  <2>3. CASE j > p /\ i < p
    <3>1. t[i] = s[i] /\ t[j] = s[j - 1] /\ i \in 1..n /\ j - 1 \in 1..n /\ i < j - 1
      BY <1>1, <1>2, <1>4, <1>5, <2>3
    <3> QED BY <3>1 DEF Ascending, n
  <2>4. CASE j > p /\ i = p
    <3>1. t[i] = x /\ t[j] = s[j - 1] /\ j - 1 \in 1..n /\ j - 1 >= p
      BY <1>1, <1>2, <1>4, <1>5, <2>4
    <3> QED BY <1>2, <3>1
  <2>5. CASE j > p /\ i > p
    <3>1. t[i] = s[i - 1] /\ t[j] = s[j - 1] /\ i - 1 \in 1..n /\ j - 1 \in 1..n /\ i - 1 < j - 1
      BY <1>1, <1>2, <1>4, <1>5, <2>5
    <3> QED BY <3>1 DEF Ascending, n
  <2> QED BY <1>1, <1>2, <1>5, <2>1, <2>2, <2>3, <2>4, <2>5
<1>6. Members(t) = Members(s) \cup {x}
  <2>1. ASSUME NEW y \in Members(t) PROVE y \in Members(s) \cup {x}
    <3>1. PICK i \in 1..(n + 1) : y = t[i]
      BY <1>3 DEF Members
    <3>2. i < p \/ i = p \/ i > p
      BY <1>1, <1>2
    <3> QED BY <1>4, <3>1, <3>2 DEF Members, n
  <2>2. x \in Members(t)
    BY <1>2, <1>3, <1>4 DEF Members
  <2>3. ASSUME NEW y \in Members(s) PROVE y \in Members(t)
    <3>1. PICK i \in 1..n : y = s[i]
      BY DEF Members, n
    <3>2. CASE i < p
      <4>1. i \in 1..(n + 1) /\ t[i] = s[i]
        BY <1>1, <1>4, <3>2
      <4> QED BY <1>3, <3>1, <4>1 DEF Members
    <3>3. CASE ~(i < p)
      <4>1. i + 1 \in 1..(n + 1) /\ i + 1 > p /\ (i + 1) - 1 = i
        BY <1>1, <1>2, <3>3
      <4>2. t[i + 1] = s[i]
        BY <1>4, <4>1
      <4> QED BY <1>3, <3>1, <4>1, <4>2 DEF Members
    <3> QED BY <3>2, <3>3
  <2> QED BY <2>1, <2>2, <2>3
<1> QED BY <1>3, <1>5, <1>6 DEF Ascending, t, p

\* Each pair is inserted into what is sorted so far.
Sorts(kv, f) ==
    f = [n \in 0..Len(kv) |-> IF n = 0 THEN <<>>
                              ELSE InsertAt(f[n - 1], Place(f[n - 1], kv[n]), kv[n])]

LEMMA PlaceInRange ==
    ASSUME NEW s \in Seq(Field), NEW x \in Field
    PROVE  Place(s, x) \in 1..(Len(s) + 1)
<1> DEFINE U == {0} \cup {j \in DOMAIN s : ~less(x[1], s[j][1])}
<1>1. Len(s) \in Nat /\ DOMAIN s = 1..Len(s)
  OBVIOUS
<1>2. U \in SUBSET (0..Len(s)) /\ U # {}
  BY <1>1
<1>3. Max(U) \in U
  <2> HIDE DEF U
  <2> QED BY <1>1, <1>2, GreatestNat
<1>4. Max(U) \in 0..Len(s)
  BY <1>2, <1>3
<1> HIDE DEF U
<1>5. Max(U) + 1 \in 1..(Len(s) + 1)
  BY <1>1, <1>4
<1> QED BY <1>5 DEF Place, U

LEMMA SortsExists ==
    ASSUME NEW kv \in Seq(Field)
    PROVE  \E f : Sorts(kv, f)
<1> DEFINE N == Len(kv)
           S == Seq(Field)
           step == [x \in S \X (1..N) |-> InsertAt(x[1], Place(x[1], kv[x[2]]), kv[x[2]])]
<1>1. N \in Nat /\ \A n \in 1..N : kv[n] \in Field
  OBVIOUS
<1>2. step \in [S \X (1..N) -> S]
  <2>1. ASSUME NEW x \in S \X (1..N)
        PROVE  InsertAt(x[1], Place(x[1], kv[x[2]]), kv[x[2]]) \in S
    <3>1. x[1] \in S /\ kv[x[2]] \in Field
      BY <1>1
    <3> QED BY <3>1, PlaceInRange, InsertIs
  <2> QED BY <2>1
<1>3. <<>> \in S
  OBVIOUS
<1> HIDE DEF step, N, S
<1>4. PICK g \in [0..N -> S] : g[0] = <<>> /\ \A n \in 1..N : g[n] = step[<<g[n - 1], n>>]
  <2>1. Recurs(N, S, <<>>, step)
    BY <1>1, <1>2, <1>3, Recursion
  <2> QED BY <2>1 DEF Recurs
<1>5. ASSUME NEW n \in 1..N PROVE g[n] = InsertAt(g[n - 1], Place(g[n - 1], kv[n]), kv[n])
  <2>1. n - 1 \in 0..N
    BY <1>1
  <2>2. <<g[n - 1], n>> \in S \X (1..N)
    BY <2>1
  <2>3. g[n] = step[<<g[n - 1], n>>]
    BY <1>4
  <2> QED BY <2>2, <2>3 DEF step
<1>6. Sorts(kv, g)
  <2>1. ASSUME NEW n \in 0..N
        PROVE  g[n] = IF n = 0 THEN <<>> ELSE InsertAt(g[n - 1], Place(g[n - 1], kv[n]), kv[n])
    <3>1. n = 0 \/ n \in 1..N
      BY <1>1
    <3> QED BY <1>4, <1>5, <3>1
  <2>2. g = [n \in 0..N |-> g[n]]
    OBVIOUS
  <2> QED BY <2>1, <2>2 DEF Sorts, N
<1> QED BY <1>6

\* No name occurs twice.
Distinct(kv) ==
    /\ kv \in Seq(Field)
    /\ \A i, j \in 1..Len(kv) : kv[i][1] = kv[j][1] => i = j

\* What KVSlice returns.
LEMMA KVSliceSorts ==
    ASSUME NEW kv, Distinct(kv)
    PROVE  Ascending(KVSlice(kv)) /\ Members(KVSlice(kv)) = Members(kv)
<1> DEFINE N == Len(kv)
           f == CHOOSE g : Sorts(kv, g)
           Upto(n) == {kv[i] : i \in 1..n}
<1>1. /\ kv \in Seq(Field) /\ N \in Nat /\ \A n \in 1..N : kv[n] \in Field
      /\ \A i, j \in 1..N : kv[i][1] = kv[j][1] => i = j
  BY DEF Distinct
<1>2. Sorts(kv, f)
  BY <1>1, SortsExists
<1>3. KVSlice(kv) = f[N]
  BY DEF KVSlice, Sorts
<1> HIDE DEF f
<1>4. /\ f[0] = <<>>
      /\ \A n \in 1..N : f[n] = InsertAt(f[n - 1], Place(f[n - 1], kv[n]), kv[n])
  <2>1. 0 \in 0..N /\ \A n \in 1..N : n \in 0..N /\ n # 0
    BY <1>1
  <2> QED BY <1>2, <2>1 DEF Sorts, N
<1> DEFINE T == {n \in 0..N : Ascending(f[n]) /\ Members(f[n]) = Upto(n)}
<1> HIDE DEF N
<1>5. 0 \in T
  <2>1. <<>> \in Seq(Field) /\ 1..Len(<<>>) = {} /\ 1..0 = {}
    OBVIOUS
  <2>2. Ascending(<<>>)
    BY <2>1 DEF Ascending
  <2>3. Members(<<>>) = Upto(0)
    BY <2>1 DEF Members
  <2> QED BY <1>1, <1>4, <2>2, <2>3
<1>6. ASSUME NEW n \in 1..N, n - 1 \in T PROVE n \in T
  <2> DEFINE s == f[n - 1]
             x == kv[n]
  <2>1. Ascending(s) /\ Members(s) = Upto(n - 1) /\ x \in Field /\ n \in Nat /\ n - 1 \in Nat
    BY <1>1, <1>6
  <2>2. ASSUME NEW i \in 1..Len(s) PROVE s[i][1] # x[1]
    <3>1. s[i] \in Members(s)
      BY DEF Members
    <3> HIDE DEF s
    <3>2. PICK j \in 1..(n - 1) : s[i] = kv[j]
      BY <2>1, <3>1
    <3>3. j \in 1..N /\ j # n
      BY <1>1
    <3> QED BY <1>1, <3>2, <3>3
  <2>3. f[n] = InsertAt(s, Place(s, x), x)
    BY <1>4
  <2> HIDE DEF s, x
  <2>4. Ascending(f[n]) /\ Members(f[n]) = Members(s) \cup {x}
    BY <2>1, <2>2, <2>3, InsertAscends
  <2>5. 1..n = (1..(n - 1)) \cup {n}
    BY <2>1
  <2>6. Upto(n) = Upto(n - 1) \cup {x}
    BY <2>5 DEF x
  <2>7. n \in 0..N
    BY <1>1
  <2> HIDE DEF Upto
  <2> QED BY <2>1, <2>4, <2>6, <2>7
<1>7. N \in T
  <2> HIDE DEF T
  <2>1. \A n \in 0..N : n \in T
    BY <1>1, <1>5, <1>6, UpTo
  <2> QED BY <1>1, <2>1
<1>8. Members(kv) = Upto(N)
  BY DEF Members, N
<1> QED BY <1>3, <1>7, <1>8

\* The elements of an ascending sequence determine it.
LEMMA AscendingStarts ==
    ASSUME NEW s, NEW t, Ascending(s), Ascending(t), Members(s) = Members(t)
    PROVE  Len(s) <= Len(t) /\ \A i \in 1..Len(s) : s[i] = t[i]
<1> DEFINE N == Len(s)
           M == Len(t)
           T == {n \in 0..N : n <= M /\ \A i \in 1..n : s[i] = t[i]}
<1>1. /\ s \in Seq(Field) /\ t \in Seq(Field) /\ N \in Nat /\ M \in Nat
      /\ \A i, j \in 1..N : i < j => less(s[i][1], s[j][1])
      /\ \A i, j \in 1..M : i < j => less(t[i][1], t[j][1])
  BY DEF Ascending
<1>2. /\ \A i \in 1..N : s[i][1] \in Text /\ \E k \in 1..M : s[i] = t[k]
      /\ \A i \in 1..M : t[i][1] \in Text /\ \E k \in 1..N : t[i] = s[k]
  BY <1>1, NameIsText DEF Members
<1> HIDE DEF N, M
<1>3. 0 \in T
  BY <1>1
<1>4. ASSUME NEW n \in 1..N, n - 1 \in T PROVE n \in T
  <2>1. \A i \in 1..(n - 1) : s[i] = t[i]
    BY <1>4
  <2>2. PICK k \in 1..M : s[n] = t[k]
    BY <1>2
  <2>3. s[n][1] \in Text /\ ~less(s[n][1], s[n][1])
    BY <1>2, LessIrreflexive
  <2>4. ~(k < n)
    <3> SUFFICES ASSUME k < n PROVE FALSE
      OBVIOUS
    <3>1. k \in 1..(n - 1) /\ k \in 1..N
      BY <1>1
    <3>2. s[k] = s[n] /\ less(s[k][1], s[n][1])
      BY <1>1, <2>1, <2>2, <3>1
    <3> QED BY <2>3, <3>2
  <2>5. n \in 1..M
    BY <1>1, <2>4
  <2>6. PICK m \in 1..N : t[n] = s[m]
    BY <1>2, <2>5
  <2>7. t[n][1] \in Text /\ ~less(t[n][1], t[n][1])
    BY <1>2, <2>5, LessIrreflexive
  <2>8. ~(m < n)
    <3> SUFFICES ASSUME m < n PROVE FALSE
      OBVIOUS
    <3>1. m \in 1..(n - 1) /\ m \in 1..M
      BY <1>1, <2>5
    <3>2. t[m] = t[n] /\ less(t[m][1], t[n][1])
      BY <1>1, <2>1, <2>5, <2>6, <3>1
    <3> QED BY <2>7, <3>2
  <2>9. s[n] = t[n]
    <3>1. CASE k = n
      BY <2>2, <3>1
    <3>2. CASE m = n
      BY <2>6, <3>2
    <3>3. CASE k # n /\ m # n
      <4>1. n < k /\ n < m
        BY <2>4, <2>8, <3>3
      <4>2. less(t[n][1], s[n][1])
        BY <1>1, <2>2, <2>5, <4>1
      <4>3. less(s[n][1], t[n][1])
        BY <1>1, <2>6, <4>1
      <4> QED BY <2>3, <2>7, <4>2, <4>3, LessTransitive
    <3> QED BY <3>1, <3>2, <3>3
  <2>10. \A i \in 1..n : s[i] = t[i]
    <3> TAKE i \in 1..n
    <3>1. i = n \/ i \in 1..(n - 1)
      OBVIOUS
    <3> QED BY <2>1, <2>9, <3>1
  <2> QED BY <1>1, <2>5, <2>10
<1>5. N \in T
  <2> HIDE DEF T
  <2>1. \A n \in 0..N : n \in T
    BY <1>1, <1>3, <1>4, UpTo
  <2> QED BY <1>1, <2>1
<1> QED BY <1>5 DEF N, M

LEMMA AscendingUnique ==
    ASSUME NEW s, NEW t, Ascending(s), Ascending(t), Members(s) = Members(t)
    PROVE  s = t
<1>1. s \in Seq(Field) /\ t \in Seq(Field) /\ Len(s) \in Nat /\ Len(t) \in Nat
  BY DEF Ascending
<1>2. Len(s) <= Len(t) /\ \A i \in 1..Len(s) : s[i] = t[i]
  BY AscendingStarts
<1>3. Len(t) <= Len(s)
  BY AscendingStarts
<1>4. Len(s) = Len(t)
  BY <1>1, <1>2, <1>3
<1> QED BY <1>1, <1>2, <1>4, SeqEqual

-----------------------------------------------------------------------------
(* Keys: the pairs that a rule allows.                                      *)

Allows(pairs, prefixes, f) ==
    f = [n \in 0..Len(pairs) |->
           IF n = 0 THEN <<>>
           ELSE IF Permits(prefixes, pairs[n]) THEN Append(f[n - 1], pairs[n])
           ELSE f[n - 1]]

\* f filters one pair after the other.
Filtering(pairs, prefixes, f) ==
    /\ f \in [0..Len(pairs) -> Seq(Field)]
    /\ Allowed(pairs, prefixes) = f[Len(pairs)]
    /\ f[0] = <<>>
    /\ \A n \in 1..Len(pairs) :
         f[n] = IF Permits(prefixes, pairs[n]) THEN Append(f[n - 1], pairs[n]) ELSE f[n - 1]

LEMMA AllowedIs ==
    ASSUME NEW pairs \in Seq(Field), NEW prefixes
    PROVE  \E f : Filtering(pairs, prefixes, f)
<1> DEFINE N == Len(pairs)
           S == Seq(Field)
           step == [x \in S \X (1..N) |->
                      IF Permits(prefixes, pairs[x[2]]) THEN Append(x[1], pairs[x[2]]) ELSE x[1]]
<1>1. N \in Nat /\ \A n \in 1..N : pairs[n] \in Field
  OBVIOUS
<1>2. step \in [S \X (1..N) -> S]
  <2>1. ASSUME NEW x \in S \X (1..N)
        PROVE  (IF Permits(prefixes, pairs[x[2]]) THEN Append(x[1], pairs[x[2]]) ELSE x[1]) \in S
    <3>1. x[1] \in S /\ pairs[x[2]] \in Field
      BY <1>1
    <3> QED BY <3>1
  <2> QED BY <2>1
<1>3. <<>> \in S
  OBVIOUS
<1> HIDE DEF step, N, S
<1>4. PICK g \in [0..N -> S] : g[0] = <<>> /\ \A n \in 1..N : g[n] = step[<<g[n - 1], n>>]
  <2>1. Recurs(N, S, <<>>, step)
    BY <1>1, <1>2, <1>3, Recursion
  <2> QED BY <2>1 DEF Recurs
<1>5. ASSUME NEW n \in 1..N
      PROVE  g[n] = IF Permits(prefixes, pairs[n]) THEN Append(g[n - 1], pairs[n]) ELSE g[n - 1]
  <2>1. n - 1 \in 0..N
    BY <1>1
  <2>2. <<g[n - 1], n>> \in S \X (1..N)
    BY <2>1
  <2>3. g[n] = step[<<g[n - 1], n>>]
    BY <1>4
  <2> QED BY <2>2, <2>3 DEF step
<1>6. Allows(pairs, prefixes, g)
  <2>1. ASSUME NEW n \in 0..N
        PROVE  g[n] = IF n = 0 THEN <<>>
                      ELSE IF Permits(prefixes, pairs[n]) THEN Append(g[n - 1], pairs[n])
                      ELSE g[n - 1]
    <3>1. n = 0 \/ n \in 1..N
      BY <1>1
    <3> QED BY <1>4, <1>5, <3>1
  <2>2. g = [n \in 0..N |-> g[n]]
    OBVIOUS
  <2> QED BY <2>1, <2>2 DEF Allows, N
<1> DEFINE f == CHOOSE h : Allows(pairs, prefixes, h)
<1>7. Allows(pairs, prefixes, f)
  BY <1>6
<1>8. Allowed(pairs, prefixes) = f[N]
  BY DEF Allowed, Allows, N
<1> HIDE DEF f
<1>9. /\ f[0] = <<>> /\ DOMAIN f = 0..N /\ f = [n \in 0..N |-> f[n]]
      /\ \A n \in 1..N :
           f[n] = IF Permits(prefixes, pairs[n]) THEN Append(f[n - 1], pairs[n]) ELSE f[n - 1]
  <2>1. 0 \in 0..N /\ \A n \in 1..N : n \in 0..N /\ n # 0
    BY <1>1
  <2> QED BY <1>7, <2>1 DEF Allows, N
<1> DEFINE T == {n \in 0..N : f[n] \in Seq(Field)}
<1>10. 0 \in T
  BY <1>1, <1>9
<1>11. ASSUME NEW n \in 1..N, n - 1 \in T PROVE n \in T
  <2>1. f[n - 1] \in Seq(Field) /\ pairs[n] \in Field /\ n \in 0..N
    BY <1>1, <1>11
  <2>2. f[n] = IF Permits(prefixes, pairs[n]) THEN Append(f[n - 1], pairs[n]) ELSE f[n - 1]
    BY <1>9
  <2>3. Append(f[n - 1], pairs[n]) \in Seq(Field)
    BY <2>1
  <2>4. f[n] \in Seq(Field)
    BY <2>1, <2>2, <2>3
  <2> QED BY <2>1, <2>4
<1>12. \A n \in 0..N : n \in T
  <2> HIDE DEF T
  <2> QED BY <1>1, <1>10, <1>11, UpTo
<1>13. f \in [0..N -> Seq(Field)]
  BY <1>9, <1>12
<1>14. Filtering(pairs, prefixes, f)
  BY <1>8, <1>9, <1>13 DEF N, Filtering
<1> QED BY <1>14

\* The pairs that stay keep their names apart.
LEMMA AllowedDistinct ==
    ASSUME NEW q, Distinct(q), NEW prefixes
    PROVE  /\ Distinct(Allowed(q, prefixes))
           /\ Members(Allowed(q, prefixes)) = {x \in Members(q) : Permits(prefixes, x)}
<1> DEFINE N == Len(q)
           Upto(n) == {q[i] : i \in {j \in 1..n : Permits(prefixes, q[j])}}
<1>1. /\ q \in Seq(Field) /\ N \in Nat /\ \A n \in 1..N : q[n] \in Field
      /\ \A i, j \in 1..N : q[i][1] = q[j][1] => i = j
  BY DEF Distinct
<1>2. PICK f : Filtering(q, prefixes, f)
  BY <1>1, AllowedIs
<1>3. /\ Allowed(q, prefixes) = f[N] /\ f[0] = <<>> /\ \A n \in 0..N : f[n] \in Seq(Field)
      /\ \A n \in 1..N : f[n] = IF Permits(prefixes, q[n]) THEN Append(f[n - 1], q[n]) ELSE f[n - 1]
  BY <1>2 DEF Filtering
<1> DEFINE T == {n \in 0..N : Distinct(f[n]) /\ Members(f[n]) = Upto(n)}
<1> HIDE DEF N
<1>4. 0 \in T
  <2>1. <<>> \in Seq(Field) /\ 1..Len(<<>>) = {} /\ 1..0 = {}
    OBVIOUS
  <2>2. Distinct(<<>>)
    BY <2>1 DEF Distinct
  <2>3. Members(<<>>) = Upto(0)
    BY <2>1 DEF Members
  <2> QED BY <1>1, <1>3, <2>2, <2>3
<1>5. ASSUME NEW n \in 1..N, n - 1 \in T PROVE n \in T
  <2> DEFINE s == f[n - 1]
             x == q[n]
  <2>1. Distinct(s) /\ Members(s) = Upto(n - 1) /\ x \in Field /\ n \in Nat /\ n - 1 \in Nat /\ n \in 0..N
    BY <1>1, <1>5
  <2>2. 1..n = (1..(n - 1)) \cup {n}
    BY <2>1
  <2>3. ASSUME NEW i \in 1..Len(s) PROVE s[i][1] # x[1]
    <3>1. s[i] \in Members(s)
      BY DEF Members
    <3> HIDE DEF s
    <3>2. PICK j \in 1..(n - 1) : s[i] = q[j]
      BY <2>1, <3>1
    <3>3. j \in 1..N /\ j # n
      BY <1>1
    <3> QED BY <1>1, <3>2, <3>3
  <2>4. f[n] = IF Permits(prefixes, x) THEN Append(s, x) ELSE s
    BY <1>3
  <2>5. s \in Seq(Field) /\ \A i, j \in 1..Len(s) : s[i][1] = s[j][1] => i = j
    BY <2>1 DEF Distinct
  <2>6. CASE Permits(prefixes, x)
    <3> HIDE DEF s
    <3> DEFINE a == Append(s, x)
    <3>1. /\ a \in Seq(Field) /\ Len(a) = Len(s) + 1 /\ Len(s) \in Nat
          /\ a[Len(s) + 1] = x /\ \A i \in 1..Len(s) : a[i] = s[i]
      BY <2>1, <2>5
    <3> HIDE DEF a
    <3>2. 1..Len(a) = (1..Len(s)) \cup {Len(s) + 1}
      BY <3>1
    <3>3. Distinct(a)
      <4>1. ASSUME NEW i \in 1..Len(a), NEW j \in 1..Len(a), a[i][1] = a[j][1] PROVE i = j
        <5>1. CASE i \in 1..Len(s) /\ j \in 1..Len(s)
          BY <2>5, <3>1, <4>1, <5>1
        <5>2. CASE i = Len(s) + 1 /\ j \in 1..Len(s)
          BY <2>3, <3>1, <4>1, <5>2
        <5>3. CASE j = Len(s) + 1 /\ i \in 1..Len(s)
          BY <2>3, <3>1, <4>1, <5>3
        <5>4. CASE i = Len(s) + 1 /\ j = Len(s) + 1
          BY <5>4
        <5> QED BY <3>2, <5>1, <5>2, <5>3, <5>4
      <4> QED BY <3>1, <4>1 DEF Distinct
    <3>4. Members(a) = Members(s) \cup {x}
      BY <3>1, <3>2 DEF Members
    <3>5. Upto(n) = Upto(n - 1) \cup {x}
      BY <2>2, <2>6
    <3>6. f[n] = a
      BY <2>4, <2>6 DEF a
    <3> HIDE DEF Upto, x
    <3> QED BY <2>1, <3>3, <3>4, <3>5, <3>6
  <2>7. CASE ~Permits(prefixes, x)
    <3>1. Upto(n) = Upto(n - 1)
      BY <2>2, <2>7
    <3>2. f[n] = s
      BY <2>4, <2>7
    <3> HIDE DEF Upto, x, s
    <3> QED BY <2>1, <3>1, <3>2
  <2> QED BY <2>6, <2>7
<1>6. N \in T
  <2> HIDE DEF T
  <2>1. \A n \in 0..N : n \in T
    BY <1>1, <1>4, <1>5, UpTo
  <2> QED BY <1>1, <2>1
<1>7. Upto(N) = {x \in Members(q) : Permits(prefixes, x)}
  BY DEF Members, N
<1> QED BY <1>3, <1>6, <1>7

\* What is sorted does not depend on the order of the pairs.
LEMMA SortedSame ==
    ASSUME NEW q, NEW r, Distinct(q), Distinct(r), Members(q) = Members(r), NEW prefixes
    PROVE  KVSlice(Allowed(q, prefixes)) = KVSlice(Allowed(r, prefixes))
<1>1. /\ Distinct(Allowed(q, prefixes)) /\ Distinct(Allowed(r, prefixes))
      /\ Members(Allowed(q, prefixes)) = Members(Allowed(r, prefixes))
  BY AllowedDistinct
<1> DEFINE a == Allowed(q, prefixes)
           b == Allowed(r, prefixes)
<1> HIDE DEF a, b
<1>2. Distinct(a) /\ Distinct(b) /\ Members(a) = Members(b)
  BY <1>1 DEF a, b
<1>3. /\ Ascending(KVSlice(a)) /\ Ascending(KVSlice(b))
      /\ Members(KVSlice(a)) = Members(KVSlice(b))
  BY <1>2, KVSliceSorts
<1>4. KVSlice(a) = KVSlice(b)
  BY <1>3, AscendingUnique
<1> QED BY <1>4 DEF a, b

\* A sequence with every number of its domain once takes the pairs in another order.
LEMMA Reordered ==
    ASSUME NEW q, Distinct(q), NEW p \in SetToSeqs(DOMAIN q)
    PROVE  LET r == [i \in DOMAIN q |-> q[p[i]]]
           IN  Distinct(r) /\ Members(r) = Members(q)
<1> DEFINE N == Len(q)
           r == [i \in DOMAIN q |-> q[p[i]]]
           D == 1..N
<1>1. /\ q \in Seq(Field) /\ N \in Nat /\ DOMAIN q = D /\ \A i \in D : q[i] \in Field
      /\ \A i, j \in D : q[i][1] = q[j][1] => i = j
  BY DEF Distinct
<1>2. IsFiniteSet(D) /\ Cardinality(D) = N
  <2>1. IsFiniteSet(D) /\ Cardinality(D) = IF 1 > N THEN 0 ELSE N - 1 + 1
    <3>1. 1 \in Int /\ N \in Int
      BY <1>1
    <3> HIDE DEF N
    <3> QED BY <3>1, FS_Interval
  <2> QED BY <1>1, <2>1
<1>3. p \in [D -> D] /\ \A i, j \in D : i # j => p[i] # p[j]
  BY <1>1, <1>2 DEF SetToSeqs
<1>4. p \in Injection(D, D)
  BY <1>3 DEF Injection, IsInjective
<1>5. p \in Surjection(D, D)
  <2> HIDE DEF D
  <2> QED BY <1>2, <1>4, FS_Injection
<1>6. \A k \in D : \E i \in D : p[i] = k
  BY <1>5 DEF Surjection
<1>7. DOMAIN r = D /\ \A i \in D : r[i] = q[p[i]] /\ r[i] \in Field
  BY <1>1, <1>3
<1>8. r \in [D -> Field]
  BY <1>1, <1>3
<1>9. r \in Seq(Field) /\ Len(r) = N
  <2> HIDE DEF r
  <2> QED BY <1>1, <1>8
<1> HIDE DEF r
<1>10. \A i, j \in D : r[i][1] = r[j][1] => i = j
  <2> TAKE i, j \in D
  <2>1. p[i] \in D /\ p[j] \in D
    BY <1>3
  <2>2. r[i][1] = r[j][1] => p[i] = p[j]
    BY <1>1, <1>7, <2>1
  <2> QED BY <1>3, <2>2
<1>11. Distinct(r)
  BY <1>9, <1>10 DEF Distinct
<1>12. Members(r) = Members(q)
  <2>1. Members(r) = {r[i] : i \in D} /\ Members(q) = {q[i] : i \in D}
    BY <1>9 DEF Members
  <2> HIDE DEF D
  <2>2. ASSUME NEW k \in D PROVE \E i \in D : q[k] = r[i]
    BY <1>6, <1>7
  <2>3. ASSUME NEW i \in D PROVE \E k \in D : r[i] = q[k]
    BY <1>3, <1>7
  <2> QED BY <2>1, <2>2, <2>3
<1> QED BY <1>11, <1>12 DEF r

\* The order in which a client writes different parameters does not matter.
LEMMA OrderIgnored ==
    ASSUME NEW rule, NEW pairs \in Seq(Field), NEW headers
    PROVE  IgnoresOrder(rule, pairs, headers)
<1> SUFFICES ASSUME IsInjective([i \in DOMAIN pairs |-> pairs[i][1]]),
                    NEW p \in SetToSeqs(DOMAIN pairs)
             PROVE  KeyOf(rule, [i \in DOMAIN pairs |-> pairs[p[i]]], headers)
                      = KeyOf(rule, pairs, headers)
  BY DEF IgnoresOrder
<1>1. Distinct(pairs)
  BY DEF IsInjective, Distinct
<1> DEFINE r == [i \in DOMAIN pairs |-> pairs[p[i]]]
<1>2. Distinct(r) /\ Members(r) = Members(pairs)
  BY <1>1, Reordered
<1> HIDE DEF r
<1>3. KVSlice(Allowed(r, rule.query)) = KVSlice(Allowed(pairs, rule.query))
  BY <1>1, <1>2, SortedSame
<1>4. KeyOf(rule, r, headers) = KeyOf(rule, pairs, headers)
  BY <1>3 DEF KeyOf
<1> QED BY <1>4 DEF r

\* One more pair is kept behind the others if the rule allows it.
LEMMA AllowedAppend ==
    ASSUME NEW s \in Seq(Field), NEW x \in Field, NEW prefixes
    PROVE  Allowed(Append(s, x), prefixes)
             = IF Permits(prefixes, x) THEN Append(Allowed(s, prefixes), x) ELSE Allowed(s, prefixes)
<1> DEFINE N == Len(s)
           a == Append(s, x)
<1>1. /\ N \in Nat /\ a \in Seq(Field) /\ Len(a) = N + 1 /\ a[N + 1] = x
      /\ \A n \in 1..N : a[n] = s[n]
  OBVIOUS
<1> HIDE DEF a
<1>2. PICK f : Filtering(s, prefixes, f)
  BY AllowedIs
<1>3. PICK g : Filtering(a, prefixes, g)
  BY <1>1, AllowedIs
<1>4. /\ Allowed(s, prefixes) = f[N] /\ f[0] = <<>>
      /\ \A n \in 1..N : f[n] = IF Permits(prefixes, s[n]) THEN Append(f[n - 1], s[n]) ELSE f[n - 1]
  BY <1>2 DEF Filtering
<1>5. /\ Allowed(a, prefixes) = g[N + 1] /\ g[0] = <<>>
      /\ \A n \in 1..(N + 1) :
           g[n] = IF Permits(prefixes, a[n]) THEN Append(g[n - 1], a[n]) ELSE g[n - 1]
  BY <1>1, <1>3 DEF Filtering
<1> DEFINE T == {n \in 0..N : g[n] = f[n]}
<1> HIDE DEF N
<1>6. 0 \in T
  BY <1>1, <1>4, <1>5
<1>7. ASSUME NEW n \in 1..N, n - 1 \in T PROVE n \in T
  <2>1. n \in 1..(N + 1) /\ a[n] = s[n] /\ g[n - 1] = f[n - 1] /\ n \in 0..N
    BY <1>1, <1>7
  <2>2. g[n] = IF Permits(prefixes, s[n]) THEN Append(f[n - 1], s[n]) ELSE f[n - 1]
    BY <1>5, <2>1
  <2>3. f[n] = IF Permits(prefixes, s[n]) THEN Append(f[n - 1], s[n]) ELSE f[n - 1]
    BY <1>4
  <2>4. g[n] = f[n]
    BY <2>2, <2>3
  <2> QED BY <2>1, <2>4
<1>8. g[N] = f[N]
  <2> HIDE DEF T
  <2>1. \A n \in 0..N : n \in T
    BY <1>1, <1>6, <1>7, UpTo
  <2>2. N \in T
    BY <1>1, <2>1
  <2> QED BY <2>2 DEF T
<1>9. g[N + 1] = IF Permits(prefixes, x) THEN Append(g[N], x) ELSE g[N]
  <2>1. N + 1 \in 1..(N + 1) /\ (N + 1) - 1 = N
    BY <1>1
  <2> QED BY <1>1, <1>5, <2>1
<1> QED BY <1>4, <1>5, <1>8, <1>9 DEF a

\* A pair without name and value is allowed by no rule whose names are not empty.
LEMMA EmptyForbidden ==
    ASSUME NEW prefixes \in SUBSET Text, <<>> \notin prefixes
    PROVE  ~Permits(prefixes, <<<<>>, <<>>>>)
<1> SUFFICES ASSUME NEW p \in prefixes, IsPrefix(p, <<>>) PROVE FALSE
  BY DEF Permits
<1>1. p \in Seq(Nat) /\ Len(p) \in Nat /\ <<>> \in Text /\ Len(<<>>) = 0
  BY DEF Text
<1>2. Len(p) <= 0
  BY <1>1, PrefixIs
<1>3. Len(p) = 0
  BY <1>1, <1>2
<1>4. p = <<>>
  BY <1>1, <1>3
<1> QED BY <1>4

-----------------------------------------------------------------------------
(* Keys: the parser of query strings.                                       *)

HasEq(p) == \E i \in DOMAIN p : p[i] = Eq

LEMMA LeastIs ==
    ASSUME NEW U \in SUBSET Nat, NEW m \in U, \A u \in U : m <= u
    PROVE  Min(U) = m
<1>1. \A x \in U : (\A y \in U : x =< y) => x = m
  <2> TAKE x \in U
  <2> HAVE \A y \in U : x =< y
  <2>1. x <= m /\ m <= x /\ x \in Nat /\ m \in Nat
    OBVIOUS
  <2> QED BY <2>1
<1> QED BY <1>1 DEF Min

\* Without "=" all is the name.
LEMMA SplitPlain ==
    ASSUME NEW p \in Text, ~HasEq(p)
    PROVE  Split(p) = <<p, <<>>>>
<1>1. p \in Seq(Nat) /\ Len(p) \in Nat /\ DOMAIN p = 1..Len(p)
  BY DEF Text
<1> DEFINE at == Min({Len(p) + 1} \cup {i \in DOMAIN p : p[i] = Eq})
<1>2. at = Len(p) + 1
  <2>1. {Len(p) + 1} \cup {i \in DOMAIN p : p[i] = Eq} = {Len(p) + 1}
    BY DEF HasEq
  <2>2. Min({Len(p) + 1}) = Len(p) + 1
    <3> DEFINE U == {Len(p) + 1}
               m == Len(p) + 1
    <3>1. U \in SUBSET Nat /\ m \in U /\ \A u \in U : m <= u
      BY <1>1
    <3> HIDE DEF U, m
    <3>2. Min(U) = m
      BY <3>1, LeastIs
    <3> QED BY <3>2 DEF U, m
  <2> QED BY <2>1, <2>2
<1> HIDE DEF at
<1>3. SubSeq(p, 1, at - 1) = p
  BY <1>1, <1>2
<1>4. SubSeq(p, at + 1, Len(p)) = <<>>
  BY <1>1, <1>2
<1> QED BY <1>3, <1>4 DEF Split, at

\* Where the first "=" stands.
LEMMA SplitAt ==
    ASSUME NEW p \in Text, NEW at \in 1..Len(p), p[at] = Eq, \A i \in 1..(at - 1) : p[i] # Eq
    PROVE  Split(p) = <<SubSeq(p, 1, at - 1), SubSeq(p, at + 1, Len(p))>>
<1>1. p \in Seq(Nat) /\ Len(p) \in Nat /\ DOMAIN p = 1..Len(p)
  BY DEF Text
<1> DEFINE U == {Len(p) + 1} \cup {i \in 1..Len(p) : p[i] = Eq}
<1>2. U \in SUBSET Nat /\ at \in U
  BY <1>1
<1>3. \A u \in U : at <= u
  <2> TAKE u \in U
  <2>1. u = Len(p) + 1 \/ (u \in 1..Len(p) /\ p[u] = Eq)
    OBVIOUS
  <2>2. CASE u = Len(p) + 1
    BY <1>1, <2>2
  <2>3. CASE u \in 1..Len(p) /\ p[u] = Eq
    <3>1. ~(u \in 1..(at - 1))
      BY <2>3
    <3> QED BY <1>1, <2>3, <3>1
  <2> QED BY <2>1, <2>2, <2>3
<1>4. Min(U) = at
  <2> HIDE DEF U
  <2> QED BY <1>2, <1>3, LeastIs
<1>5. U = {Len(p) + 1} \cup {i \in DOMAIN p : p[i] = Eq}
  BY <1>1
<1> QED BY <1>4, <1>5 DEF Split

LEMMA FirstEq ==
    ASSUME NEW p \in Text, HasEq(p)
    PROVE  \E at \in 1..Len(p) : p[at] = Eq /\ \A i \in 1..(at - 1) : p[i] # Eq
<1> DEFINE U == {i \in 1..Len(p) : p[i] = Eq}
<1>1. U \in SUBSET Nat /\ U # {} /\ Len(p) \in Nat
  BY DEF HasEq, Text
<1>2. PICK at \in U : \A m \in U : at <= m
  <2> HIDE DEF U
  <2> QED BY <1>1, LeastNat
<1>3. \A i \in 1..(at - 1) : p[i] # Eq
  <2> TAKE i \in 1..(at - 1)
  <2>1. i \in 1..Len(p) /\ ~(at <= i)
    BY <1>1
  <2> QED BY <1>2, <2>1
<1> QED BY <1>3

LEMMA AppendText ==
    ASSUME NEW p \in Text, NEW c \in Nat
    PROVE  /\ Append(p, c) \in Text /\ Len(Append(p, c)) = Len(p) + 1 /\ Len(p) \in Nat
           /\ Append(p, c)[Len(p) + 1] = c
           /\ \A i \in 1..Len(p) : Append(p, c)[i] = p[i]
           /\ DOMAIN p = 1..Len(p) /\ DOMAIN Append(p, c) = 1..(Len(p) + 1)
BY DEF Text

LEMMA HasEqAppend ==
    ASSUME NEW p \in Text, NEW c \in Nat
    PROVE  HasEq(Append(p, c)) <=> HasEq(p) \/ c = Eq
<1> DEFINE a == Append(p, c)
<1>1. /\ Len(p) \in Nat /\ a[Len(p) + 1] = c /\ DOMAIN p = 1..Len(p)
      /\ DOMAIN a = 1..(Len(p) + 1) /\ \A i \in 1..Len(p) : a[i] = p[i]
  BY AppendText
<1> HIDE DEF a
<1>2. 1..(Len(p) + 1) = (1..Len(p)) \cup {Len(p) + 1}
  BY <1>1
<1>3. HasEq(a) <=> HasEq(p) \/ c = Eq
  BY <1>1, <1>2 DEF HasEq
<1> QED BY <1>3 DEF a

\* The first "=" ends the name; the value is empty so far.
LEMMA SplitEq ==
    ASSUME NEW p \in Text, ~HasEq(p)
    PROVE  Split(Append(p, Eq)) = <<p, <<>>>>
<1> DEFINE a == Append(p, Eq)
<1>0. Eq \in Nat
  BY DEF Eq
<1>1. /\ a \in Text /\ Len(a) = Len(p) + 1 /\ Len(p) \in Nat /\ a[Len(p) + 1] = Eq
      /\ \A i \in 1..Len(p) : a[i] = p[i]
      /\ DOMAIN p = 1..Len(p)
  BY <1>0, AppendText
<1>2. SubSeq(a, 1, Len(p)) = p
  <2>1. p \in Seq(Nat)
    BY DEF Text
  <2> QED BY <1>0, <2>1
<1> HIDE DEF a
<1> DEFINE at == Len(p) + 1
<1>3. at \in 1..Len(a) /\ a[at] = Eq /\ at - 1 = Len(p)
  BY <1>1
<1>4. \A i \in 1..(at - 1) : a[i] # Eq
  BY <1>1, <1>3 DEF HasEq
<1> HIDE DEF at
<1>5. Split(a) = <<SubSeq(a, 1, at - 1), SubSeq(a, at + 1, Len(a))>>
  BY <1>1, <1>3, <1>4, SplitAt
<1>6. SubSeq(a, at + 1, Len(a)) = <<>>
  BY <1>1, <1>3 DEF Text, at
<1> QED BY <1>2, <1>3, <1>5, <1>6 DEF a

\* Once there is a "=", the value grows.
LEMMA SplitValue ==
    ASSUME NEW p \in Text, HasEq(p), NEW c \in Nat
    PROVE  Split(Append(p, c)) = <<Split(p)[1], Append(Split(p)[2], c)>>
<1> DEFINE a == Append(p, c)
<1>1. /\ a \in Text /\ Len(a) = Len(p) + 1 /\ Len(p) \in Nat /\ a[Len(p) + 1] = c
      /\ \A i \in 1..Len(p) : a[i] = p[i]
  BY AppendText
<1> HIDE DEF a
<1>2. PICK at \in 1..Len(p) : p[at] = Eq /\ \A i \in 1..(at - 1) : p[i] # Eq
  BY FirstEq
<1>3. Split(p) = <<SubSeq(p, 1, at - 1), SubSeq(p, at + 1, Len(p))>>
  BY <1>2, SplitAt
<1>4. at \in 1..Len(a) /\ a[at] = Eq /\ \A i \in 1..(at - 1) : a[i] # Eq
  <2>1. \A i \in 1..(at - 1) : i \in 1..Len(p)
    BY <1>1
  <2> QED BY <1>1, <1>2, <2>1
<1>5. Split(a) = <<SubSeq(a, 1, at - 1), SubSeq(a, at + 1, Len(a))>>
  BY <1>1, <1>4, SplitAt
<1>6. p \in Seq(Nat) /\ a \in Seq(Nat)
  BY <1>1 DEF Text
<1>7. SubSeq(a, 1, at - 1) = SubSeq(p, 1, at - 1)
  <2> DEFINE x == SubSeq(a, 1, at - 1)
             y == SubSeq(p, 1, at - 1)
  <2>1. /\ x \in Seq(Nat) /\ Len(x) = at - 1 /\ \A i \in 1..(at - 1) : x[i] = a[i]
        /\ y \in Seq(Nat) /\ Len(y) = at - 1 /\ \A i \in 1..(at - 1) : y[i] = p[i]
    BY <1>1, <1>6
  <2>2. \A i \in 1..(at - 1) : x[i] = y[i]
    <3>1. \A i \in 1..(at - 1) : i \in 1..Len(p)
      BY <1>1
    <3> QED BY <1>1, <2>1, <3>1
  <2> HIDE DEF x, y
  <2>3. x = y
    BY <2>1, <2>2, SeqEqual
  <2> QED BY <2>3 DEF x, y
<1>8. SubSeq(a, at + 1, Len(a)) = Append(SubSeq(p, at + 1, Len(p)), c)
  <2> DEFINE x == SubSeq(a, at + 1, Len(a))
             z == SubSeq(p, at + 1, Len(p))
             y == Append(z, c)
  <2>1. x \in Seq(Nat) /\ Len(x) = Len(p) + 1 - at /\ \A i \in 1..(Len(p) + 1 - at) : x[i] = a[at + i]
    BY <1>1, <1>6
  <2>2. z \in Seq(Nat) /\ Len(z) = Len(p) - at /\ \A i \in 1..(Len(p) - at) : z[i] = p[at + i]
    BY <1>1, <1>6
  <2> HIDE DEF x, z
  <2>3. /\ y \in Seq(Nat) /\ Len(y) = Len(p) - at + 1 /\ y[Len(p) - at + 1] = c
        /\ \A i \in 1..(Len(p) - at) : y[i] = z[i]
    <3>1. z \in Text
      BY <2>2 DEF Text
    <3>2. /\ y \in Text /\ Len(y) = Len(z) + 1 /\ y[Len(z) + 1] = c
          /\ \A i \in 1..Len(z) : y[i] = z[i]
      BY <3>1, AppendText
    <3> HIDE DEF y
    <3> QED BY <2>2, <3>2 DEF Text
  <2> HIDE DEF y
  <2>4. Len(x) = Len(y)
    BY <1>1, <2>1, <2>3
  <2>5. \A i \in 1..Len(x) : x[i] = y[i]
    <3> TAKE i \in 1..Len(x)
    <3>0. i \in 1..(Len(p) + 1 - at) /\ Len(p) + 1 - at \in Nat
      <4>1. Len(p) + 1 - at \in Nat
        BY <1>1
      <4> QED BY <2>1, <4>1
    <3>1. CASE i = Len(p) + 1 - at
      <4>1. at + i = Len(p) + 1 /\ i = Len(p) - at + 1
        BY <1>1, <3>1
      <4> QED BY <1>1, <2>1, <2>3, <4>1
    <3>2. CASE i # Len(p) + 1 - at
      <4>1. i \in 1..(Len(p) - at) /\ at + i \in 1..Len(p)
        BY <1>1, <3>0, <3>2
      <4>2. x[i] = a[at + i] /\ y[i] = z[i] /\ z[i] = p[at + i]
        BY <2>1, <2>2, <2>3, <3>0, <4>1
      <4> QED BY <1>1, <4>1, <4>2
    <3> QED BY <3>1, <3>2
  <2>6. x = y
    BY <2>1, <2>3, <2>4, <2>5, SeqEqual
  <2> QED BY <2>6 DEF x, y, z
<1>9. Split(p)[1] = SubSeq(p, 1, at - 1) /\ Split(p)[2] = SubSeq(p, at + 1, Len(p))
  BY <1>3
<1>10. Split(a) = <<Split(p)[1], Append(Split(p)[2], c)>>
  BY <1>5, <1>7, <1>8, <1>9
<1> QED BY <1>10 DEF a

LEMMA SplitField ==
    ASSUME NEW p \in Text
    PROVE  Split(p) \in Field
<1>1. p \in Seq(Nat) /\ Len(p) \in Nat /\ <<>> \in Text
  BY DEF Text
<1>2. CASE ~HasEq(p)
  BY <1>1, <1>2, SplitPlain DEF Field
<1>3. CASE HasEq(p)
  <2>1. PICK at \in 1..Len(p) : p[at] = Eq /\ \A i \in 1..(at - 1) : p[i] # Eq
    BY <1>3, FirstEq
  <2>2. SubSeq(p, 1, at - 1) \in Text /\ SubSeq(p, at + 1, Len(p)) \in Text
    BY <1>1 DEF Text
  <2>3. Split(p) = <<SubSeq(p, 1, at - 1), SubSeq(p, at + 1, Len(p))>>
    BY <2>1, SplitAt
  <2> DEFINE x == SubSeq(p, 1, at - 1)
             y == SubSeq(p, at + 1, Len(p))
  <2> HIDE DEF x, y
  <2>4. x \in Text /\ y \in Text /\ Split(p) = <<x, y>>
    BY <2>2, <2>3 DEF x, y
  <2> QED BY <2>4 DEF Field
<1> QED BY <1>2, <1>3

\* The last "&" before n, or 0.
LastAmp(b, n) == Max({0} \cup {j \in 1..(n - 1) : b[j] = Amp})

LEMMA GreatestIs ==
    ASSUME NEW U \in SUBSET Nat, NEW m \in U, \A u \in U : u <= m
    PROVE  Max(U) = m
<1>1. \A x \in U : (\A y \in U : x >= y) => x = m
  <2> TAKE x \in U
  <2> HAVE \A y \in U : x >= y
  <2>1. x <= m /\ x >= m /\ x \in Nat /\ m \in Nat
    OBVIOUS
  <2> QED BY <2>1
<1>2. \A y \in U : m >= y
  <2> TAKE y \in U
  <2>1. y <= m /\ y \in Nat /\ m \in Nat
    OBVIOUS
  <2> QED BY <2>1
<1> QED BY <1>1, <1>2 DEF Max

LEMMA LastAmpIs ==
    ASSUME NEW b \in Text, NEW n \in Nat \ {0}
    PROVE  /\ LastAmp(b, 1) = 0
           /\ LastAmp(b, n) \in 0..(n - 1)
           /\ LastAmp(b, n + 1) = IF b[n] = Amp THEN n ELSE LastAmp(b, n)
<1> DEFINE U == {0} \cup {j \in 1..(n - 1) : b[j] = Amp}
           V == {0} \cup {j \in 1..n : b[j] = Amp}
<1>1. LastAmp(b, 1) = 0
  <2>1. {0} \cup {j \in 1..(1 - 1) : b[j] = Amp} = {0}
    OBVIOUS
  <2>2. Max({0}) = 0
    <3> DEFINE W == {0}
    <3>1. W \in SUBSET Nat /\ 0 \in W /\ \A u \in W : u <= 0
      OBVIOUS
    <3> HIDE DEF W
    <3>2. Max(W) = 0
      BY <3>1, GreatestIs
    <3> QED BY <3>2 DEF W
  <2> QED BY <2>1, <2>2 DEF LastAmp
<1>2. n - 1 \in Nat /\ U \in SUBSET (0..(n - 1)) /\ U # {} /\ U \in SUBSET Nat
  OBVIOUS
<1>3. Max(U) \in U /\ \A u \in U : u <= Max(U)
  <2> HIDE DEF U
  <2> QED BY <1>2, GreatestNat
<1>4. Max(U) \in 0..(n - 1)
  BY <1>2, <1>3
<1>5. (n + 1) - 1 = n
  OBVIOUS
<1>6. Max(V) = IF b[n] = Amp THEN n ELSE Max(U)
  <2>1. CASE b[n] = Amp
    <3>1. V \in SUBSET Nat /\ n \in V /\ \A u \in V : u <= n
      BY <2>1
    <3> HIDE DEF V
    <3>2. Max(V) = n
      BY <3>1, GreatestIs
    <3> QED BY <2>1, <3>2
  <2>2. CASE b[n] # Amp
    <3>1. U = V
      <4>1. 1..n = (1..(n - 1)) \cup {n}
        OBVIOUS
      <4> QED BY <2>2, <4>1
    <3> HIDE DEF U, V
    <3> QED BY <2>2, <3>1
  <2> QED BY <2>1, <2>2
<1>7. LastAmp(b, n) = Max(U) /\ LastAmp(b, n + 1) = Max(V)
  BY <1>5 DEF LastAmp
<1> HIDE DEF U, V
<1> QED BY <1>1, <1>4, <1>6, <1>7

\* How the text since the last "&" grows.
LEMMA PieceIs ==
    ASSUME NEW b \in Text, NEW n \in 1..Len(b)
    PROVE  /\ Piece(b, 1) = <<>>
           /\ Piece(b, n) \in Text
           /\ Piece(b, n + 1) = IF b[n] = Amp THEN <<>> ELSE Append(Piece(b, n), b[n])
<1>1. b \in Seq(Nat) /\ Len(b) \in Nat /\ n \in Nat \ {0} /\ b[n] \in Nat
  BY DEF Text
<1> DEFINE l == LastAmp(b, n)
           p == SubSeq(b, l + 1, n - 1)
<1>2. /\ LastAmp(b, 1) = 0 /\ l \in 0..(n - 1)
      /\ LastAmp(b, n + 1) = IF b[n] = Amp THEN n ELSE l
  BY <1>1, LastAmpIs
<1> HIDE DEF l
<1>3. Piece(b, n) = p
  BY DEF Piece, LastAmp, l
<1>4. Piece(b, 1) = SubSeq(b, 1, 0)
  <2>1. Piece(b, 1) = SubSeq(b, LastAmp(b, 1) + 1, 1 - 1)
    BY DEF Piece, LastAmp
  <2>2. LastAmp(b, 1) + 1 = 1 /\ 1 - 1 = 0
    BY <1>2
  <2> QED BY <2>1, <2>2
<1>5. SubSeq(b, 1, 0) = <<>>
  BY <1>1
<1>6. Piece(b, n + 1) = SubSeq(b, LastAmp(b, n + 1) + 1, n)
  <2>1. Piece(b, n + 1) = SubSeq(b, LastAmp(b, n + 1) + 1, (n + 1) - 1)
    BY DEF Piece, LastAmp
  <2>2. (n + 1) - 1 = n
    BY <1>1
  <2> QED BY <2>1, <2>2
<1>7. /\ p \in Seq(Nat) /\ Len(p) = n - 1 - l
      /\ \A i \in 1..(n - 1 - l) : p[i] = b[l + i]
  BY <1>1, <1>2
<1>8. p \in Text
  BY <1>7 DEF Text
<1> HIDE DEF p
<1>9. CASE b[n] = Amp
  <2>1. Piece(b, n + 1) = SubSeq(b, n + 1, n)
    BY <1>2, <1>6, <1>9
  <2>2. SubSeq(b, n + 1, n) = <<>>
    BY <1>1
  <2> QED BY <1>3, <1>4, <1>5, <1>8, <1>9, <2>1, <2>2
<1>10. CASE b[n] # Amp
  <2> DEFINE x == SubSeq(b, l + 1, n)
             y == Append(p, b[n])
  <2>1. x \in Seq(Nat) /\ Len(x) = n - l /\ \A i \in 1..(n - l) : x[i] = b[l + i]
    BY <1>1, <1>2
  <2>2. /\ y \in Text /\ Len(y) = Len(p) + 1 /\ y[Len(p) + 1] = b[n]
        /\ \A i \in 1..Len(p) : y[i] = p[i]
    BY <1>1, <1>8, AppendText
  <2> HIDE DEF x, y
  <2>3. y \in Seq(Nat) /\ Len(y) = n - l /\ y[n - l] = b[n] /\ \A i \in 1..(n - 1 - l) : y[i] = b[l + i]
    <3>1. Len(p) + 1 = n - l
      BY <1>1, <1>2, <1>7
    <3> QED BY <1>7, <2>2, <3>1 DEF Text
  <2>4. \A i \in 1..(n - l) : x[i] = y[i]
    <3> TAKE i \in 1..(n - l)
    <3>1. CASE i = n - l
      <4>1. l + i = n
        BY <1>1, <1>2, <3>1
      <4> QED BY <2>1, <2>3, <3>1, <4>1
    <3>2. CASE i # n - l
      <4>1. i \in 1..(n - 1 - l)
        BY <1>1, <1>2, <3>2
      <4> QED BY <2>1, <2>3, <4>1
    <3> QED BY <3>1, <3>2
  <2>5. x = y
    <3>1. n - l \in Nat
      BY <1>1, <1>2
    <3> QED BY <2>1, <2>3, <2>4, <3>1, SeqEqual
  <2>6. Piece(b, n + 1) = x
    BY <1>2, <1>6, <1>10 DEF x
  <2>7. Piece(b, n + 1) = Append(Piece(b, n), b[n])
    BY <1>3, <2>5, <2>6 DEF y
  <2> QED BY <1>3, <1>4, <1>5, <1>8, <1>10, <2>7
<1> QED BY <1>9, <1>10

\* What the parser knows.
ParserState ==
    [out : Seq(Field), key : Text, val : Text, kFound : BOOLEAN, vFound : BOOLEAN]

LEMMA BlankType == Blank \in ParserState
BY DEF Blank, ParserState, Text

LEMMA StepType ==
    ASSUME NEW s \in ParserState, NEW c \in Nat
    PROVE  /\ Flushed(s) \in Seq(Field)
           /\ ParseStep(s, c) \in ParserState
<1>1. /\ s.out \in Seq(Field) /\ s.key \in Text /\ s.val \in Text
      /\ s.kFound \in BOOLEAN /\ s.vFound \in BOOLEAN
      /\ s = [out |-> s.out, key |-> s.key, val |-> s.val, kFound |-> s.kFound, vFound |-> s.vFound]
  BY DEF ParserState
<1>2. <<s.key, s.val>> \in Field
  BY <1>1 DEF Field
<1>3. Flushed(s) \in Seq(Field)
  BY <1>1, <1>2 DEF Flushed
<1>4. Append(s.key, c) \in Text /\ Append(s.val, c) \in Text /\ <<>> \in Text
  BY <1>1 DEF Text
<1>5. [Blank EXCEPT !.out = Flushed(s), !.kFound = TRUE] \in ParserState
  BY <1>3, <1>4 DEF Blank, ParserState
<1>6. [s EXCEPT !.vFound = TRUE] \in ParserState
  BY <1>1 DEF ParserState
<1>7. [s EXCEPT !.val = Append(@, c)] \in ParserState
  BY <1>1, <1>4 DEF ParserState
<1>8. [s EXCEPT !.kFound = TRUE, !.key = Append(@, c)] \in ParserState
  BY <1>1, <1>4 DEF ParserState
<1> QED BY <1>3, <1>5, <1>6, <1>7, <1>8 DEF ParseStep

Parses(b, f) == f = [n \in 0..Len(b) |-> IF n = 0 THEN Blank ELSE ParseStep(f[n - 1], b[n])]

\* f reads one character after the other.
Parsing(b, f) ==
    /\ ParseText(b) = Flushed(f[Len(b)])
    /\ f[0] = Blank
    /\ \A n \in 1..Len(b) : f[n] = ParseStep(f[n - 1], b[n])

LEMMA ParseIs ==
    ASSUME NEW b \in Text
    PROVE  \E f : Parsing(b, f)
<1> DEFINE N == Len(b)
           S == ParserState
           step == [x \in S \X (1..N) |-> ParseStep(x[1], b[x[2]])]
<1>1. N \in Nat /\ \A n \in 1..N : b[n] \in Nat
  BY DEF Text
<1>2. step \in [S \X (1..N) -> S]
  <2>1. ASSUME NEW x \in S \X (1..N) PROVE ParseStep(x[1], b[x[2]]) \in S
    <3>1. x[1] \in S /\ b[x[2]] \in Nat
      BY <1>1
    <3> QED BY <3>1, StepType
  <2> QED BY <2>1
<1>3. Blank \in S
  BY BlankType
<1> HIDE DEF step, N, S
<1>4. PICK g \in [0..N -> S] : g[0] = Blank /\ \A n \in 1..N : g[n] = step[<<g[n - 1], n>>]
  <2>1. Recurs(N, S, Blank, step)
    BY <1>1, <1>2, <1>3, Recursion
  <2> QED BY <2>1 DEF Recurs
<1>5. ASSUME NEW n \in 1..N PROVE g[n] = ParseStep(g[n - 1], b[n])
  <2>1. n - 1 \in 0..N
    BY <1>1
  <2>2. <<g[n - 1], n>> \in S \X (1..N)
    BY <2>1
  <2>3. g[n] = step[<<g[n - 1], n>>]
    BY <1>4
  <2> QED BY <2>2, <2>3 DEF step
<1>6. Parses(b, g)
  <2>1. ASSUME NEW n \in 0..N
        PROVE  g[n] = IF n = 0 THEN Blank ELSE ParseStep(g[n - 1], b[n])
    <3>1. n = 0 \/ n \in 1..N
      BY <1>1
    <3> QED BY <1>4, <1>5, <3>1
  <2>2. g = [n \in 0..N |-> g[n]]
    OBVIOUS
  <2> QED BY <2>1, <2>2 DEF Parses, N
<1> DEFINE f == CHOOSE h : Parses(b, h)
<1>7. Parses(b, f)
  BY <1>6
<1>8. ParseText(b) = Flushed(f[N])
  BY DEF ParseText, Parses, N
<1> HIDE DEF f
<1>9. f[0] = Blank /\ \A n \in 1..N : f[n] = ParseStep(f[n - 1], b[n])
  <2>1. 0 \in 0..N /\ \A n \in 1..N : n \in 0..N /\ n # 0
    BY <1>1
  <2> QED BY <1>7, <2>1 DEF Parses, N
<1> QED BY <1>8, <1>9 DEF Parsing, N

ArgStep(b, n, args) ==
    IF n = Len(b) + 1 \/ b[n] = Amp THEN WithArg(Decoded(Split(Piece(b, n))), args) ELSE args

Argues(b, f) == f = [n \in 0..(Len(b) + 1) |-> IF n = 0 THEN <<>> ELSE ArgStep(b, n, f[n - 1])]

\* f collects the arguments that end before the position.
Arguing(b, f) ==
    /\ QueryArgs(b) = f[Len(b) + 1]
    /\ f[0] = <<>>
    /\ \A n \in 1..(Len(b) + 1) : f[n] = ArgStep(b, n, f[n - 1])

LEMMA PieceText ==
    ASSUME NEW b \in Text, NEW n \in 1..(Len(b) + 1)
    PROVE  Piece(b, n) \in Text
<1>1. b \in Seq(Nat) /\ Len(b) \in Nat /\ n \in Nat \ {0}
  BY DEF Text
<1> DEFINE l == LastAmp(b, n)
<1>2. l \in 0..(n - 1)
  BY <1>1, LastAmpIs
<1> HIDE DEF l
<1>3. SubSeq(b, l + 1, n - 1) \in Seq(Nat)
  BY <1>1, <1>2
<1>4. Piece(b, n) = SubSeq(b, l + 1, n - 1)
  BY DEF Piece, LastAmp, l
<1> QED BY <1>3, <1>4 DEF Text

\* A part of a text without escapes has none.
LEMMA PlainPart ==
    ASSUME NEW s \in Text, Plain(s), NEW i \in Nat \ {0}, NEW j \in Nat, j <= Len(s)
    PROVE  Plain(SubSeq(s, i, j))
<1>1. s \in Seq(Nat) /\ Len(s) \in Nat
  BY DEF Text
<1>2. ASSUME NEW k \in DOMAIN SubSeq(s, i, j)
      PROVE  SubSeq(s, i, j)[k] \notin {Percent, Plus}
  <2>1. k \in 1..(j - i + 1) /\ i + k - 1 \in 1..Len(s) /\ SubSeq(s, i, j)[k] = s[i + k - 1]
    BY <1>1
  <2>2. i + k - 1 \in DOMAIN s
    BY <1>1, <2>1
  <2> QED BY <2>1, <2>2 DEF Plain
<1> QED BY <1>2 DEF Plain

LEMMA PlainSplit ==
    ASSUME NEW p \in Text, Plain(p)
    PROVE  Decoded(Split(p)) = Split(p)
<1>1. Len(p) \in Nat /\ Plain(<<>>)
  BY DEF Text, Plain
<1>2. CASE ~HasEq(p)
  BY <1>1, <1>2, SplitPlain DEF Decoded, Decode
<1>3. CASE HasEq(p)
  <2>1. PICK at \in 1..Len(p) : p[at] = Eq /\ \A i \in 1..(at - 1) : p[i] # Eq
    BY <1>3, FirstEq
  <2> DEFINE x == SubSeq(p, 1, at - 1)
             y == SubSeq(p, at + 1, Len(p))
  <2>2. Split(p) = <<x, y>>
    BY <2>1, SplitAt
  <2>3. /\ at - 1 \in Nat /\ at - 1 <= Len(p) /\ 1 \in Nat \ {0}
        /\ at + 1 \in Nat \ {0} /\ Len(p) <= Len(p)
    BY <1>1
  <2>4. Plain(x)
    BY <2>3, PlainPart
  <2>5. Plain(y)
    BY <1>1, <2>3, PlainPart
  <2> HIDE DEF x, y
  <2> QED BY <2>2, <2>4, <2>5 DEF Decoded, Decode
<1> QED BY <1>2, <1>3

\* Without escapes there is nothing to decode.
LEMMA PlainPiece ==
    ASSUME NEW b \in Text, Plain(b), NEW n \in 1..(Len(b) + 1)
    PROVE  Decoded(Split(Piece(b, n))) = Split(Piece(b, n))
<1>1. b \in Seq(Nat) /\ Len(b) \in Nat /\ n \in Nat \ {0} /\ n - 1 \in Nat /\ n - 1 <= Len(b)
  BY DEF Text
<1> DEFINE l == LastAmp(b, n)
<1>2. l \in 0..(n - 1)
  BY <1>1, LastAmpIs
<1> HIDE DEF l
<1>3. Piece(b, n) = SubSeq(b, l + 1, n - 1)
  BY DEF Piece, LastAmp, l
<1>4. l + 1 \in Nat \ {0}
  BY <1>1, <1>2
<1>5. Plain(Piece(b, n))
  BY <1>1, <1>3, <1>4, PlainPart
<1> QED BY <1>5, PieceText, PlainSplit

LEMMA ArgStepType ==
    ASSUME NEW b \in Text, Plain(b), NEW n \in 1..(Len(b) + 1), NEW args \in Seq(Field)
    PROVE  ArgStep(b, n, args) \in Seq(Field)
<1>1. Split(Piece(b, n)) \in Field
  BY PieceText, SplitField
<1>2. Decoded(Split(Piece(b, n))) \in Field
  BY <1>1, PlainPiece
<1> QED BY <1>2 DEF ArgStep, WithArg

LEMMA ArgsIs ==
    ASSUME NEW b \in Text, Plain(b)
    PROVE  \E f : Arguing(b, f)
<1> DEFINE N == Len(b) + 1
           S == Seq(Field)
           step == [x \in S \X (1..N) |-> ArgStep(b, x[2], x[1])]
<1>1. N \in Nat
  BY DEF Text
<1>2. step \in [S \X (1..N) -> S]
  <2>1. ASSUME NEW x \in S \X (1..N) PROVE ArgStep(b, x[2], x[1]) \in S
    BY ArgStepType
  <2> QED BY <2>1
<1>3. <<>> \in S
  OBVIOUS
<1> HIDE DEF step, N, S
<1>4. PICK g \in [0..N -> S] : g[0] = <<>> /\ \A n \in 1..N : g[n] = step[<<g[n - 1], n>>]
  <2>1. Recurs(N, S, <<>>, step)
    BY <1>1, <1>2, <1>3, Recursion
  <2> QED BY <2>1 DEF Recurs
<1>5. ASSUME NEW n \in 1..N PROVE g[n] = ArgStep(b, n, g[n - 1])
  <2>1. n - 1 \in 0..N
    BY <1>1
  <2>2. <<g[n - 1], n>> \in S \X (1..N)
    BY <2>1
  <2>3. g[n] = step[<<g[n - 1], n>>]
    BY <1>4
  <2> QED BY <2>2, <2>3 DEF step
<1>6. Argues(b, g)
  <2>1. ASSUME NEW n \in 0..N
        PROVE  g[n] = IF n = 0 THEN <<>> ELSE ArgStep(b, n, g[n - 1])
    <3>1. n = 0 \/ n \in 1..N
      BY <1>1
    <3> QED BY <1>4, <1>5, <3>1
  <2>2. g = [n \in 0..N |-> g[n]]
    OBVIOUS
  <2> QED BY <2>1, <2>2 DEF Argues, N
<1> DEFINE f == CHOOSE h : Argues(b, h)
<1>7. Argues(b, f)
  BY <1>6
<1>8. QueryArgs(b) = f[N]
  BY DEF QueryArgs, Argues, ArgStep, N
<1> HIDE DEF f
<1>9. f[0] = <<>> /\ \A n \in 1..N : f[n] = ArgStep(b, n, f[n - 1])
  <2>1. 0 \in 0..N /\ \A n \in 1..N : n \in 0..N /\ n # 0
    BY <1>1
  <2> QED BY <1>7, <2>1 DEF Argues, N
<1> QED BY <1>8, <1>9 DEF Arguing, N

\* The pair that the parser has open is what the text since the last "&" says.
Opens(s, p, n) ==
    /\ s \in ParserState
    /\ s.kFound <=> n # 0
    /\ s.vFound <=> HasEq(p)
    /\ s.vFound => s.kFound
    /\ <<s.key, s.val>> = Split(p)
    /\ ~s.vFound => s.key = p /\ s.val = <<>>

LEMMA EmptyPiece ==
    /\ <<>> \in Text
    /\ ~HasEq(<<>>)
    /\ Split(<<>>) = <<<<>>, <<>>>>
<1>1. <<>> \in Text /\ DOMAIN <<>> = {}
  BY DEF Text
<1>2. ~HasEq(<<>>)
  BY <1>1 DEF HasEq
<1> QED BY <1>1, <1>2, SplitPlain

LEMMA OpensAfterAmp ==
    ASSUME NEW s, s \in ParserState, NEW n \in Nat \ {0}
    PROVE  /\ Opens(ParseStep(s, Amp), <<>>, n)
           /\ ParseStep(s, Amp).out = Flushed(s)
<1> DEFINE t == ParseStep(s, Amp)
<1>1. t = [Blank EXCEPT !.out = Flushed(s), !.kFound = TRUE]
  BY DEF ParseStep
<1>2. Amp \in Nat
  BY DEF Amp
<1>3. t \in ParserState
  BY <1>2, StepType
<1>4. t.out = Flushed(s) /\ t.key = <<>> /\ t.val = <<>> /\ t.kFound = TRUE /\ t.vFound = FALSE
  BY <1>1 DEF Blank
<1> HIDE DEF t
<1>5. Opens(t, <<>>, n)
  BY <1>3, <1>4, EmptyPiece DEF Opens
<1> QED BY <1>4, <1>5 DEF t

LEMMA OpensAfterOther ==
    ASSUME NEW s, NEW p \in Text, NEW n \in Nat \ {0}, Opens(s, p, n - 1),
           NEW c \in Nat, c # Amp, n = 1 => c # Eq
    PROVE  /\ Opens(ParseStep(s, c), Append(p, c), n)
           /\ ParseStep(s, c).out = s.out
<1> DEFINE t == ParseStep(s, c)
           a == Append(p, c)
<1>1. /\ s \in ParserState /\ (s.kFound <=> n # 1) /\ (s.vFound <=> HasEq(p))
      /\ (s.vFound => s.kFound)
      /\ <<s.key, s.val>> = Split(p) /\ (~s.vFound => s.key = p /\ s.val = <<>>)
  BY DEF Opens
<1>2. t \in ParserState /\ a \in Text /\ (HasEq(a) <=> HasEq(p) \/ c = Eq)
  BY <1>1, StepType, AppendText, HasEqAppend
<1>3. DOMAIN s = {"out", "key", "val", "kFound", "vFound"}
  BY <1>1 DEF ParserState
<1>4. CASE c = Eq /\ ~s.vFound
  <2>1. t = [s EXCEPT !.vFound = TRUE]
    BY <1>4 DEF ParseStep
  <2>2. t.out = s.out /\ t.key = s.key /\ t.val = s.val /\ t.kFound = s.kFound /\ t.vFound = TRUE
    BY <1>3, <2>1
  <2>3. Split(a) = <<p, <<>>>>
    BY <1>1, <1>4, SplitEq
  <2> HIDE DEF t, a
  <2>4. n # 1 /\ n # 0
    BY <1>4
  <2>5. Opens(t, a, n)
    BY <1>1, <1>2, <1>4, <2>2, <2>3, <2>4 DEF Opens
  <2> QED BY <2>2, <2>5 DEF t, a
<1>5. CASE s.vFound
  <2>1. t = [s EXCEPT !.val = Append(@, c)]
    BY <1>5 DEF ParseStep, Amp
  <2>2. t.out = s.out /\ t.key = s.key /\ t.val = Append(s.val, c) /\ t.kFound = s.kFound /\ t.vFound = s.vFound
    BY <1>3, <2>1
  <2>3. Split(a) = <<Split(p)[1], Append(Split(p)[2], c)>>
    BY <1>1, <1>5, SplitValue
  <2>4. Split(p)[1] = s.key /\ Split(p)[2] = s.val
    BY <1>1
  <2>5. n # 1
    <3> SUFFICES ASSUME n = 1 PROVE FALSE
      OBVIOUS
    <3> QED BY <1>1, <1>5
  <2> HIDE DEF t, a
  <2>6. Opens(t, a, n)
    BY <1>1, <1>2, <1>5, <2>2, <2>3, <2>4, <2>5 DEF Opens
  <2> QED BY <2>2, <2>6 DEF t, a
<1>6. CASE c # Eq /\ ~s.vFound
  <2>1. t = [s EXCEPT !.kFound = TRUE, !.key = Append(@, c)]
    BY <1>6 DEF ParseStep
  <2>2. t.out = s.out /\ t.key = Append(s.key, c) /\ t.val = s.val /\ t.kFound = TRUE /\ t.vFound = s.vFound
    BY <1>3, <2>1
  <2>3. ~HasEq(a)
    BY <1>1, <1>2, <1>6
  <2>4. Split(a) = <<a, <<>>>>
    BY <1>2, <2>3, SplitPlain
  <2>5. t.key = a
    BY <1>1, <1>6, <2>2
  <2> HIDE DEF t, a
  <2>6. Opens(t, a, n)
    BY <1>1, <1>2, <1>6, <2>2, <2>3, <2>4, <2>5 DEF Opens
  <2> QED BY <2>2, <2>6 DEF t, a
<1> QED BY <1>4, <1>5, <1>6

\* The parser of the code and the one of the library keep the same pairs.
LEMMA ParsersAgree ==
    ASSUME NEW b \in Text, Plain(b), b # <<>> => b[1] # Eq, NEW prefixes \in SUBSET Text, <<>> \notin prefixes
    PROVE  Allowed(ParseText(b), prefixes) = Allowed(QueryArgs(b), prefixes)
<1> DEFINE N == Len(b)
           A(s) == Allowed(s, prefixes)
<1>1. N \in Nat /\ \A n \in 1..N : b[n] \in Nat
  BY DEF Text
<1>2. PICK f : Parsing(b, f)
  BY ParseIs
<1>3. PICK g : Arguing(b, g)
  BY ArgsIs
<1>4. /\ ParseText(b) = Flushed(f[N]) /\ f[0] = Blank
      /\ \A n \in 1..N : f[n] = ParseStep(f[n - 1], b[n])
  BY <1>2 DEF Parsing
<1>5. /\ QueryArgs(b) = g[N + 1] /\ g[0] = <<>>
      /\ \A n \in 1..(N + 1) : g[n] = ArgStep(b, n, g[n - 1])
  BY <1>3 DEF Arguing
<1>6. <<<<>>, <<>>>> \in Field /\ ~Permits(prefixes, <<<<>>, <<>>>>)
  BY EmptyForbidden, EmptyPiece DEF Field
\* Whether an empty pair is kept makes no difference.
<1>7. ASSUME NEW s, NEW n \in 1..(N + 1), Opens(s, Piece(b, n), n - 1),
             NEW args \in Seq(Field), A(s.out) = A(args)
      PROVE  A(Flushed(s)) = A(WithArg(Split(Piece(b, n)), args))
  <2> DEFINE kv == Split(Piece(b, n))
  <2>1. /\ s \in ParserState /\ (s.kFound <=> n - 1 # 0) /\ <<s.key, s.val>> = kv
        /\ Piece(b, n) \in Text
    BY <1>7, PieceText DEF Opens
  <2>2. kv \in Field
    BY <2>1, SplitField
  <2>3. n = 1 => kv = <<<<>>, <<>>>>
    <3>1. Piece(b, 1) = <<>>
      <4>1. b \in Seq(Nat) /\ LastAmp(b, 1) = 0
        BY LastAmpIs DEF Text
      <4>2. Piece(b, 1) = SubSeq(b, 0 + 1, 1 - 1)
        BY <4>1 DEF Piece, LastAmp
      <4>3. SubSeq(b, 0 + 1, 1 - 1) = <<>>
        BY <4>1
      <4> QED BY <4>2, <4>3
    <3> QED BY <3>1, EmptyPiece
  <2> HIDE DEF kv
  <2>4. Flushed(s) = IF n = 1 THEN s.out ELSE Append(s.out, kv)
    BY <2>1 DEF Flushed
  <2>5. WithArg(kv, args) = IF kv = <<<<>>, <<>>>> THEN args ELSE Append(args, kv)
    BY DEF WithArg
  <2>6. s.out \in Seq(Field)
    BY <2>1 DEF ParserState
  <2>7. A(Append(s.out, kv)) = IF Permits(prefixes, kv) THEN Append(A(s.out), kv) ELSE A(s.out)
    BY <2>2, <2>6, AllowedAppend
  <2>8. A(Append(args, kv)) = IF Permits(prefixes, kv) THEN Append(A(args), kv) ELSE A(args)
    BY <2>2, AllowedAppend
  <2>9. A(s.out) = A(args)
    BY <1>7
  <2> DEFINE none == <<<<>>, <<>>>>
             w == WithArg(kv, args)
  <2>10. ~Permits(prefixes, none)
    BY <1>6
  <2>11. w = IF kv = none THEN args ELSE Append(args, kv)
    BY <2>5
  <2>12. n = 1 => kv = none
    BY <2>3
  <2> HIDE DEF A, none, w
  <2>13. ASSUME kv = none PROVE A(Flushed(s)) = A(w)
    <3>1. A(w) = A(args)
      BY <2>11, <2>13
    <3>2. A(Flushed(s)) = A(s.out)
      BY <2>4, <2>7, <2>10, <2>13
    <3> QED BY <2>9, <3>1, <3>2
  <2>14. ASSUME kv # none PROVE A(Flushed(s)) = A(w)
    <3>1. A(w) = A(Append(args, kv))
      BY <2>11, <2>14
    <3>2. A(Flushed(s)) = A(Append(s.out, kv))
      BY <2>4, <2>12, <2>14
    <3> QED BY <2>7, <2>8, <2>9, <3>1, <3>2
  <2> QED BY <2>13, <2>14 DEF kv, w
<1> DEFINE T == {n \in 0..N : /\ Opens(f[n], Piece(b, n + 1), n)
                              /\ g[n] \in Seq(Field)
                              /\ A(f[n].out) = A(g[n])}
<1> HIDE DEF N
<1>8. 0 \in T
  <2>1. Piece(b, 0 + 1) = <<>>
    <3>1. b \in Seq(Nat) /\ LastAmp(b, 1) = 0
      BY LastAmpIs DEF Text
    <3>2. Piece(b, 0 + 1) = SubSeq(b, 0 + 1, 1 - 1)
      BY <3>1 DEF Piece, LastAmp
    <3>3. SubSeq(b, 0 + 1, 1 - 1) = <<>>
      BY <3>1
    <3> QED BY <3>2, <3>3
  <2>2. Opens(Blank, <<>>, 0)
    <3>1. /\ Blank.key = <<>> /\ Blank.val = <<>> /\ Blank.kFound = FALSE /\ Blank.vFound = FALSE
      BY DEF Blank
    <3> QED BY <3>1, BlankType, EmptyPiece DEF Opens
  <2>3. Blank.out = <<>> /\ <<>> \in Seq(Field)
    BY DEF Blank
  <2>4. Opens(f[0], Piece(b, 0 + 1), 0)
    BY <1>4, <2>1, <2>2
  <2>5. A(f[0].out) = A(g[0]) /\ g[0] \in Seq(Field) /\ 0 \in 0..N
    BY <1>1, <1>4, <1>5, <2>3
  <2> HIDE DEF A
  <2> QED BY <2>4, <2>5
<1>9. ASSUME NEW n \in 1..N, n - 1 \in T PROVE n \in T
  <2> DEFINE s == f[n - 1]
             t == f[n]
             p == Piece(b, n)
             args == g[n - 1]
  <2>0. /\ n \in Nat \ {0} /\ n \in 1..(N + 1) /\ n \in 0..N /\ (n - 1) + 1 = n
        /\ n # N + 1 /\ n \in 1..Len(b)
    BY <1>1 DEF N
  <2>1. Opens(s, p, n - 1) /\ args \in Seq(Field) /\ A(s.out) = A(args)
    BY <1>9, <2>0
  <2>2. t = ParseStep(s, b[n]) /\ g[n] = ArgStep(b, n, args)
    BY <1>4, <1>5, <2>0
  <2>3. /\ p \in Text /\ b[n] \in Nat
        /\ Piece(b, n + 1) = IF b[n] = Amp THEN <<>> ELSE Append(p, b[n])
    BY <1>1, <2>0, PieceIs
  <2>4. s \in ParserState
    BY <2>1 DEF Opens
  <2>5. g[n] \in Seq(Field)
    BY <2>0, <2>1, <2>2, ArgStepType
  <2> HIDE DEF s, t, args
  <2>6. CASE b[n] = Amp
    <3>1. Opens(t, <<>>, n) /\ t.out = Flushed(s)
      BY <2>0, <2>2, <2>4, <2>6, OpensAfterAmp
    <3>2. g[n] = WithArg(Split(p), args)
      <4>1. Decoded(Split(p)) = Split(p)
        BY <2>0, PlainPiece
      <4> QED BY <2>2, <2>6, <4>1 DEF ArgStep
    <3>3. A(Flushed(s)) = A(WithArg(Split(p), args))
      BY <1>7, <2>0, <2>1
    <3>4. A(t.out) = A(g[n])
      BY <3>1, <3>2, <3>3
    <3>5. Piece(b, n + 1) = <<>>
      BY <2>3, <2>6
    <3> HIDE DEF A
    <3> QED BY <2>0, <2>5, <3>1, <3>4, <3>5 DEF t
  <2>7. CASE b[n] # Amp
    <3>1. n = 1 => b[n] # Eq
      <4>1. b # <<>>
        BY <1>1, <2>0 DEF N
      <4> QED BY <4>1
    <3> HIDE DEF p
    <3>2. Opens(t, Append(p, b[n]), n) /\ t.out = s.out
      BY <2>0, <2>1, <2>2, <2>3, <2>7, <3>1, OpensAfterOther
    <3>3. g[n] = args
      BY <2>0, <2>2, <2>7 DEF ArgStep, N
    <3>4. A(t.out) = A(g[n])
      BY <2>1, <3>2, <3>3
    <3>5. Piece(b, n + 1) = Append(p, b[n])
      BY <2>3, <2>7
    <3> HIDE DEF A
    <3> QED BY <2>0, <2>5, <3>2, <3>4, <3>5 DEF t
  <2> QED BY <2>6, <2>7
<1>10. N \in T
  <2> HIDE DEF T
  <2>1. \A n \in 0..N : n \in T
    BY <1>1, <1>8, <1>9, UpTo
  <2> QED BY <1>1, <2>1
<1>11. Opens(f[N], Piece(b, N + 1), N) /\ g[N] \in Seq(Field) /\ A(f[N].out) = A(g[N])
  BY <1>10
<1>12. N + 1 \in 1..(N + 1) /\ (N + 1) - 1 = N
  BY <1>1
<1>13. A(Flushed(f[N])) = A(WithArg(Split(Piece(b, N + 1)), g[N]))
  <2> HIDE DEF A, T
  <2> QED BY <1>7, <1>11, <1>12
<1>14. g[N + 1] = WithArg(Split(Piece(b, N + 1)), g[N])
  <2>1. Decoded(Split(Piece(b, N + 1))) = Split(Piece(b, N + 1))
    BY <1>12, PlainPiece DEF N
  <2> QED BY <1>5, <1>12, <2>1 DEF ArgStep, N
<1> QED BY <1>4, <1>5, <1>13, <1>14

\* Entries made of a query string have the key of requests with this query.
LEMMA ParserAgrees ==
    ASSUME NEW prefixes \in SUBSET Text, NEW b \in Text
    PROVE  SameAsQueryArgs(prefixes, b)
<1> SUFFICES ASSUME Plain(b), Trimmed(b) = b, b # <<>> => b[1] # Eq, <<>> \notin prefixes
             PROVE  KVSlice(Allowed(parseQuery(b), prefixes)) = KVSlice(Allowed(QueryArgs(b), prefixes))
  BY DEF SameAsQueryArgs
<1>1. Allowed(ParseText(b), prefixes) = Allowed(QueryArgs(b), prefixes)
  BY ParsersAgree
<1> QED BY <1>1 DEF parseQuery

\* The key of a request under its rule depends on what it asks for alone, for
\* every rule, parameters with different names, headers, and every query string
\* that NewEntryManual can read and that has no escapes (key_value.go, query.go,
\* keys.go).
THEOREM KeyIsOfTheRequestHolds ==
    ASSUME part = "keys" => input \in KeyRequest,
           part = "parse" => input \in QueryString
    PROVE  KeyIsOfTheRequest
<1>1. ASSUME part = "keys" PROVE IgnoresOrder(input.rule, input.query, input.headers)
  <2>1. input \in KeyRequest
    BY <1>1
  <2>2. input.query \in Seq(Field)
    BY <2>1 DEF KeyRequest
  <2> QED BY <2>2, OrderIgnored
<1>2. ASSUME part = "parse" PROVE SameAsQueryArgs(input.prefixes, input.bytes)
  <2>1. input \in QueryString
    BY <1>2
  <2>2. input.prefixes \in SUBSET Text /\ input.bytes \in Text
    BY <2>1 DEF QueryString
  <2> QED BY <2>2, ParserAgrees
<1> QED BY <1>1, <1>2 DEF KeyIsOfTheRequest

-----------------------------------------------------------------------------
(* Codec: what is packed can be unpacked.                                   *)

\* In b the cells of s stand at offset at.
StandsAt(b, at, s) ==
    /\ at + Len(s) <= Len(b) + 1
    /\ \A i \in 1..Len(s) : b[at + i - 1] = s[i]

LEMMA StandsParts ==
    ASSUME NEW b \in Text, NEW s \in Text, NEW t \in Text, NEW at \in Nat \ {0},
           StandsAt(b, at, s \o t)
    PROVE  StandsAt(b, at, s) /\ StandsAt(b, at + Len(s), t)
<1>1. /\ s \o t \in Text /\ Len(s) \in Nat /\ Len(t) \in Nat /\ Len(b) \in Nat
      /\ Len(s \o t) = Len(s) + Len(t)
  BY DEF Text
<1>2. \A i \in 1..Len(s) : (s \o t)[i] = s[i]
  BY DEF Text
<1>3. \A i \in 1..Len(t) : (s \o t)[Len(s) + i] = t[i]
  BY DEF Text
<1>4. \A i \in 1..(Len(s) + Len(t)) : b[at + i - 1] = (s \o t)[i]
  BY <1>1 DEF StandsAt
<1>5. at + Len(s) + Len(t) <= Len(b) + 1
  BY <1>1 DEF StandsAt
<1>6. ASSUME NEW i \in 1..Len(s) PROVE b[at + i - 1] = s[i]
  <2>1. i \in 1..(Len(s) + Len(t))
    BY <1>1
  <2> QED BY <1>2, <1>4, <2>1
<1>7. ASSUME NEW i \in 1..Len(t) PROVE b[at + Len(s) + i - 1] = t[i]
  <2>1. Len(s) + i \in 1..(Len(s) + Len(t)) /\ at + (Len(s) + i) - 1 = at + Len(s) + i - 1
    BY <1>1
  <2>2. b[at + (Len(s) + i) - 1] = (s \o t)[Len(s) + i]
    BY <1>4, <2>1
  <2> QED BY <1>3, <2>1, <2>2
<1> QED BY <1>1, <1>5, <1>6, <1>7 DEF StandsAt

LEMMA SizedText ==
    ASSUME NEW s \in Text
    PROVE  Sized(s) \in Text /\ Len(Sized(s)) = Len(s) + 1 /\ Len(s) \in Nat
BY DEF Sized, Text

\* Where a string stands with its length, it is read back.
LEMMA StringRead ==
    ASSUME NEW b \in Text, NEW s \in Text, NEW at \in Nat \ {0}, StandsAt(b, at, Sized(s))
    PROVE  StringAt(b, at) = s /\ After(b, at) = at + Len(Sized(s))
<1>1. /\ Len(s) \in Nat /\ Len(b) \in Nat /\ Len(Sized(s)) = Len(s) + 1
      /\ Sized(s)[1] = Len(s) /\ \A i \in 1..Len(s) : Sized(s)[i + 1] = s[i]
  BY DEF Sized, Text
<1>2. b[at] = Len(s)
  <2>1. 1 \in 1..Len(Sized(s)) /\ at + 1 - 1 = at
    BY <1>1
  <2>2. b[at + 1 - 1] = Sized(s)[1]
    BY <2>1 DEF StandsAt
  <2> QED BY <1>1, <2>1, <2>2
<1>3. \A i \in 1..Len(s) : b[at + i] = s[i]
  <2> TAKE i \in 1..Len(s)
  <2>1. i + 1 \in 1..Len(Sized(s)) /\ at + (i + 1) - 1 = at + i
    BY <1>1
  <2>2. b[at + (i + 1) - 1] = Sized(s)[i + 1]
    BY <2>1 DEF StandsAt
  <2> QED BY <1>1, <2>1, <2>2
<1>4. at + Len(s) <= Len(b)
  BY <1>1 DEF StandsAt
<1>5. SubSeq(b, at + 1, at + Len(s)) = s
  <2> DEFINE t == SubSeq(b, at + 1, at + Len(s))
  <2>1. t \in Seq(Nat) /\ Len(t) = Len(s)
    BY <1>1, <1>4 DEF Text
  <2>2. ASSUME NEW i \in 1..Len(s) PROVE t[i] = b[at + i]
    BY <1>1, <1>4 DEF Text
  <2> HIDE DEF t
  <2>3. \A i \in 1..Len(s) : t[i] = s[i]
    BY <1>3, <2>2
  <2>4. s \in Seq(Nat)
    BY DEF Text
  <2>5. t = s
    BY <2>1, <2>3, <2>4, SeqEqual
  <2> QED BY <2>5 DEF t
<1> QED BY <1>1, <1>2, <1>5 DEF StringAt, After

\* A header as it is packed.
OnePacked(h, mid) == Sized(h[1]) \o (mid \o Sized(h[2]))

Packs(hs, mid, f) ==
    f = [n \in 0..Len(hs) |-> IF n = 0 THEN <<>> ELSE f[n - 1] \o OnePacked(hs[n], mid)]

LEMMA OnePackedText ==
    ASSUME NEW h \in Field, NEW mid \in Text
    PROVE  OnePacked(h, mid) \in Text
<1>1. h[1] \in Text /\ h[2] \in Text
  BY DEF Field
<1>2. Sized(h[1]) \in Text /\ Sized(h[2]) \in Text
  BY <1>1, SizedText
<1>3. mid \o Sized(h[2]) \in Text
  BY <1>2 DEF Text
<1> QED BY <1>2, <1>3 DEF Text, OnePacked

\* f packs one header after the other.
Packing(hs, mid, f) ==
    /\ f \in [0..Len(hs) -> Text]
    /\ Packed(hs, mid) = f[Len(hs)]
    /\ f[0] = <<>>
    /\ \A n \in 1..Len(hs) : f[n] = f[n - 1] \o OnePacked(hs[n], mid)

\* What the loop over the headers packs.
LEMMA PackedIs ==
    ASSUME NEW hs \in Seq(Field), NEW mid \in Text
    PROVE  \E f : Packing(hs, mid, f)
<1> DEFINE N == Len(hs)
           step == [x \in Text \X (1..N) |-> x[1] \o OnePacked(hs[x[2]], mid)]
<1>1. N \in Nat /\ \A n \in 1..N : hs[n] \in Field
  OBVIOUS
<1>2. step \in [Text \X (1..N) -> Text]
  <2>1. ASSUME NEW x \in Text \X (1..N) PROVE x[1] \o OnePacked(hs[x[2]], mid) \in Text
    <3>1. x[1] \in Text /\ OnePacked(hs[x[2]], mid) \in Text
      BY <1>1, OnePackedText
    <3> QED BY <3>1 DEF Text
  <2> QED BY <2>1
<1>3. <<>> \in Text
  BY DEF Text
<1> HIDE DEF step, N
<1>4. PICK g \in [0..N -> Text] : g[0] = <<>> /\ \A n \in 1..N : g[n] = step[<<g[n - 1], n>>]
  <2>1. Recurs(N, Text, <<>>, step)
    BY <1>1, <1>2, <1>3, Recursion
  <2> QED BY <2>1 DEF Recurs
<1>5. ASSUME NEW n \in 1..N PROVE g[n] = g[n - 1] \o OnePacked(hs[n], mid)
  <2>1. n - 1 \in 0..N
    BY <1>1
  <2>2. <<g[n - 1], n>> \in Text \X (1..N)
    BY <2>1
  <2>3. g[n] = step[<<g[n - 1], n>>]
    BY <1>4
  <2> QED BY <2>2, <2>3 DEF step
<1>6. Packs(hs, mid, g)
  <2>1. ASSUME NEW n \in 0..N
        PROVE  g[n] = IF n = 0 THEN <<>> ELSE g[n - 1] \o OnePacked(hs[n], mid)
    <3>1. n = 0 \/ n \in 1..N
      BY <1>1
    <3> QED BY <1>4, <1>5, <3>1
  <2>2. g = [n \in 0..N |-> g[n]]
    OBVIOUS
  <2> QED BY <2>1, <2>2 DEF Packs, N
<1> DEFINE f == CHOOSE h : Packs(hs, mid, h)
<1>7. Packs(hs, mid, f)
  BY <1>6
<1>8. Packed(hs, mid) = f[N]
  BY DEF Packed, Packs, OnePacked, N
<1> HIDE DEF f
<1>9. /\ f[0] = <<>> /\ DOMAIN f = 0..N /\ f = [n \in 0..N |-> f[n]]
      /\ \A n \in 1..N : f[n] = f[n - 1] \o OnePacked(hs[n], mid)
  <2>1. 0 \in 0..N /\ \A n \in 1..N : n \in 0..N /\ n # 0
    BY <1>1
  <2> QED BY <1>7, <2>1 DEF Packs, N
<1>10. \A n \in 0..N : f[n] \in Text
  <2> DEFINE T == {n \in Nat : n <= N => f[n] \in Text}
  <2>1. 0 \in T
    BY <1>3, <1>9
  <2>2. ASSUME NEW n \in T PROVE n + 1 \in T
    <3> SUFFICES ASSUME n + 1 <= N PROVE f[n + 1] \in Text
      OBVIOUS
    <3>1. n \in Nat /\ n + 1 \in 1..N /\ (n + 1) - 1 = n /\ n <= N
      BY <1>1
    <3>2. f[n] \in Text /\ f[n + 1] = f[n] \o OnePacked(hs[n + 1], mid)
      BY <1>9, <3>1
    <3>3. OnePacked(hs[n + 1], mid) \in Text
      BY <1>1, <3>1, OnePackedText
    <3> QED BY <3>2, <3>3 DEF Text
  <2>3. T = Nat
    <3> HIDE DEF T
    <3>1. T \in SUBSET Nat
      BY DEF T
    <3> QED BY <2>1, <2>2, <3>1, AllNaturals
  <2> QED BY <2>3
<1>11. f \in [0..N -> Text]
  BY <1>9, <1>10
<1>12. Packing(hs, mid, f)
  BY <1>8, <1>9, <1>11 DEF N, Packing
<1> QED BY <1>12

\* The reader after one header more.
NextHeader(b, r, skip) ==
    LET value == After(b, r.at) + skip
    IN  [at  |-> After(b, value),
         out |-> Append(r.out, <<StringAt(b, r.at), StringAt(b, value)>>)]

ReadsHeaders(b, at, n, skip, f) ==
    f = [i \in 0..n |-> IF i = 0 THEN [at |-> at, out |-> <<>>] ELSE NextHeader(b, f[i - 1], skip)]

\* Where a header stands, the reader finds it.
LEMMA HeaderRead ==
    ASSUME NEW b \in Text, NEW at \in Nat \ {0}, NEW h \in Field, NEW mid \in Text, NEW out,
           StandsAt(b, at, OnePacked(h, mid))
    PROVE  NextHeader(b, [at |-> at, out |-> out], Len(mid))
             = [at |-> at + Len(OnePacked(h, mid)), out |-> Append(out, h)]
<1> DEFINE name == Sized(h[1])
           val  == Sized(h[2])
<1>1. h[1] \in Text /\ h[2] \in Text /\ h = <<h[1], h[2]>>
  BY DEF Field
<1>2. name \in Text /\ val \in Text /\ Len(name) \in Nat /\ Len(val) \in Nat /\ Len(mid) \in Nat
  BY <1>1, SizedText DEF Text
<1>3. mid \o val \in Text /\ Len(mid \o val) = Len(mid) + Len(val)
  BY <1>2 DEF Text
<1>4. Len(OnePacked(h, mid)) = Len(name) + (Len(mid) + Len(val))
  <2>1. Len(name \o (mid \o val)) = Len(name) + Len(mid \o val)
    BY <1>2, <1>3 DEF Text
  <2> QED BY <1>3, <2>1 DEF OnePacked
<1>5. StandsAt(b, at, name \o (mid \o val))
  BY DEF OnePacked
<1> HIDE DEF name, val
<1>6. StandsAt(b, at, name) /\ StandsAt(b, at + Len(name), mid \o val)
  BY <1>2, <1>3, <1>5, StandsParts
<1>7. at + Len(name) \in Nat \ {0} /\ at + Len(name) + Len(mid) \in Nat \ {0}
  BY <1>2
<1>8. StandsAt(b, at + Len(name) + Len(mid), val)
  BY <1>2, <1>6, <1>7, StandsParts
<1>9. StringAt(b, at) = h[1] /\ After(b, at) = at + Len(name)
  BY <1>1, <1>6, StringRead DEF name
<1>10. /\ StringAt(b, at + Len(name) + Len(mid)) = h[2]
       /\ After(b, at + Len(name) + Len(mid)) = at + Len(name) + Len(mid) + Len(val)
  BY <1>1, <1>7, <1>8, StringRead DEF val
<1>11. NextHeader(b, [at |-> at, out |-> out], Len(mid))
         = [at  |-> After(b, After(b, at) + Len(mid)),
            out |-> Append(out, <<StringAt(b, at), StringAt(b, After(b, at) + Len(mid))>>)]
  BY DEF NextHeader
<1>12. at + Len(name) + Len(mid) + Len(val) = at + Len(OnePacked(h, mid))
  BY <1>2, <1>4
<1> QED BY <1>1, <1>9, <1>10, <1>11, <1>12

\* The headers that were packed are read back, and the reader stops behind them.
LEMMA HeadersRead ==
    ASSUME NEW b \in Text, NEW at \in Nat \ {0}, NEW hs \in Seq(Field), NEW mid \in Text,
           StandsAt(b, at, Packed(hs, mid))
    PROVE  HeadersAt(b, at, Len(hs), Len(mid)) = [at |-> at + Len(Packed(hs, mid)), out |-> hs]
<1> DEFINE N == Len(hs)
           skip == Len(mid)
<1>1. N \in Nat /\ \A n \in 1..N : hs[n] \in Field
  OBVIOUS
<1>2. PICK p : /\ p \in [0..N -> Text] /\ Packed(hs, mid) = p[N] /\ p[0] = <<>>
               /\ \A n \in 1..N : p[n] = p[n - 1] \o OnePacked(hs[n], mid)
  <2>1. PICK q : Packing(hs, mid, q)
    BY PackedIs
  <2> QED BY <2>1 DEF Packing
<1> HIDE DEF N, skip
<1> DEFINE Upto(n) == [at |-> at + Len(p[n]), out |-> SubSeq(hs, 1, n)]
           w == [n \in 0..N |-> Upto(n)]
\* Each prefix stands where the whole does.
<1>3. \A n \in 0..N : StandsAt(b, at, p[n])
  <2> DEFINE T == {n \in Nat : n <= N => StandsAt(b, at, p[N - n])}
  <2>1. 0 \in T
    BY <1>1, <1>2
  <2>2. ASSUME NEW n \in T PROVE n + 1 \in T
    <3> SUFFICES ASSUME n + 1 <= N PROVE StandsAt(b, at, p[N - (n + 1)])
      OBVIOUS
    <3>1. /\ n \in Nat /\ n <= N /\ N - n \in 1..N /\ (N - n) - 1 = N - (n + 1)
          /\ N - (n + 1) \in 0..N
      BY <1>1
    <3>2. StandsAt(b, at, p[N - n])
      BY <3>1
    <3>3. p[N - n] = p[N - (n + 1)] \o OnePacked(hs[N - n], mid)
      BY <1>2, <3>1
    <3>4. p[N - (n + 1)] \in Text /\ OnePacked(hs[N - n], mid) \in Text
      BY <1>1, <1>2, <3>1, OnePackedText
    <3> QED BY <3>2, <3>3, <3>4, StandsParts
  <2>3. T = Nat
    <3> HIDE DEF T
    <3>1. T \in SUBSET Nat
      BY DEF T
    <3> QED BY <2>1, <2>2, <3>1, AllNaturals
  <2>4. ASSUME NEW n \in 0..N PROVE StandsAt(b, at, p[n])
    <3>1. N - n \in Nat /\ N - n <= N /\ N - (N - n) = n
      BY <1>1
    <3> QED BY <2>3, <3>1
  <2> QED BY <2>4
\* One header further.
<1>4. ASSUME NEW n \in 1..N PROVE Upto(n) = NextHeader(b, Upto(n - 1), skip)
  <2>1. n \in Nat /\ n - 1 \in 0..N /\ n \in 0..N
    BY <1>1
  <2> DEFINE q == p[n - 1]
             one == OnePacked(hs[n], mid)
  <2>2. q \in Text /\ one \in Text /\ p[n] = q \o one /\ hs[n] \in Field
    BY <1>1, <1>2, <2>1, OnePackedText
  <2>3. StandsAt(b, at, q \o one)
    BY <1>3, <2>1, <2>2
  <2>4. Len(q) \in Nat /\ at + Len(q) \in Nat \ {0} /\ Len(one) \in Nat /\ Len(q \o one) = Len(q) + Len(one)
    BY <2>2 DEF Text
  <2> HIDE DEF q, one
  <2>5. StandsAt(b, at + Len(q), one)
    BY <2>2, <2>3, StandsParts
  <2>6. NextHeader(b, [at |-> at + Len(q), out |-> SubSeq(hs, 1, n - 1)], skip)
          = [at |-> at + Len(q) + Len(one), out |-> Append(SubSeq(hs, 1, n - 1), hs[n])]
    <3> DEFINE place == at + Len(q)
               h == hs[n]
               before == SubSeq(hs, 1, n - 1)
    <3>1. place \in Nat \ {0} /\ h \in Field /\ StandsAt(b, place, OnePacked(h, mid))
      BY <2>2, <2>4, <2>5 DEF one
    <3> HIDE DEF place, h, before
    <3>2. NextHeader(b, [at |-> place, out |-> before], Len(mid))
            = [at |-> place + Len(OnePacked(h, mid)), out |-> Append(before, h)]
      BY <3>1, HeaderRead
    <3> QED BY <3>2 DEF place, h, before, one, skip
  <2>7. Append(SubSeq(hs, 1, n - 1), hs[n]) = SubSeq(hs, 1, n)
    BY <1>1, <2>1 DEF N
  <2>8. at + Len(q) + Len(one) = at + Len(p[n])
    BY <2>2, <2>4
  <2> QED BY <2>6, <2>7, <2>8 DEF q
<1>5. Upto(0) = [at |-> at, out |-> <<>>]
  <2>1. at + Len(p[0]) = at
    BY <1>2
  <2>2. SubSeq(hs, 1, 0) = <<>>
    OBVIOUS
  <2> QED BY <2>1, <2>2
<1> HIDE DEF Upto
<1>6. ReadsHeaders(b, at, N, skip, w)
  <2>1. ASSUME NEW n \in 0..N
        PROVE  w[n] = IF n = 0 THEN [at |-> at, out |-> <<>>] ELSE NextHeader(b, w[n - 1], skip)
    <3>1. CASE n = 0
      BY <1>5, <3>1
    <3>2. CASE n # 0
      <4>1. n \in 1..N /\ n - 1 \in 0..N
        BY <1>1, <3>2
      <4>2. w[n] = Upto(n) /\ w[n - 1] = Upto(n - 1)
        BY <4>1
      <4> HIDE DEF w
      <4> QED BY <1>4, <3>2, <4>1, <4>2
    <3> QED BY <3>1, <3>2
  <2>2. w = [n \in 0..N |-> w[n]]
    OBVIOUS
  <2> HIDE DEF w
  <2> QED BY <2>1, <2>2 DEF ReadsHeaders
<1> DEFINE f == CHOOSE g : ReadsHeaders(b, at, N, skip, g)
<1>7. ReadsHeaders(b, at, N, skip, f)
  BY <1>6
<1>8. HeadersAt(b, at, N, skip) = f[N]
  BY DEF HeadersAt, ReadsHeaders, NextHeader
<1> HIDE DEF f, w
\* The recursion has one solution.
<1>9. f[N] = Upto(N)
  <2> DEFINE T == {n \in Nat : n <= N => f[n] = Upto(n)}
  <2>1. 0 \in T
    <3>1. f[0] = [at |-> at, out |-> <<>>]
      BY <1>1, <1>7 DEF ReadsHeaders
    <3> QED BY <1>5, <3>1
  <2>2. ASSUME NEW n \in T PROVE n + 1 \in T
    <3> SUFFICES ASSUME n + 1 <= N PROVE f[n + 1] = Upto(n + 1)
      OBVIOUS
    <3>1. n \in Nat /\ n + 1 \in 1..N /\ n + 1 \in 0..N /\ (n + 1) - 1 = n /\ n <= N /\ n + 1 # 0
      BY <1>1
    <3>2. f[n + 1] = NextHeader(b, f[n], skip)
      BY <1>7, <3>1 DEF ReadsHeaders
    <3>3. f[n] = Upto(n)
      BY <3>1
    <3> QED BY <1>4, <3>1, <3>2, <3>3
  <2>3. T = Nat
    <3> HIDE DEF T
    <3>1. T \in SUBSET Nat
      BY DEF T
    <3> QED BY <2>1, <2>2, <3>1, AllNaturals
  <2> QED BY <1>1, <2>3
<1>10. SubSeq(hs, 1, N) = hs
  BY DEF N
<1>11. HeadersAt(b, at, N, skip) = [at |-> at + Len(Packed(hs, mid)), out |-> hs]
  BY <1>2, <1>8, <1>9, <1>10 DEF Upto
<1> QED BY <1>11 DEF N, skip

LEMMA PackedText ==
    ASSUME NEW hs \in Seq(Field), NEW mid \in Text
    PROVE  Packed(hs, mid) \in Text
<1>1. PICK p : p \in [0..Len(hs) -> Text] /\ Packed(hs, mid) = p[Len(hs)]
  <2>1. PICK q : Packing(hs, mid, q)
    BY PackedIs
  <2> QED BY <2>1 DEF Packing
<1>2. Len(hs) \in 0..Len(hs)
  OBVIOUS
<1> QED BY <1>1, <1>2

LEMMA CellText == ASSUME NEW c \in Nat PROVE <<c>> \in Text /\ Len(<<c>>) = 1
BY DEF Text

LEMMA ConcatText == ASSUME NEW s \in Text, NEW t \in Text
                    PROVE  s \o t \in Text /\ Len(s \o t) = Len(s) + Len(t) /\ Len(s) \in Nat
BY DEF Text

\* A cell that stands somewhere can be read there.
LEMMA CellRead ==
    ASSUME NEW b \in Text, NEW at \in Nat \ {0}, NEW c \in Nat, StandsAt(b, at, <<c>>)
    PROVE  b[at] = c
<1>1. 1 \in 1..Len(<<c>>) /\ at + 1 - 1 = at /\ <<c>>[1] = c
  OBVIOUS
<1>2. b[at + 1 - 1] = <<c>>[1]
  BY <1>1 DEF StandsAt
<1> QED BY <1>1, <1>2

LEMMA WholeStands == ASSUME NEW b \in Text PROVE StandsAt(b, 1, b)
BY DEF StandsAt, Text

\* Two texts, one behind the other, and where the second begins.
LEMMA StandsBehind ==
    ASSUME NEW b \in Text, NEW s \in Text, NEW t \in Text, NEW at \in Nat \ {0},
           StandsAt(b, at, s \o t)
    PROVE  /\ StandsAt(b, at, s) /\ StandsAt(b, at + Len(s), t)
           /\ at + Len(s) \in Nat \ {0}
           /\ at + Len(s) + Len(t) = at + Len(s \o t)
BY StandsParts, ConcatText DEF Text

\* Whatever follows: a payload that was packed is unpacked to what it was made of.
LEMMA UnpackPacked ==
    ASSUME NEW req \in [path : Text, query : Text, headers : Seq(Field)],
           NEW resp \in [status : Nat, body : Text, headers : Seq(Field)]
    PROVE  /\ Pack(req, resp) \in Text
           /\ Unpack(Pack(req, resp)) = [req |-> req, resp |-> resp]
<1> DEFINE b  == Pack(req, resp)
           s1 == Sized(req.path)
           s2 == Sized(req.query)
           s3 == <<Len(req.headers)>>
           s4 == Packed(req.headers, <<>>)
           s5 == <<resp.status>>
           s6 == <<Len(resp.headers)>>
           s7 == Packed(resp.headers, <<1>>)
           s8 == Sized(resp.body)
           t7 == s7 \o s8
           t6 == s6 \o t7
           t5 == s5 \o t6
           t4 == s4 \o t5
           t3 == s3 \o t4
           t2 == s2 \o t3
           a2 == 1 + Len(s1)
           a3 == a2 + Len(s2)
           a4 == a3 + Len(s3)
           a5 == a4 + Len(s4)
           a6 == a5 + Len(s5)
           a7 == a6 + Len(s6)
           a8 == a7 + Len(s7)
<1>1. /\ req.path \in Text /\ req.query \in Text /\ req.headers \in Seq(Field)
      /\ resp.body \in Text /\ resp.status \in Nat /\ resp.headers \in Seq(Field)
      /\ Len(req.headers) \in Nat /\ Len(resp.headers) \in Nat
  OBVIOUS
<1>2. <<>> \in Text /\ <<1>> \in Text /\ Len(<<>>) = 0 /\ Len(<<1>>) = 1
  BY DEF Text
<1>3. /\ s1 \in Text /\ s2 \in Text /\ s3 \in Text /\ s4 \in Text /\ s5 \in Text /\ s6 \in Text
      /\ s7 \in Text /\ s8 \in Text
  BY <1>1, <1>2, SizedText, CellText, PackedText
<1>4. Len(s3) = 1 /\ Len(s5) = 1 /\ Len(s6) = 1
  BY <1>1
<1>5. b = s1 \o t2
  BY DEF Pack
<1> HIDE DEF b, s1, s2, s3, s4, s5, s6, s7, s8
<1>6. /\ t7 \in Text /\ t6 \in Text /\ t5 \in Text /\ t4 \in Text /\ t3 \in Text /\ t2 \in Text
  <2>1. t7 \in Text
    BY <1>3, ConcatText
  <2>2. t6 \in Text
    BY <1>3, <2>1, ConcatText
  <2>3. t5 \in Text
    BY <1>3, <2>2, ConcatText
  <2>4. t4 \in Text
    BY <1>3, <2>3, ConcatText
  <2>5. t3 \in Text
    BY <1>3, <2>4, ConcatText
  <2>6. t2 \in Text
    BY <1>3, <2>5, ConcatText
  <2> QED BY <2>1, <2>2, <2>3, <2>4, <2>5, <2>6
<1>7. b \in Text
  BY <1>3, <1>5, <1>6, ConcatText
<1> HIDE DEF t2, t3, t4, t5, t6, t7, a2, a3, a4, a5, a6, a7, a8
<1>8. StandsAt(b, 1, s1) /\ StandsAt(b, a2, t2) /\ a2 \in Nat \ {0}
  <2>1. StandsAt(b, 1, s1 \o t2)
    BY <1>5, <1>7, WholeStands
  <2> QED BY <1>3, <1>6, <1>7, <2>1, StandsBehind DEF a2
<1>9. StandsAt(b, a2, s2) /\ StandsAt(b, a3, t3) /\ a3 \in Nat \ {0}
  BY <1>3, <1>6, <1>7, <1>8, StandsBehind DEF a3, t2
<1>10. StandsAt(b, a3, s3) /\ StandsAt(b, a4, t4) /\ a4 \in Nat \ {0}
  BY <1>3, <1>6, <1>7, <1>9, StandsBehind DEF a4, t3
<1>11. StandsAt(b, a4, s4) /\ StandsAt(b, a5, t5) /\ a5 \in Nat \ {0}
  BY <1>3, <1>6, <1>7, <1>10, StandsBehind DEF a5, t4
<1>12. StandsAt(b, a5, s5) /\ StandsAt(b, a6, t6) /\ a6 \in Nat \ {0}
  BY <1>3, <1>6, <1>7, <1>11, StandsBehind DEF a6, t5
<1>13. StandsAt(b, a6, s6) /\ StandsAt(b, a7, t7) /\ a7 \in Nat \ {0}
  BY <1>3, <1>6, <1>7, <1>12, StandsBehind DEF a7, t6
<1>14. StandsAt(b, a7, s7) /\ StandsAt(b, a8, s8) /\ a8 \in Nat \ {0}
  BY <1>3, <1>6, <1>7, <1>13, StandsBehind DEF a8, t7
\* The reader's offsets are where the parts stand.
<1>15. StringAt(b, 1) = req.path /\ After(b, 1) = a2
  BY <1>1, <1>7, <1>8, StringRead DEF a2, s1
<1>16. StringAt(b, a2) = req.query /\ After(b, a2) = a3
  BY <1>1, <1>7, <1>8, <1>9, StringRead DEF a3, s2
<1>17. b[a3] = Len(req.headers) /\ a4 = a3 + 1
  BY <1>1, <1>4, <1>7, <1>9, <1>10, CellRead DEF s3, a4
<1>18. HeadersAt(b, a4, Len(req.headers), 0) = [at |-> a5, out |-> req.headers]
  <2>1. StandsAt(b, a4, Packed(req.headers, <<>>))
    BY <1>11 DEF s4
  <2>2. HeadersAt(b, a4, Len(req.headers), Len(<<>>))
          = [at |-> a4 + Len(Packed(req.headers, <<>>)), out |-> req.headers]
    <3> DEFINE hs == req.headers
               mid == <<>>
    <3>1. hs \in Seq(Field) /\ mid \in Text /\ StandsAt(b, a4, Packed(hs, mid))
      BY <1>1, <1>2, <2>1
    <3> HIDE DEF hs, mid
    <3>2. HeadersAt(b, a4, Len(hs), Len(mid)) = [at |-> a4 + Len(Packed(hs, mid)), out |-> hs]
      BY <1>7, <1>10, <3>1, HeadersRead
    <3> QED BY <3>2 DEF hs, mid
  <2> QED BY <1>2, <2>2 DEF s4, a5
<1>19. b[a5] = resp.status /\ a6 = a5 + 1
  BY <1>1, <1>4, <1>7, <1>11, <1>12, CellRead DEF s5, a6
<1>20. b[a6] = Len(resp.headers) /\ a7 = a6 + 1
  BY <1>1, <1>4, <1>7, <1>12, <1>13, CellRead DEF s6, a7
<1>21. HeadersAt(b, a7, Len(resp.headers), CountWidth) = [at |-> a8, out |-> resp.headers]
  <2>1. StandsAt(b, a7, Packed(resp.headers, <<1>>))
    BY <1>14 DEF s7
  <2>2. HeadersAt(b, a7, Len(resp.headers), Len(<<1>>))
          = [at |-> a7 + Len(Packed(resp.headers, <<1>>)), out |-> resp.headers]
    <3> DEFINE hs == resp.headers
               mid == <<1>>
    <3>1. hs \in Seq(Field) /\ mid \in Text /\ StandsAt(b, a7, Packed(hs, mid))
      BY <1>1, <1>2, <2>1
    <3> HIDE DEF hs, mid
    <3>2. HeadersAt(b, a7, Len(hs), Len(mid)) = [at |-> a7 + Len(Packed(hs, mid)), out |-> hs]
      BY <1>7, <1>13, <3>1, HeadersRead
    <3> QED BY <3>2 DEF hs, mid
  <2> QED BY <1>2, <2>2 DEF s7, a8, CountWidth
\* The body goes to the end.
<1>22. SubSeq(b, a8 + 1, Len(b)) = resp.body
  <2>1. StringAt(b, a8) = resp.body /\ b[a8] = Len(resp.body)
    <3>1. /\ StringAt(b, a8) = resp.body /\ After(b, a8) = a8 + Len(s8)
          /\ Len(s8) = Len(resp.body) + 1 /\ Len(resp.body) \in Nat
      BY <1>1, <1>7, <1>14, StringRead, SizedText DEF s8
    <3>2. s8[1] = Len(resp.body) /\ 1 \in 1..Len(s8) /\ a8 + 1 - 1 = a8
      BY <1>1, <1>14, <3>1 DEF s8, Sized, Text
    <3>3. b[a8 + 1 - 1] = s8[1]
      BY <1>14, <3>2 DEF StandsAt
    <3> QED BY <3>1, <3>2, <3>3
  <2>2. Len(b) = a8 + Len(resp.body)
    <3>1. /\ Len(t7) = Len(s7) + Len(s8) /\ Len(t6) = Len(s6) + Len(t7)
          /\ Len(t5) = Len(s5) + Len(t6) /\ Len(t4) = Len(s4) + Len(t5)
          /\ Len(t3) = Len(s3) + Len(t4) /\ Len(t2) = Len(s2) + Len(t3)
          /\ Len(b) = Len(s1) + Len(t2)
      BY <1>3, <1>5, <1>6, ConcatText DEF t2, t3, t4, t5, t6, t7
    <3>2. /\ Len(s1) \in Nat /\ Len(s2) \in Nat /\ Len(s4) \in Nat /\ Len(s7) \in Nat
          /\ Len(s8) = Len(resp.body) + 1 /\ Len(resp.body) \in Nat
      <4>1. Len(s8) = Len(resp.body) + 1 /\ Len(resp.body) \in Nat
        BY <1>1, SizedText DEF s8
      <4> QED BY <1>3, <4>1, ConcatText
    <3> QED BY <1>4, <3>1, <3>2 DEF a2, a3, a4, a5, a6, a7, a8
  <2> QED BY <2>1, <2>2 DEF StringAt
<1>23. Unpack(b) =
         [req  |-> [path |-> StringAt(b, 1), query |-> StringAt(b, a2), headers |-> req.headers],
          resp |-> [status |-> b[a5], headers |-> resp.headers, body |-> SubSeq(b, a8 + 1, Len(b))]]
  <2> DEFINE reqH  == HeadersAt(b, a3 + 1, b[a3], 0)
             respH == HeadersAt(b, reqH.at + 2, b[reqH.at + 1], CountWidth)
  <2>1. reqH = [at |-> a5, out |-> req.headers]
    BY <1>17, <1>18
  <2>2. reqH.at + 2 = a7 /\ reqH.at + 1 = a6
    <3>1. a5 + 2 = a7 /\ a5 + 1 = a6
      BY <1>11, <1>19, <1>20
    <3> QED BY <2>1, <3>1
  <2>3. respH = [at |-> a8, out |-> resp.headers]
    BY <1>20, <1>21, <2>2
  <2>4. After(b, After(b, 1)) = a3
    BY <1>15, <1>16
  <2>5. Unpack(b) =
          [req  |-> [path |-> StringAt(b, 1), query |-> StringAt(b, a2), headers |-> reqH.out],
           resp |-> [status |-> b[reqH.at], headers |-> respH.out,
                     body |-> SubSeq(b, respH.at + 1, Len(b))]]
    BY <1>15, <2>4 DEF Unpack
  <2> HIDE DEF reqH, respH
  <2> QED BY <2>1, <2>3, <2>5
<1>24. /\ req = [path |-> req.path, query |-> req.query, headers |-> req.headers]
       /\ resp = [status |-> resp.status, headers |-> resp.headers, body |-> resp.body]
  OBVIOUS
<1>25. Unpack(b) = [req |-> req, resp |-> resp]
  BY <1>15, <1>16, <1>19, <1>22, <1>23, <1>24
<1> QED BY <1>7, <1>25 DEF b

\* A record of the dump gives the entry it was made of, if its rule is known.
LEMMA RecordRestores ==
    ASSUME NEW rules, NEW key \in Nat, NEW path \in Text, NEW payload \in Text, path \in rules
    PROVE  LET e == [rule |-> path, key |-> key, refreshedAt |-> 0, payload |-> payload]
           IN  EntryFromBytes(ToBytes(e), rules) = {e}
<1> DEFINE e == [rule |-> path, key |-> key, refreshedAt |-> 0, payload |-> payload]
           b == ToBytes(e)
           s1 == Sized(path)
           s4 == Sized(payload)
           a2 == 1 + Len(s1)
<1>1. s1 \in Text /\ s4 \in Text /\ <<key>> \in Text /\ <<0>> \in Text /\ Len(s1) \in Nat
  BY SizedText, CellText, ConcatText
<1>2. b = s1 \o <<key>> \o <<0>> \o s4
  BY DEF ToBytes
<1> HIDE DEF e, b, s1, s4
<1>3. <<0>> \o s4 \in Text /\ <<key>> \o (<<0>> \o s4) \in Text
  BY <1>1, ConcatText
<1>4. b = s1 \o (<<key>> \o (<<0>> \o s4))
  BY <1>1, <1>2 DEF Text
<1>5. b \in Text
  BY <1>1, <1>3, <1>4, ConcatText
<1>6. StandsAt(b, 1, s1) /\ StandsAt(b, a2, <<key>> \o (<<0>> \o s4)) /\ a2 \in Nat \ {0}
  <2>1. StandsAt(b, 1, s1 \o (<<key>> \o (<<0>> \o s4)))
    BY <1>4, <1>5, WholeStands
  <2> QED BY <1>1, <1>3, <1>5, <2>1, StandsBehind
<1> HIDE DEF a2
<1>7. StandsAt(b, a2, <<key>>) /\ StandsAt(b, a2 + 1, <<0>> \o s4) /\ a2 + 1 \in Nat \ {0}
  <2>1. Len(<<key>>) = 1 /\ <<key>> \in Text
    BY <1>1
  <2>2. StandsAt(b, a2, <<key>>) /\ StandsAt(b, a2 + Len(<<key>>), <<0>> \o s4)
    BY <1>1, <1>3, <1>5, <1>6, StandsBehind
  <2> QED BY <1>6, <2>1, <2>2
<1>8. StandsAt(b, a2 + 1, <<0>>) /\ StandsAt(b, a2 + 2, s4) /\ a2 + 2 \in Nat \ {0}
  <2>1. Len(<<0>>) = 1 /\ (a2 + 1) + 1 = a2 + 2
    BY <1>6
  <2>2. StandsAt(b, a2 + 1, <<0>>) /\ StandsAt(b, (a2 + 1) + Len(<<0>>), s4)
    BY <1>1, <1>5, <1>7, StandsBehind
  <2> QED BY <1>6, <2>1, <2>2
<1>9. StringAt(b, 1) = path /\ After(b, 1) = a2
  BY <1>5, <1>6, StringRead DEF a2, s1
<1>10. b[a2] = key /\ b[a2 + 1] = 0
  BY <1>5, <1>6, <1>7, <1>8, CellRead
<1>11. StringAt(b, a2 + 2) = payload
  BY <1>5, <1>8, StringRead DEF s4
<1>12. EntryFromBytes(b, rules)
         = {[rule |-> path, key |-> key, refreshedAt |-> 0, payload |-> payload]}
  BY <1>9, <1>10, <1>11 DEF EntryFromBytes
<1> QED BY <1>12 DEF b, e

\* What a dump holds of an entry gives it back, whatever the strings, the
\* number of headers and the numbers are, up to the width of a number
\* (payload.go: SetPayload and Payload; to_bytes.go: ToBytes and EntryFromBytes).
THEOREM DumpRestoresEntryHolds ==
    ASSUME part = "codec" => input \in Exchange
    PROVE  DumpRestoresEntry
<1> SUFFICES ASSUME part = "codec", input.req.path \in input.rules
             PROVE  LET e == [rule |-> input.req.path, key |-> input.key, refreshedAt |-> 0,
                              payload |-> Pack(input.req, input.resp)]
                    IN  /\ EntryFromBytes(ToBytes(e), input.rules) = {e}
                        /\ Unpack(e.payload) = [req |-> input.req, resp |-> input.resp]
  BY DEF DumpRestoresEntry, RestoresEntry
<1>1. /\ input.key \in Nat /\ input.req \in [path : Text, query : Text, headers : Seq(Field)]
      /\ input.resp \in [status : Nat, body : Text, headers : Seq(Field)]
      /\ input.req.path \in Text
  BY DEF Exchange
<1>2. /\ Pack(input.req, input.resp) \in Text
      /\ Unpack(Pack(input.req, input.resp)) = [req |-> input.req, resp |-> input.resp]
  BY <1>1, UnpackPacked
<1> QED BY <1>1, <1>2, RecordRestores

-----------------------------------------------------------------------------
(* Each state of each part has its type.                                    *)

\* Each behaviour runs one of the parts.
PartsVars ==
    <<apiVars, probeVars, admissionVars, poolVars, refresherVars, statsVars, evictionVars,
      startVars, part, input>>

\* The invariant of the part that runs.
PartsInv ==
    /\ part = "api" => ApiInv
    /\ part = "probe" => ProbeTypeOK
    /\ part = "admission" => AdmInv
    /\ part = "pools" => PoolsInv
    /\ part \in {"errors", "refresher"} => MapsApartInv
    /\ part = "refresher" => AddsUp
    /\ part \in {"stats", "evictions"} => StatsInv
    /\ part = "start" => StartTyped

LEMMA PartsInitially == Init => PartsInv
<1> SUFFICES ASSUME Init PROVE PartsInv
  OBVIOUS
<1>1. /\ ApiInit /\ ProbeInit /\ AdmissionInit /\ PoolsInit /\ RefresherInit /\ StatsInit
      /\ part = "start" => StartInit
  BY DEF Init
<1>2. ApiInv /\ ProbeTypeOK /\ AdmInv /\ PoolsInv
  BY <1>1, ApiTypedInitially, ProbeInitiallyLone, AdmissionInitially, PoolsTypedInitially DEF ProbeInv
<1>3. MapsApartInv /\ AddsUp /\ StatsInv
  BY <1>1, ApartInitially, AddsUpInitially, StatsTypedInitially DEF RefresherInit
<1>4. part = "start" => StartTyped
  BY <1>1, StartTypedInitially
<1> QED BY <1>2, <1>3, <1>4 DEF PartsInv

\* A step is one of the part that runs.
LEMMA OnePartSteps ==
    ASSUME [Next]_PartsVars
    PROVE  /\ part' = part
           /\ part = "api" => [ApiNext]_apiVars
           /\ part = "probe" => [ProbeNext]_probeVars
           /\ part = "admission" => [AdmissionNext]_admissionVars
           /\ part = "pools" => [PoolsNext]_poolVars
           /\ part \in {"errors", "refresher"} => [ErrorLogNext]_errorLogVars
           /\ part = "refresher" => [RefresherNext]_refresherVars
           /\ part \in {"stats", "evictions"} =>
                 [StatsNext]_statsVars /\ [EvictionsNext]_evictionVars
           /\ part = "start" => [StartNext]_startVars
<1>1. CASE UNCHANGED PartsVars
  BY <1>1 DEF PartsVars, refresherVars
<1>2. CASE Next
  <2>1. part' = part
    BY <1>2 DEF Next
  <2>2. /\ part = "api" => ApiNext
        /\ part = "probe" => ProbeNext
        /\ part = "admission" => AdmissionNext
        /\ part = "pools" => PoolsNext
        /\ part = "errors" => ErrorLogNext
        /\ part = "refresher" => RefresherNext
        /\ part = "stats" => StatsNext
        /\ part = "evictions" => EvictionsNext
        /\ part = "start" => StartNext
    BY <1>2 DEF Next
  <2>3. /\ part = "stats" => UNCHANGED evictionVars
        /\ part = "evictions" => UNCHANGED statsVars
    BY <1>2 DEF Next, Others
  <2> QED BY <2>1, <2>2, <2>3, LogsErrors
<1> QED BY <1>1, <1>2

LEMMA PartsKept == PartsInv /\ [Next]_PartsVars => PartsInv'
<1> SUFFICES ASSUME PartsInv, [Next]_PartsVars PROVE PartsInv'
  OBVIOUS
<1>1. part' = part
  BY OnePartSteps
<1>2. part = "api" => ApiInv'
  BY OnePartSteps, ApiTypeKept DEF PartsInv
<1>3. part = "probe" => ProbeTypeOK'
  BY OnePartSteps, ProbeTypeKept DEF PartsInv
<1>4. part = "admission" => AdmInv'
  BY OnePartSteps, AdmissionKept DEF PartsInv
<1>5. part = "pools" => PoolsInv'
  BY OnePartSteps, PoolsTypeKept DEF PartsInv
<1>6. part \in {"errors", "refresher"} => MapsApartInv'
  BY OnePartSteps, ApartKept DEF PartsInv
<1>7. part = "refresher" => AddsUp'
  BY OnePartSteps, AddsUpKept DEF PartsInv
<1>8. part \in {"stats", "evictions"} => StatsInv'
  BY OnePartSteps, StatsTypeKept DEF PartsInv
<1>9. part = "start" => StartTyped'
  BY OnePartSteps, StartTypeKept DEF PartsInv
<1> QED BY <1>1, <1>2, <1>3, <1>4, <1>5, <1>6, <1>7, <1>8, <1>9 DEF PartsInv

LEMMA PartsTyped == PartsInv => TypeOK
<1> SUFFICES ASSUME PartsInv PROVE TypeOK
  OBVIOUS
<1>1. /\ part = "api" => ApiTypeOK
      /\ part = "probe" => ProbeTypeOK
      /\ part = "admission" => AdmissionTypeOK
      /\ part = "pools" => PoolsTypeOK
      /\ part \in {"errors", "refresher"} => ErrorLogTypeOK
      /\ part = "refresher" => RefresherTypeOK
      /\ part \in {"stats", "evictions"} => StatsTypeOK
      /\ part = "start" => StartTypeOK
  BY ApiTyped, PoolsTyped, StatsTyped, StartTypeIs DEF PartsInv, AdmInv, Covered, MapsApartInv, AddsUp
<1>2. CASE part = "api"
  BY <1>1, <1>2 DEF TypeOK
<1>3. CASE part = "probe"
  BY <1>1, <1>3 DEF TypeOK
<1>4. CASE part = "admission"
  BY <1>1, <1>4 DEF TypeOK
<1>5. CASE part = "pools"
  BY <1>1, <1>5 DEF TypeOK
<1>6. CASE part = "errors"
  BY <1>1, <1>6 DEF TypeOK
<1>7. CASE part = "refresher"
  BY <1>1, <1>7 DEF TypeOK
<1>8. CASE part = "stats" \/ part = "evictions"
  BY <1>1, <1>8 DEF TypeOK
<1>9. CASE part = "start"
  BY <1>1, <1>9 DEF TypeOK
<1>10. CASE part \notin {"api", "probe", "admission", "pools", "errors", "refresher", "stats",
                         "evictions", "start"}
  BY <1>10 DEF TypeOK
<1> QED BY <1>2, <1>3, <1>4, <1>5, <1>6, <1>7, <1>8, <1>9, <1>10

\* Whichever part runs, its state keeps its type, for any number of clients,
\* goroutines, keys and files: requests are where the handlers of api can leave
\* them, a pair's response has headers of the upstream's answers and at most two
\* releases are deferred, the channels are not over their capacities, and gauges
\* are registered for backends of the configurations only.
THEOREM PartsTypeCorrect == Spec => []TypeOK
BY PartsInitially, PartsKept, PartsTyped, PTL DEF Spec, PartsVars
===============================================================================
