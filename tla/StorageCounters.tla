--------------------------- MODULE StorageCounters ---------------------------
(***************************************************************************)
(* The counters of Storage: every variable keeps its type; no step of any  *)
(* goroutine loses or invents a length or a weight, apart from Clear and   *)
(* from the replacement of a payload in place; and where there is neither, *)
(* the memory counter is the weight of what the shard holds.  First, how   *)
(* sums over a finite set change with one summand.                         *)
(***************************************************************************)
EXTENDS StorageLists

USE DEF Storing, Inserting, Answering, Removal, Waiting

-----------------------------------------------------------------------------
\* The recursion of SumFunctionOnSet over the subsets of S.
Chosen(T) == CHOOSE x \in T : TRUE

Part(f, g, T) == IF T = {} THEN 0 ELSE f[Chosen(T)] + g[T \ {Chosen(T)}]

Adds(f, S, g) == g = [T \in SUBSET S |-> Part(f, g, T)]

Ints(f, S) == \A x \in S : f[x] \in Int

LEMMA SumUnfolds ==
    ASSUME NEW f, NEW S
    PROVE  SumFunctionOnSet(f, S) = (CHOOSE g : Adds(f, S, g))[S]
BY DEF SumFunctionOnSet, FoldFunctionOnSet, MapThenFoldSet, Adds, Part, Chosen

\* Parts of a finite set are smaller by the chosen element.
LEMMA ChosenIn ==
    ASSUME NEW S, IsFiniteSet(S), NEW T \in SUBSET S, T # {}
    PROVE  /\ Chosen(T) \in T
           /\ T \ {Chosen(T)} \in SUBSET S
           /\ IsFiniteSet(T) /\ Cardinality(T) \in Nat /\ Cardinality(T) > 0
           /\ Cardinality(T \ {Chosen(T)}) = Cardinality(T) - 1
<1>1. Chosen(T) \in T
  BY DEF Chosen
<1>2. IsFiniteSet(T)
  BY FS_Subset
<1>3. Cardinality(T) \in Nat /\ Cardinality(T) # 0
  BY <1>2, FS_CardinalityType, FS_EmptySet
<1>4. Cardinality(T \ {Chosen(T)}) = Cardinality(T) - 1
  BY <1>1, <1>2, FS_RemoveElement
<1> QED BY <1>1, <1>2, <1>3, <1>4

LEMMA NoneIn ==
    ASSUME NEW S, IsFiniteSet(S), NEW T \in SUBSET S, Cardinality(T) <= 0
    PROVE  T = {}
<1>1. IsFiniteSet(T)
  BY FS_Subset
<1>2. Cardinality(T) \in Nat
  BY <1>1, FS_CardinalityType
<1>3. Cardinality(T) = 0
  BY <1>2
<1> QED BY <1>1, <1>3, FS_EmptySet

\* There is a function that adds up every subset.
LEMMA SumExists ==
    ASSUME NEW f, NEW S, IsFiniteSet(S), Ints(f, S)
    PROVE  \E g \in [SUBSET S -> Int] : Adds(f, S, g)
<1> DEFINE UpTo(g, n) == \A T \in SUBSET S : Cardinality(T) <= n => g[T] = Part(f, g, T)
           N == {n \in Nat : \E g \in [SUBSET S -> Int] : UpTo(g, n)}
<1>1. 0 \in N
  <2> DEFINE g == [T \in SUBSET S |-> 0]
  <2>1. ASSUME NEW T \in SUBSET S, Cardinality(T) <= 0 PROVE g[T] = Part(f, g, T)
    <3>1. T = {}
      BY <2>1, NoneIn
    <3> QED BY <3>1 DEF Part
  <2>2. g \in [SUBSET S -> Int]
    OBVIOUS
  <2> HIDE DEF g
  <2> QED BY <2>1, <2>2
<1>2. ASSUME NEW n \in N PROVE n + 1 \in N
  <2>1. PICK g \in [SUBSET S -> Int] : UpTo(g, n)
    OBVIOUS
  <2> DEFINE h == [T \in SUBSET S |-> Part(f, g, T)]
  <2>2. h \in [SUBSET S -> Int]
    <3>1. ASSUME NEW T \in SUBSET S, T # {} PROVE f[Chosen(T)] + g[T \ {Chosen(T)}] \in Int
      <4>1. Chosen(T) \in S /\ T \ {Chosen(T)} \in SUBSET S
        BY <3>1, ChosenIn
      <4>2. f[Chosen(T)] \in Int /\ g[T \ {Chosen(T)}] \in Int
        BY <4>1 DEF Ints
      <4> QED BY <4>2
    <3> QED BY <3>1 DEF Part
  <2>3. ASSUME NEW T \in SUBSET S, Cardinality(T) <= n PROVE h[T] = g[T]
    BY <2>1, <2>3
  <2>4. ASSUME NEW T \in SUBSET S, Cardinality(T) <= n + 1 PROVE h[T] = Part(f, h, T)
    <3>1. CASE T = {}
      BY <3>1 DEF Part
    <3>2. CASE T # {}
      <4>1. T \ {Chosen(T)} \in SUBSET S /\ Cardinality(T \ {Chosen(T)}) <= n
        BY <2>4, <3>2, ChosenIn
      <4>2. h[T \ {Chosen(T)}] = g[T \ {Chosen(T)}]
        BY <2>3, <4>1
      <4> QED BY <3>2, <4>2 DEF Part
    <3> QED BY <3>1, <3>2
  <2> HIDE DEF h
  <2>5. n + 1 \in Nat /\ UpTo(h, n + 1)
    BY <2>4
  <2> QED BY <2>2, <2>5
<1>3. N = Nat
  <2> HIDE DEF N
  <2>1. N \in SUBSET Nat
    BY DEF N
  <2> QED BY <1>1, <1>2, <2>1, NatSubset
<1>4. Cardinality(S) \in Nat /\ \A T \in SUBSET S : Cardinality(T) <= Cardinality(S)
  BY FS_CardinalityType, FS_Subset
<1>5. PICK g \in [SUBSET S -> Int] : UpTo(g, Cardinality(S))
  BY <1>3, <1>4
<1>6. g = [T \in SUBSET S |-> g[T]] /\ \A T \in SUBSET S : g[T] = Part(f, g, T)
  BY <1>4, <1>5
<1> QED BY <1>5, <1>6 DEF Adds

\* Subsets with equal summands have equal sums.
LEMMA SumsAgree ==
    ASSUME NEW S, IsFiniteSet(S), NEW f, NEW g, Adds(f, S, g),
           NEW V, IsFiniteSet(V), NEW e, NEW h, Adds(e, V, h),
           NEW U \in SUBSET (S \cap V), \A x \in U : f[x] = e[x]
    PROVE  g[U] = h[U]
<1> DEFINE N == {n \in Nat : \A T \in SUBSET U : Cardinality(T) <= n => g[T] = h[T]}
<1>1. \A T \in SUBSET U : g[T] = Part(f, g, T) /\ h[T] = Part(e, h, T)
  BY DEF Adds
<1>2. IsFiniteSet(U)
  BY FS_Subset
<1>3. 0 \in N
  <2>1. \A T \in SUBSET U : Cardinality(T) <= 0 => T = {}
    BY <1>2, NoneIn
  <2> QED BY <1>1, <2>1 DEF Part
<1>4. ASSUME NEW n \in N PROVE n + 1 \in N
  <2> SUFFICES ASSUME NEW T \in SUBSET U, Cardinality(T) <= n + 1 PROVE g[T] = h[T]
    OBVIOUS
  <2>3. CASE T = {}
    BY <1>1, <2>3 DEF Part
  <2> SUFFICES ASSUME T # {} PROVE g[T] = h[T]
    BY <2>3
  <2>1. Chosen(T) \in T /\ T \ {Chosen(T)} \in SUBSET U /\ Cardinality(T \ {Chosen(T)}) <= n
    BY <1>2, ChosenIn
  <2>2. g[T \ {Chosen(T)}] = h[T \ {Chosen(T)}]
    BY <2>1
  <2> QED BY <1>1, <2>1, <2>2 DEF Part
<1>5. N = Nat
  <2> HIDE DEF N
  <2>1. N \in SUBSET Nat
    BY DEF N
  <2> QED BY <1>3, <1>4, <2>1, NatSubset
<1> QED BY <1>2, <1>5, FS_CardinalityType

\* The order in which elements are taken out does not matter.
LEMMA AnyFirst ==
    ASSUME NEW S, IsFiniteSet(S), NEW f, Ints(f, S),
           NEW g \in [SUBSET S -> Int], Adds(f, S, g),
           NEW U \in SUBSET S, NEW y \in U
    PROVE  g[U] = f[y] + g[U \ {y}]
<1> DEFINE Free(T) == \A x \in T : g[T] = f[x] + g[T \ {x}]
           N == {n \in Nat : \A T \in SUBSET S : Cardinality(T) <= n => Free(T)}
<1>1. \A T \in SUBSET S : g[T] = Part(f, g, T)
  BY DEF Adds
<1>2. 0 \in N
  <2>1. ASSUME NEW T \in SUBSET S, Cardinality(T) <= 0 PROVE T = {}
    BY <2>1, NoneIn
  <2> QED BY <2>1
<1>3. ASSUME NEW n \in N PROVE n + 1 \in N
  <2> SUFFICES ASSUME NEW T \in SUBSET S, Cardinality(T) <= n + 1, NEW x \in T
               PROVE  g[T] = f[x] + g[T \ {x}]
    OBVIOUS
  <2> DEFINE c == Chosen(T)
             R == T \ {c}
  <2>1. c \in T /\ R \in SUBSET S /\ Cardinality(R) <= n
    BY ChosenIn
  <2>2. g[T] = f[c] + g[R]
    BY <1>1, <2>1 DEF Part
  <2> HIDE DEF c
  <2>3. CASE x = c
    BY <2>2, <2>3
  <2>4. CASE x # c
    <3>1. T \ {x} \in SUBSET S /\ Cardinality(T \ {x}) <= n
      <4>1. IsFiniteSet(T) /\ Cardinality(T) \in Nat
        BY FS_Subset, FS_CardinalityType
      <4>2. Cardinality(T \ {x}) = Cardinality(T) - 1
        BY <4>1, FS_RemoveElement
      <4> QED BY <4>1, <4>2
    <3>2. g[R] = f[x] + g[R \ {x}]
      BY <2>1, <2>4
    <3>3. g[T \ {x}] = f[c] + g[(T \ {x}) \ {c}]
      BY <2>1, <2>4, <3>1
    <3>4. R \ {x} = (T \ {x}) \ {c} /\ R \ {x} \in SUBSET S
      OBVIOUS
    <3>5. f[x] \in Int /\ f[c] \in Int /\ g[R \ {x}] \in Int
      BY <2>1, <3>4 DEF Ints
    <3> HIDE DEF R
    <3>6. g[T] = f[c] + (f[x] + g[R \ {x}]) /\ g[T \ {x}] = f[c] + g[R \ {x}]
      BY <2>2, <3>2, <3>3, <3>4
    <3> QED BY <3>5, <3>6
  <2> QED BY <2>3, <2>4
<1>4. N = Nat
  <2> HIDE DEF N
  <2>1. N \in SUBSET Nat
    BY DEF N
  <2> QED BY <1>2, <1>3, <2>1, NatSubset
<1>5. IsFiniteSet(U) /\ Cardinality(U) \in Nat
  BY FS_Subset, FS_CardinalityType
<1> QED BY <1>4, <1>5

-----------------------------------------------------------------------------
\* The facts about sums: over nothing, with one element apart, of equal summands.
LEMMA SumsAre ==
    ASSUME NEW f, NEW S, IsFiniteSet(S), Ints(f, S)
    PROVE  \E g \in [SUBSET S -> Int] :
              /\ Adds(f, S, g)
              /\ SumFunctionOnSet(f, S) = g[S]
<1>1. PICK g \in [SUBSET S -> Int] : Adds(f, S, g)
  BY SumExists
<1> DEFINE h == CHOOSE k : Adds(f, S, k)
<1>2. Adds(f, S, h)
  BY <1>1
<1>3. SumFunctionOnSet(f, S) = h[S]
  BY SumUnfolds
<1> HIDE DEF h
<1>4. S \in SUBSET (S \cap S)
  OBVIOUS
<1>5. g[S] = h[S]
  BY <1>1, <1>2, <1>4, SumsAgree
<1> QED BY <1>1, <1>3, <1>5

LEMMA SumType ==
    ASSUME NEW f, NEW S, IsFiniteSet(S), Ints(f, S)
    PROVE  SumFunctionOnSet(f, S) \in Int
<1>1. PICK g \in [SUBSET S -> Int] : SumFunctionOnSet(f, S) = g[S]
  BY SumsAre
<1> QED BY <1>1

LEMMA SumEmpty ==
    ASSUME NEW f
    PROVE  SumFunctionOnSet(f, {}) = 0
<1>1. IsFiniteSet({}) /\ Ints(f, {})
  BY FS_EmptySet DEF Ints
<1>2. PICK g \in [SUBSET {} -> Int] : Adds(f, {}, g) /\ SumFunctionOnSet(f, {}) = g[{}]
  BY <1>1, SumsAre
<1>3. g[{}] = Part(f, g, {})
  BY <1>2 DEF Adds
<1> QED BY <1>2, <1>3 DEF Part

LEMMA SumSame ==
    ASSUME NEW f, NEW e, NEW S, IsFiniteSet(S), Ints(f, S), \A x \in S : f[x] = e[x]
    PROVE  SumFunctionOnSet(f, S) = SumFunctionOnSet(e, S)
<1>1. Ints(e, S)
  BY DEF Ints
<1>2. PICK g \in [SUBSET S -> Int] : Adds(f, S, g) /\ SumFunctionOnSet(f, S) = g[S]
  BY SumsAre
<1>3. PICK h \in [SUBSET S -> Int] : Adds(e, S, h) /\ SumFunctionOnSet(e, S) = h[S]
  BY <1>1, SumsAre
<1>4. S \in SUBSET (S \cap S)
  OBVIOUS
<1>5. g[S] = h[S]
  BY <1>2, <1>3, <1>4, SumsAgree
<1> QED BY <1>2, <1>3, <1>5

LEMMA SumTakes ==
    ASSUME NEW f, NEW S, IsFiniteSet(S), Ints(f, S), NEW x \in S
    PROVE  SumFunctionOnSet(f, S) = f[x] + SumFunctionOnSet(f, S \ {x})
<1>1. PICK g \in [SUBSET S -> Int] : Adds(f, S, g) /\ SumFunctionOnSet(f, S) = g[S]
  BY SumsAre
<1> DEFINE R == S \ {x}
<1>2. IsFiniteSet(R) /\ Ints(f, R) /\ R \in SUBSET (S \cap R) /\ S \in SUBSET S
  BY FS_RemoveElement DEF Ints
<1>3. g[S] = f[x] + g[R]
  BY <1>1, <1>2, AnyFirst
<1> HIDE DEF R
<1>4. PICK h \in [SUBSET R -> Int] : Adds(f, R, h) /\ SumFunctionOnSet(f, R) = h[R]
  BY <1>2, SumsAre
<1>5. g[R] = h[R]
  BY <1>1, <1>2, <1>4, SumsAgree
<1> QED BY <1>1, <1>3, <1>4, <1>5 DEF R

\* Two functions that differ at x only.
LEMMA SumChanges ==
    ASSUME NEW S, NEW T, IsFiniteSet(S), IsFiniteSet(T), NEW x, S \ {x} = T \ {x},
           NEW f \in [S -> Int], NEW g \in [T -> Int], \A y \in S \ {x} : f[y] = g[y]
    PROVE  /\ SumFunction(f) \in Int /\ SumFunction(g) \in Int
           /\ SumFunction(g) - (IF x \in T THEN g[x] ELSE 0)
                 = SumFunction(f) - (IF x \in S THEN f[x] ELSE 0)
<1> DEFINE R == S \ {x}
<1>1. SumFunction(f) = SumFunctionOnSet(f, S) /\ SumFunction(g) = SumFunctionOnSet(g, T)
  BY DEF SumFunction, SumFunctionOnSet, FoldFunction, FoldFunctionOnSet
<1>2. Ints(f, S) /\ Ints(g, T) /\ Ints(f, R) /\ Ints(g, R)
  BY DEF Ints
<1>3. IsFiniteSet(R)
  BY FS_RemoveElement
<1> HIDE DEF R
<1>4. SumFunctionOnSet(f, R) = SumFunctionOnSet(g, R) /\ SumFunctionOnSet(f, R) \in Int
  BY <1>2, <1>3, SumSame, SumType DEF R
<1>5. SumFunctionOnSet(f, S) = (IF x \in S THEN f[x] ELSE 0) + SumFunctionOnSet(f, R)
  <2>1. CASE x \in S
    BY <1>2, <2>1, SumTakes DEF R
  <2>2. CASE x \notin S
    <3>1. R = S
      BY <2>2 DEF R
    <3> QED BY <1>4, <2>2, <3>1
  <2> QED BY <2>1, <2>2
<1>6. SumFunctionOnSet(g, T) = (IF x \in T THEN g[x] ELSE 0) + SumFunctionOnSet(g, R)
  <2>1. R = T \ {x}
    BY DEF R
  <2>2. CASE x \in T
    BY <1>2, <2>1, <2>2, SumTakes
  <2>3. CASE x \notin T
    <3>1. R = T
      BY <2>1, <2>3
    <3> QED BY <1>4, <2>3, <3>1
  <2> QED BY <2>2, <2>3
<1>7. (IF x \in S THEN f[x] ELSE 0) \in Int /\ (IF x \in T THEN g[x] ELSE 0) \in Int
  OBVIOUS
<1> QED BY <1>1, <1>4, <1>5, <1>6, <1>7

\* Two finite sets that differ by x only.
LEMMA CardinalityChanges ==
    ASSUME NEW S, NEW T, IsFiniteSet(S), IsFiniteSet(T), NEW x, S \ {x} = T \ {x}
    PROVE  /\ Cardinality(S) \in Int /\ Cardinality(T) \in Int
           /\ Cardinality(T) - (IF x \in T THEN 1 ELSE 0)
                 = Cardinality(S) - (IF x \in S THEN 1 ELSE 0)
<1>1. Cardinality(S) \in Nat /\ Cardinality(T) \in Nat
  BY FS_CardinalityType
<1>2. /\ Cardinality(S \ {x}) = IF x \in S THEN Cardinality(S) - 1 ELSE Cardinality(S)
      /\ Cardinality(T \ {x}) = IF x \in T THEN Cardinality(T) - 1 ELSE Cardinality(T)
  BY FS_RemoveElement
<1> QED BY <1>1, <1>2

-----------------------------------------------------------------------------
(* Type correctness. *)

Others ==
    /\ cachedMem \in Int
    /\ clears \in 0..MaxClears /\ clearing \subseteq Shard
    /\ crashed \in BOOLEAN

\* What is known of every state.
CInv == IInv /\ Lists /\ Amounts /\ Others

\* RealMem is a number.
LEMMA MeasureIsInt == ASSUME Amounts PROVE TotalMem(mem) \in Int
<1>1. IsFiniteSet(Shard)
  <2>1. 0 \in Int /\ TotalShards - 1 \in Int
    BY StorageAssumption
  <2> QED BY <2>1, FS_Interval DEF Shard
<1>2. DOMAIN mem = Shard /\ Ints(mem, Shard)
  BY DEF Amounts, Ints
<1>3. SumFunctionOnSet(mem, Shard) \in Int
  BY <1>1, <1>2, SumType
<1> QED BY <1>2, <1>3
        DEF TotalMem, SumFunction, SumFunctionOnSet, FoldFunction, FoldFunctionOnSet

LEMMA NextOthers == CInv /\ [Next]_vars => Others'
<1> SUFFICES ASSUME CInv, [Next]_vars PROVE Others'
  OBVIOUS
<1> USE DEF clear
<1>1. Others /\ TotalMem(mem) \in Int
  BY MeasureIsInt DEF CInv
<1>2. ASSUME UNCHANGED <<clears, clearing>>, crashed' \in BOOLEAN,
             cachedMem' = cachedMem \/ Measure
      PROVE  Others'
  BY <1>1, <1>2 DEF Others, Measure
<1>3. crashed \in BOOLEAN
  BY <1>1 DEF Others
<1>4. ASSUME NEW p \in Client, ClientStep(p) PROVE Others'
  <2>1. CASE \/ \E r \in Request : Get(p, r)
             \/ \E b \in Body : Fetched(p, b)
             \/ FetchFails(p)
    BY <1>2, <1>3, <2>1 DEF Get, Fetched, FetchFails
  <2>2. CASE Working(p)
    BY <1>2, <1>3, <2>2
       DEF Working, TouchSkips, Touch, Move, Serve, SetFound, SetCollides, SetMisses, Swap,
           Admit, Reject, Store, AddLen, AddMem, Push, SetElem
  <2>3. CASE Removing(p)
    BY <1>2, <1>3, <2>3 DEF Removing, UnlistCheck, Unlist, Drop, SubLen, SubMem
  <2> QED BY <1>4, <2>1, <2>2, <2>3 DEF ClientStep
<1>5. CASE EvictorStep \/ Removing(Evictor)
  BY <1>2, <1>3, <1>5
     DEF EvictorStep, Tick, WithinLimit, Pick, GoOn, Evict, EndOfList,
         Removing, UnlistCheck, Unlist, Drop, SubLen, SubMem
<1>6. CASE RefresherStep \/ RefreshMem \/ UNCHANGED vars
  BY <1>2, <1>3, <1>6
     DEF RefresherStep, Sample, Unpack, RefreshFails, Refreshed, RefreshMem, vars
<1>7. CASE Clear
  BY <1>1, <1>7, StorageAssumption DEF Clear, Others
<1>8. CASE \E s \in Shard : ClearShard(s)
  BY <1>1, <1>8 DEF ClearShard, Others
<1> QED BY <1>4, <1>5, <1>6, <1>7, <1>8 DEF Next

LEMMA InitCInv == Init => CInv
<1>1. Init => Others
  <2>1. 0 \in 0..MaxClears /\ 0 \in Int /\ {} \subseteq Shard /\ FALSE \in BOOLEAN
    BY StorageAssumption
  <2> QED BY <2>1 DEF Init, Others
<1> QED BY <1>1, InitIInv, InitLists, InitAmounts DEF CInv

LEMMA NextCInv == CInv /\ [Next]_vars => CInv'
BY NextOthers, NextIInv, NextLists, NextAmounts DEF CInv

LEMMA CInvTypes == CInv => TypeOK
<1> SUFFICES ASSUME CInv PROVE TypeOK
  OBVIOUS
<1>1. IInv /\ Amounts /\ Others /\ Chained /\ Placed /\ TakenFromList /\ Scanning
  BY DEF CInv, Lists
<1>2. old \in [Proc -> Elem \cup {Nil}]
  <2>1. \A p \in Proc : old[p] \in Elem \cup {Nil}
    BY <1>1 DEF IInv, Types, Reader, Proc, TakenFromList
  <2> QED BY <1>1, <2>1 DEF IInv, Types
<1>3. load \in Seq(Shard)
  BY <1>1, StorageAssumption DEF Scanning
<1> QED BY <1>1, <1>2, <1>3
        DEF TypeOK, IInv, Types, Amounts, Others, Chained, Placed, Scanning

\* Every variable keeps its type: no goroutine is ever at a step it has no
\* business at, the evictor's scan stays within the shards and the counters stay
\* numbers, also when an entry is moved or removed twice and its list falls apart.
THEOREM TypeOKHolds == Spec => []TypeOK
<1>1. CInv /\ [Next]_vars => CInv'
  BY NextCInv
<1> QED BY <1>1, InitCInv, CInvTypes, PTL DEF Spec

-----------------------------------------------------------------------------
(***************************************************************************)
(* A step is one of a goroutine p and changes what is held at one key k.   *)
(* The drift of a shard changes as their share of it does.                 *)
(***************************************************************************)
LenShare(p, k, s) ==
    len[s] + (IF p \in Adding(s, {"addLen"}) THEN 1 ELSE 0)
           - (IF p \in Taking(s, {"subLen"}) THEN 1 ELSE 0)
           - (IF k \in Held(s) THEN 1 ELSE 0)

MemShare(p, k, s) ==
    mem[s] + (IF p \in Adding(s, {"addLen", "addMem"}) THEN Added(p) ELSE 0)
           - (IF p \in Taking(s, {"subLen", "subMem"}) THEN freed[p] ELSE 0)
           - (IF k \in Held(s) THEN Weight(items[k]) ELSE 0)

\* What is added up are numbers.
Countable ==
    /\ Amounts
    /\ \A q \in Proc : pc[q] \in {"addLen", "addMem"} => Added(q) \in Int
    /\ \A k \in Key : items[k] # Nil => Weight(items[k]) \in Int

LEMMA FiniteSums ==
    /\ IsFiniteSet(Proc) /\ IsFiniteSet(Key)
    /\ \A S : S \subseteq Proc \/ S \subseteq Key => IsFiniteSet(S)
<1>1. IsFiniteSet(Proc)
  <2>1. IsFiniteSet({Evictor, Refresher})
    <3>1. IsFiniteSet({Evictor})
      BY FS_Singleton
    <3>2. {Evictor, Refresher} = {Evictor} \cup {Refresher}
      OBVIOUS
    <3> QED BY <3>1, <3>2, FS_AddElement
  <2> QED BY <2>1, StorageAssumption, FS_Union DEF Proc
<1>2. IsFiniteSet(Key)
  <2> DEFINE f == [r \in Request |-> KeyOf[r]]
  <2>1. f \in Surjection(Request, Key)
    BY DEF Surjection, Key
  <2> QED BY <2>1, StorageAssumption, FS_Surjection
<1> QED BY <1>1, <1>2, FS_Subset

LEMMA CInvCounts == CInv => Countable
<1> SUFFICES ASSUME CInv PROVE Countable
  OBVIOUS
<1> USE DEF CInv
<1>1. ASSUME NEW q \in Proc, pc[q] \in {"addLen", "addMem"} PROVE Added(q) \in Int
  <2>1. q \in Client
    BY <1>1 DEF Lists, Roles, Proc
  <2>2. new[q] \in Elem /\ owner[new[q]] # Nil
    BY <1>1, <2>1 DEF IInv, Types, Found, Alive
  <2>3. old[q] # Nil => old[q] \in Elem /\ owner[old[q]] # Nil
    BY <2>1, Goroutines DEF IInv, Types, Alive
  <2> QED BY <2>2, <2>3, EntryWeight DEF Added
<1>2. ASSUME NEW k \in Key, items[k] # Nil PROVE Weight(items[k]) \in Int
  <2>1. items[k] \in Elem /\ owner[items[k]] # Nil
    BY <1>2 DEF IInv, Types, Mapped
  <2> QED BY <2>1, EntryWeight
<1> QED BY <1>1, <1>2 DEF Countable

LEMMA LenMoves ==
    ASSUME len \in [Shard -> Int], len' \in [Shard -> Int],
           NEW p, NEW k, NEW s \in Shard,
           \A q \in Proc \ {p} :
               /\ pc'[q] = pc[q]
               /\ pc[q] = "addLen" => ShardOfEntry(new[q])' = ShardOfEntry(new[q])
               /\ pc[q] = "subLen" => ShardOfEntry(old[q])' = ShardOfEntry(old[q]),
           \A j \in Key \ {k} : items'[j] = Nil <=> items[j] = Nil
    PROVE  LenShare(p, k, s)' = LenShare(p, k, s) => LenDrift(s)' = LenDrift(s)
<1>1. PICK A, T, H : /\ A = Adding(s, {"addLen"}) /\ T = Taking(s, {"subLen"})
                     /\ H = Held(s)
  OBVIOUS
<1>2. PICK A1, T1, H1 : /\ A1 = Adding(s, {"addLen"})' /\ T1 = Taking(s, {"subLen"})'
                        /\ H1 = Held(s)'
  OBVIOUS
<1>3. /\ A \subseteq Proc /\ T \subseteq Proc /\ H \subseteq Key
      /\ A1 \subseteq Proc /\ T1 \subseteq Proc /\ H1 \subseteq Key
  BY <1>1, <1>2 DEF Adding, Taking, Held, KeysOf
<1>4. A \ {p} = A1 \ {p} /\ T \ {p} = T1 \ {p}
  BY <1>1, <1>2 DEF Adding, Taking
<1>5. H \ {k} = H1 \ {k}
  BY <1>1, <1>2 DEF Held, KeysOf
<1>6. /\ Cardinality(A) \in Int /\ Cardinality(A1) \in Int
      /\ Cardinality(A1) - (IF p \in A1 THEN 1 ELSE 0) = Cardinality(A) - (IF p \in A THEN 1 ELSE 0)
  BY <1>3, <1>4, FiniteSums, CardinalityChanges
<1>7. /\ Cardinality(T) \in Int /\ Cardinality(T1) \in Int
      /\ Cardinality(T1) - (IF p \in T1 THEN 1 ELSE 0) = Cardinality(T) - (IF p \in T THEN 1 ELSE 0)
  BY <1>3, <1>4, FiniteSums, CardinalityChanges
<1>8. /\ Cardinality(H) \in Int /\ Cardinality(H1) \in Int
      /\ Cardinality(H1) - (IF k \in H1 THEN 1 ELSE 0) = Cardinality(H) - (IF k \in H THEN 1 ELSE 0)
  BY <1>3, <1>5, FiniteSums, CardinalityChanges
<1>9. /\ LenDrift(s) = len[s] + Cardinality(A) - Cardinality(T) - Cardinality(H)
      /\ LenShare(p, k, s) = len[s] + (IF p \in A THEN 1 ELSE 0) - (IF p \in T THEN 1 ELSE 0)
                                    - (IF k \in H THEN 1 ELSE 0)
  BY <1>1 DEF LenDrift, LenShare
<1>10. /\ LenDrift(s)' = len'[s] + Cardinality(A1) - Cardinality(T1) - Cardinality(H1)
       /\ LenShare(p, k, s)' = len'[s] + (IF p \in A1 THEN 1 ELSE 0) - (IF p \in T1 THEN 1 ELSE 0)
                                       - (IF k \in H1 THEN 1 ELSE 0)
  BY <1>2 DEF LenDrift, LenShare
<1>11. len[s] \in Int /\ len'[s] \in Int
  OBVIOUS
<1> HIDE <1>1, <1>2
<1> QED BY <1>6, <1>7, <1>8, <1>9, <1>10, <1>11

LEMMA MemMoves ==
    ASSUME Countable, Countable',
           NEW p, NEW k, NEW s \in Shard,
           \A q \in Proc \ {p} :
               /\ pc'[q] = pc[q]
               /\ pc[q] \in {"addLen", "addMem"} =>
                      ShardOfEntry(new[q])' = ShardOfEntry(new[q]) /\ Added(q)' = Added(q)
               /\ pc[q] \in {"subLen", "subMem"} =>
                      ShardOfEntry(old[q])' = ShardOfEntry(old[q]) /\ freed'[q] = freed[q],
           \A j \in Key \ {k} : /\ items'[j] = Nil <=> items[j] = Nil
                                /\ items[j] # Nil => Weight(items[j])' = Weight(items[j])
    PROVE  MemShare(p, k, s)' = MemShare(p, k, s) => MemDrift(s)' = MemDrift(s)
<1>1. PICK A, T, H, a, t, h :
         /\ A = Adding(s, {"addLen", "addMem"}) /\ T = Taking(s, {"subLen", "subMem"})
         /\ H = Held(s)
         /\ a = [q \in A |-> Added(q)] /\ t = [q \in T |-> freed[q]]
         /\ h = [j \in H |-> Weight(items[j])]
  OBVIOUS
<1>2. PICK A1, T1, H1, a1, t1, h1 :
         /\ A1 = Adding(s, {"addLen", "addMem"})' /\ T1 = Taking(s, {"subLen", "subMem"})'
         /\ H1 = Held(s)'
         /\ a1 = [q \in A1 |-> Added(q)'] /\ t1 = [q \in T1 |-> freed'[q]]
         /\ h1 = [j \in H1 |-> Weight(items[j])']
  OBVIOUS
<1>3. /\ A \subseteq Proc /\ T \subseteq Proc /\ H \subseteq Key
      /\ A1 \subseteq Proc /\ T1 \subseteq Proc /\ H1 \subseteq Key
  BY <1>1, <1>2 DEF Adding, Taking, Held, KeysOf
<1>4. A \ {p} = A1 \ {p} /\ T \ {p} = T1 \ {p}
  BY <1>1, <1>2 DEF Adding, Taking
<1>5. H \ {k} = H1 \ {k}
  BY <1>1, <1>2 DEF Held, KeysOf
<1>6. a \in [A -> Int] /\ t \in [T -> Int] /\ h \in [H -> Int]
  BY <1>1 DEF Countable, Amounts, Adding, Taking, Held, KeysOf
<1>7. a1 \in [A1 -> Int] /\ t1 \in [T1 -> Int] /\ h1 \in [H1 -> Int]
  BY <1>2 DEF Countable, Amounts, Adding, Taking, Held, KeysOf
<1>8. \A q \in A \ {p} : a[q] = a1[q]
  BY <1>1, <1>2, <1>4 DEF Adding
<1>9. \A q \in T \ {p} : t[q] = t1[q]
  BY <1>1, <1>2, <1>4 DEF Taking
<1>10. \A j \in H \ {k} : h[j] = h1[j]
  BY <1>1, <1>2, <1>5 DEF Held, KeysOf
<1>11. /\ SumFunction(a) \in Int /\ SumFunction(a1) \in Int
       /\ SumFunction(a1) - (IF p \in A1 THEN a1[p] ELSE 0)
             = SumFunction(a) - (IF p \in A THEN a[p] ELSE 0)
  <2>1. IsFiniteSet(A) /\ IsFiniteSet(A1)
    BY <1>3, FiniteSums
  <2> HIDE <1>1, <1>2
  <2> QED BY <1>4, <1>6, <1>7, <1>8, <2>1, SumChanges
<1>12. /\ SumFunction(t) \in Int /\ SumFunction(t1) \in Int
       /\ SumFunction(t1) - (IF p \in T1 THEN t1[p] ELSE 0)
             = SumFunction(t) - (IF p \in T THEN t[p] ELSE 0)
  <2>1. IsFiniteSet(T) /\ IsFiniteSet(T1)
    BY <1>3, FiniteSums
  <2> HIDE <1>1, <1>2
  <2> QED BY <1>4, <1>6, <1>7, <1>9, <2>1, SumChanges
<1>13. /\ SumFunction(h) \in Int /\ SumFunction(h1) \in Int
       /\ SumFunction(h1) - (IF k \in H1 THEN h1[k] ELSE 0)
             = SumFunction(h) - (IF k \in H THEN h[k] ELSE 0)
  <2>1. IsFiniteSet(H) /\ IsFiniteSet(H1)
    BY <1>3, FiniteSums
  <2> HIDE <1>1, <1>2
  <2> QED BY <1>5, <1>6, <1>7, <1>10, <2>1, SumChanges
<1>14. /\ MemDrift(s) = mem[s] + SumFunction(a) - SumFunction(t) - SumFunction(h)
       /\ MemShare(p, k, s) = mem[s] + (IF p \in A THEN a[p] ELSE 0)
                                     - (IF p \in T THEN t[p] ELSE 0)
                                     - (IF k \in H THEN h[k] ELSE 0)
  BY <1>1 DEF MemDrift, MemShare
<1>15. /\ MemDrift(s)' = mem'[s] + SumFunction(a1) - SumFunction(t1) - SumFunction(h1)
       /\ MemShare(p, k, s)' = mem'[s] + (IF p \in A1 THEN a1[p] ELSE 0)
                                       - (IF p \in T1 THEN t1[p] ELSE 0)
                                       - (IF k \in H1 THEN h1[k] ELSE 0)
  BY <1>2 DEF MemDrift, MemShare
<1>16. mem[s] \in Int /\ mem'[s] \in Int
  BY DEF Countable, Amounts
<1>17. /\ (IF p \in A THEN a[p] ELSE 0) \in Int /\ (IF p \in A1 THEN a1[p] ELSE 0) \in Int
       /\ (IF p \in T THEN t[p] ELSE 0) \in Int /\ (IF p \in T1 THEN t1[p] ELSE 0) \in Int
       /\ (IF k \in H THEN h[k] ELSE 0) \in Int /\ (IF k \in H1 THEN h1[k] ELSE 0) \in Int
  BY <1>6, <1>7
<1> HIDE <1>1, <1>2
<1>18. PICK u, v, w, u1, v1, w1 :
          /\ u = (IF p \in A THEN a[p] ELSE 0) /\ u1 = (IF p \in A1 THEN a1[p] ELSE 0)
          /\ v = (IF p \in T THEN t[p] ELSE 0) /\ v1 = (IF p \in T1 THEN t1[p] ELSE 0)
          /\ w = (IF k \in H THEN h[k] ELSE 0) /\ w1 = (IF k \in H1 THEN h1[k] ELSE 0)
  OBVIOUS
<1>19. /\ MemShare(p, k, s) = mem[s] + u - v - w
       /\ MemShare(p, k, s)' = mem'[s] + u1 - v1 - w1
       /\ SumFunction(a1) - u1 = SumFunction(a) - u
       /\ SumFunction(t1) - v1 = SumFunction(t) - v
       /\ SumFunction(h1) - w1 = SumFunction(h) - w
       /\ u \in Int /\ u1 \in Int /\ v \in Int /\ v1 \in Int /\ w \in Int /\ w1 \in Int
  BY <1>11, <1>12, <1>13, <1>14, <1>15, <1>17, <1>18
<1> HIDE <1>18
<1> QED BY <1>11, <1>12, <1>13, <1>14, <1>15, <1>16, <1>19

Counting == {"addLen", "addMem", "subLen", "subMem"}

\* No counter depends on the entry x, but through p.
Unused(x, p) ==
    x \in Elem =>
        /\ \A k \in Key : items[k] # x
        /\ \A q \in Proc \ {p} : pc[q] \in Counting => new[q] # x /\ old[q] # x

\* No other entry than x gets another payload.
KeptBut(x) == \A e \in Elem \ {x} : payload'[e] = payload[e]

\* A step of p that changes what is held at k, and the entry x.
LEMMA StepCounts ==
    ASSUME CInv, Countable, Countable', ~crashed,
           NEW p, NEW k, NEW s \in Shard, NEW x, Unused(x, p),
           \A q \in Proc \ {p} : /\ pc'[q] = pc[q] /\ new'[q] = new[q]
                                 /\ old'[q] = old[q] /\ freed'[q] = freed[q],
           \A j \in Key \ {k} : items'[j] = items[j],
           \A e \in Elem \ {x} : owner'[e] = owner[e]
    PROVE  /\ LenShare(p, k, s)' = LenShare(p, k, s) => LenDrift(s)' = LenDrift(s)
           /\ KeptBut(x) =>
                 (MemShare(p, k, s)' = MemShare(p, k, s) => MemDrift(s)' = MemDrift(s))
<1> USE DEF CInv
<1>1. ASSUME NEW e \in Elem \ {x}
      PROVE  /\ ShardOfEntry(e)' = ShardOfEntry(e)
             /\ payload'[e] = payload[e] => Weight(e)' = Weight(e)
  BY <1>1 DEF ShardOfEntry, KeyOfEntry, Weight
<1>2. ASSUME NEW q \in Proc \ {p}, pc[q] \in {"addLen", "addMem"}
      PROVE  /\ ShardOfEntry(new[q])' = ShardOfEntry(new[q])
             /\ KeptBut(x) => Added(q)' = Added(q)
  <2>1. q \in Client
    BY <1>2 DEF Lists, Roles, Proc
  <2>2. PICK e \in Elem \ {x} : e = new[q]
    BY <1>2, <2>1 DEF IInv, Types, Found, Unused, Counting
  <2>3. PICK f \in Elem \cup {Nil} : f = old[q]
    BY <2>1, Goroutines DEF IInv, Types
  <2>4. f # Nil => f \in Elem \ {x}
    BY <1>2, <2>3 DEF Unused, Counting
  <2>5. new'[q] = e /\ old'[q] = f
    BY <2>2, <2>3
  <2>6. ShardOfEntry(new[q])' = ShardOfEntry(e)'
    BY <2>5 DEF ShardOfEntry, KeyOfEntry
  <2>7. Added(q) = Weight(e) - (IF f = Nil THEN 0 ELSE Weight(f))
    BY <2>2, <2>3 DEF Added
  <2>8. Added(q)' = Weight(e)' - (IF f = Nil THEN 0 ELSE Weight(f)')
    BY <2>5 DEF Added, Weight
  <2> QED BY <1>1, <2>2, <2>4, <2>6, <2>7, <2>8 DEF KeptBut
<1>3. ASSUME NEW q \in Proc \ {p}, pc[q] \in {"subLen", "subMem"}
      PROVE  ShardOfEntry(old[q])' = ShardOfEntry(old[q])
  <2>1. q \in Client \cup {Evictor}
    BY <1>3 DEF Lists, Roles, Proc
  <2>2. old[q] \in Elem
    BY <1>3, <2>1, RemovedEntry
  <2>3. PICK e \in Elem \ {x} : e = old[q]
    BY <1>3, <2>2 DEF Unused, Counting
  <2>4. ShardOfEntry(old[q])' = ShardOfEntry(e)'
    BY <2>3 DEF ShardOfEntry, KeyOfEntry
  <2> QED BY <1>1, <2>3, <2>4
<1>4. ASSUME NEW j \in Key \ {k}, items[j] # Nil, KeptBut(x)
      PROVE  Weight(items[j])' = Weight(items[j])
  <2>1. PICK e \in Elem \ {x} : e = items[j]
    BY <1>4 DEF IInv, Types, Unused
  <2>2. Weight(items[j])' = Weight(e)'
    BY <2>1 DEF Weight
  <2> QED BY <1>1, <1>4, <2>1, <2>2 DEF KeptBut
<1>5. len \in [Shard -> Int] /\ len' \in [Shard -> Int]
  BY DEF Countable, Amounts
<1>6. LenShare(p, k, s)' = LenShare(p, k, s) => LenDrift(s)' = LenDrift(s)
  BY <1>2, <1>3, <1>5, LenMoves
<1>7. ASSUME KeptBut(x)
      PROVE  MemShare(p, k, s)' = MemShare(p, k, s) => MemDrift(s)' = MemDrift(s)
  BY <1>2, <1>3, <1>4, <1>7, MemMoves
<1> QED BY <1>6, <1>7

\* A step between labels at which p owes the counters nothing.
LEMMA QuietCounts ==
    ASSUME CInv, Countable, Countable', ~crashed,
           NEW p \in Proc, NEW s \in Shard, NEW x, Unused(x, p),
           \A q \in Proc \ {p} : /\ pc'[q] = pc[q] /\ new'[q] = new[q]
                                 /\ old'[q] = old[q] /\ freed'[q] = freed[q],
           pc[p] \notin Counting, pc'[p] \notin Counting,
           UNCHANGED <<items, len, mem>>,
           \A e \in Elem \ {x} : owner'[e] = owner[e]
    PROVE  /\ LenDrift(s)' = LenDrift(s)
           /\ KeptBut(x) => MemDrift(s)' = MemDrift(s)
<1>1. -1 \notin Key
  BY StorageAssumption DEF Key
<1>2. -1 \notin Held(s) /\ -1 \notin Held(s)'
  BY <1>1 DEF Held, KeysOf
<1>3. LenShare(p, -1, s)' = LenShare(p, -1, s) /\ MemShare(p, -1, s)' = MemShare(p, -1, s)
  BY <1>2 DEF LenShare, MemShare, Adding, Taking, Counting
<1> QED BY <1>3, StepCounts

\* Nothing depends on an entry that has no owner, or that is being stored.
LEMMA FreeEntry ==
    ASSUME CInv, ~crashed, NEW p \in Proc, NEW x, x \in Elem => owner[x] = Nil
    PROVE  Unused(x, p)
<1> SUFFICES ASSUME x \in Elem PROVE Unused(x, p)
  BY DEF Unused
<1> USE DEF CInv
<1>1. owner[x] = Nil /\ x # Nil
  BY RingAssumption
<1>2. \A k \in Key : items[k] # x
  BY <1>1 DEF IInv, Mapped
<1>3. ASSUME NEW q \in Proc, pc[q] \in Counting PROVE new[q] # x /\ old[q] # x
  <2>1. new[q] # x
    BY <1>1 DEF IInv, Alive
  <2>2. q \in Client \cup {Evictor}
    BY <1>3 DEF Lists, Roles, Proc, Counting
  <2>3. CASE q \in Client
    BY <1>1, <2>1, <2>3, Goroutines DEF IInv, Alive
  <2>4. CASE q = Evictor
    BY <1>1, <1>3, <2>1, <2>4 DEF Lists, Roles, TakenFromList, Counting
  <2> QED BY <2>2, <2>3, <2>4
<1> QED BY <1>2, <1>3 DEF Unused

LEMMA StoredEntry ==
    ASSUME CInv, ~crashed, NEW p \in Client, pc[p] \in Storing
    PROVE  Unused(new[p], p)
<1> USE Goroutines DEF CInv
<1>1. new[p] \in Elem
  BY NewEntry
<1>2. \A k \in Key : items[k] # new[p]
  BY DEF IInv, Hidden
<1>3. ASSUME NEW q \in Proc \ {p}, pc[q] \in Counting PROVE new[q] # new[p] /\ old[q] # new[p]
  <2>1. new[q] # new[p]
    BY DEF IInv, Hidden
  <2>2. q \in Client \cup {Evictor}
    BY <1>3 DEF Lists, Roles, Proc, Counting
  <2>3. CASE q \in Client
    BY <2>1, <2>3 DEF IInv, Hidden
  <2>4. CASE q = Evictor
    <3>1. old[q] \in Elem /\ InList(old[q]) /\ ShardOfEntry(old[q]) \in Shard
      BY <1>3, <2>4, RemovedEntry DEF Lists, Roles, TakenFromList, Counting
    <3>2. InNoList(new[p])
      BY DEF Lists, PushedOnce
    <3> QED BY <2>1, <3>1, <3>2 DEF InList, InNoList
  <2> QED BY <2>2, <2>3, <2>4
<1> QED BY <1>2, <1>3 DEF Unused

-----------------------------------------------------------------------------
\* The locals of the other goroutines stay as they are.
Moves(p) ==
    \A q \in Proc \ {p} : /\ pc'[q] = pc[q] /\ new'[q] = new[q]
                          /\ old'[q] = old[q] /\ freed'[q] = freed[q]

Renewed ==
    \E e \in Elem : {payload[e], payload'[e]} \cap {Nil} = {} /\ payload'[e] # payload[e]

Steady(s) ==
    /\ LenDrift(s)' = LenDrift(s)
    /\ MemDrift(s)' = MemDrift(s) \/ Renewed

LEMMA FinishMoves ==
    ASSUME CInv, NEW p \in Proc, Finish(p) PROVE Moves(p) /\ pc'[p] = "idle"
BY DEF CInv, IInv, Types, Amounts, Finish, Goto, Moves

LEMMA GotoMoves ==
    ASSUME CInv, NEW p \in Proc, NEW label, Goto(p, label),
           \/ UNCHANGED new
           \/ \E x : new' = [new EXCEPT ![p] = x],
           \/ UNCHANGED old
           \/ \E x : old' = [old EXCEPT ![p] = x],
           \/ UNCHANGED freed
           \/ \E x : freed' = [freed EXCEPT ![p] = x]
    PROVE  Moves(p) /\ pc'[p] = label
<1>1. /\ pc'[p] = label
      /\ \A q \in Proc \ {p} : pc'[q] = pc[q]
  BY DEF CInv, IInv, Types, Goto
<1>2. \A q \in Proc \ {p} : new'[q] = new[q]
  BY DEF CInv, IInv, Types
<1>3. \A q \in Proc \ {p} : old'[q] = old[q]
  BY DEF CInv, IInv, Types
<1>4. \A q \in Proc \ {p} : freed'[q] = freed[q]
  BY DEF CInv, Amounts
<1> QED BY <1>1, <1>2, <1>3, <1>4 DEF Moves

\* Steps that count nothing and change no entry.
LEMMA LocalSteady ==
    ASSUME CInv, Countable, Countable', ~crashed, NEW p \in Proc, Moves(p), NEW s \in Shard,
           pc[p] \notin Counting, pc'[p] \notin Counting,
           UNCHANGED <<items, len, mem, owner, payload>>
    PROVE  Steady(s)
<1>1. Unused(Nil, p)
  BY RingAssumption DEF Unused
<1>2. KeptBut(Nil)
  BY DEF KeptBut
<1> QED BY <1>1, <1>2, QuietCounts DEF Steady, Moves

\* Steps that discard the entry that was not stored.
LEMMA DiscardSteady ==
    ASSUME CInv, Countable, Countable', ~crashed, NEW p \in Client, Moves(p), NEW s \in Shard,
           pc[p] \in {"set", "admit"}, pc'[p] \notin Counting, Discard(p),
           UNCHANGED <<items, len, mem>>
    PROVE  Steady(s)
<1>1. Unused(new[p], p)
  BY StoredEntry
<1>2. KeptBut(new[p]) /\ \A e \in Elem \ {new[p]} : owner'[e] = owner[e]
  BY DEF Discard, CInv, IInv, Types, KeptBut
<1>3. p \in Proc /\ pc[p] \notin Counting
  BY Goroutines DEF Counting
<1> QED BY <1>1, <1>2, <1>3, QuietCounts DEF Steady, Moves

\* The new entry is one that nobody refers to.
LEMMA FetchedSteady ==
    ASSUME CInv, Countable, Countable', NEW p \in Client, NEW b \in Body, Fetched(p, b),
           NEW s \in Shard
    PROVE  Steady(s)
<1> DEFINE e == CHOOSE x \in Elem : owner[x] = Nil
<1>1. /\ ~crashed /\ pc[p] = "fetch" /\ Goto(p, "set")
      /\ owner' = [owner EXCEPT ![e] = want[p]]
      /\ payload' = [payload EXCEPT ![e] = [req |-> want[p], body |-> b]]
      /\ new' = [new EXCEPT ![p] = e]
      /\ UNCHANGED <<items, len, mem, old, freed>>
  BY DEF Fetched, Step, Ready, maps
<1>2. e \in Elem /\ owner[e] = Nil
  BY DEF Fetched, Entries
<1> HIDE DEF e
<1>3. p \in Proc /\ Moves(p) /\ pc'[p] = "set"
  BY <1>1, Goroutines DEF CInv, IInv, Types, Amounts, Goto, Moves
<1>4. Unused(e, p)
  BY <1>1, <1>2, <1>3, FreeEntry
<1>5. KeptBut(e) /\ \A x \in Elem \ {e} : owner'[x] = owner[x]
  BY <1>1 DEF CInv, IInv, Types, KeptBut
<1>6. pc[p] \notin Counting /\ pc'[p] \notin Counting
  BY <1>1, <1>3 DEF Counting
<1> QED BY <1>1, <1>3, <1>4, <1>5, <1>6, QuietCounts DEF Steady, Moves

\* update changes what an entry holds, or finds it equal by now.
LEMMA SwapSteady ==
    ASSUME CInv, Countable, Countable', NEW p \in Client, Swap(p), NEW s \in Shard
    PROVE  Steady(s)
<1> USE Goroutines
<1>1. /\ ~crashed /\ pc[p] = "swap" /\ Goto(p, "touch")
      /\ owner' = [owner EXCEPT ![new[p]] = Nil]
      /\ payload' = [payload EXCEPT ![old[p]] = payload[new[p]], ![new[p]] = Nil]
      /\ new' = [new EXCEPT ![p] = Nil]
      /\ UNCHANGED <<items, len, mem, old, freed>>
  BY DEF Swap, Step, Ready, maps
<1>2. Moves(p) /\ pc[p] \notin Counting /\ pc'[p] \notin Counting
  <2>1. Moves(p) /\ pc'[p] = "touch"
    BY <1>1 DEF CInv, IInv, Types, Amounts, Goto, Moves
  <2> QED BY <1>1, <2>1 DEF Counting
<1>3. Unused(new[p], p)
  BY <1>1, StoredEntry
<1>4. old[p] \in Elem /\ old[p] # new[p] /\ payload[old[p]] # Nil /\ payload[new[p]] # Nil
  BY <1>1, OldEntry, NewEntry, StorageAssumption DEF CInv, IInv, Found, Hidden
<1>5. payload'[old[p]] = payload[new[p]]
  BY <1>1, <1>4 DEF CInv, IInv, Types
<1>6. \A x \in Elem \ {new[p]} : /\ owner'[x] = owner[x]
                                 /\ x # old[p] => payload'[x] = payload[x]
  BY <1>1 DEF CInv, IInv, Types
<1>7. /\ LenDrift(s)' = LenDrift(s)
      /\ KeptBut(new[p]) => MemDrift(s)' = MemDrift(s)
  BY <1>1, <1>2, <1>3, <1>6, QuietCounts DEF Moves
<1>8. CASE payload[old[p]] = payload[new[p]]
  <2>1. KeptBut(new[p])
    BY <1>5, <1>6, <1>8 DEF KeptBut
  <2> QED BY <1>7, <2>1 DEF Steady
<1>9. CASE payload[old[p]] # payload[new[p]]
  BY <1>4, <1>5, <1>7, <1>9 DEF Steady, Renewed
<1> QED BY <1>8, <1>9

LEMMA RefreshedSteady ==
    ASSUME CInv, Countable, Countable', NEW b \in Body, Refreshed(b), NEW s \in Shard
    PROVE  Steady(s)
<1> USE Goroutines
<1> DEFINE c == [req |-> want[Refresher], body |-> b]
<1>1. /\ ~crashed /\ pc[Refresher] = "await" /\ Finish(Refresher)
      /\ payload' = [payload EXCEPT ![old[Refresher]] = c]
      /\ UNCHANGED <<items, len, mem, owner>>
  BY DEF Refreshed, Ready, maps
<1>2. Moves(Refresher) /\ pc[Refresher] \notin Counting /\ pc'[Refresher] \notin Counting
  BY <1>1, FinishMoves DEF Counting
<1>3. Unused(Nil, Refresher)
  BY RingAssumption DEF Unused
<1>4. old[Refresher] \in Elem /\ payload[old[Refresher]] # Nil
  BY <1>1, OldEntry, StorageAssumption DEF CInv, IInv, Refreshing
<1>5. want[Refresher] \in Request
  BY <1>1 DEF CInv, IInv, Types, Refreshing
<1>6. c # Nil
  BY <1>5, StorageAssumption DEF Content
<1> HIDE DEF c
<1>7. payload'[old[Refresher]] = c /\ \A x \in Elem : x # old[Refresher] => payload'[x] = payload[x]
  BY <1>1, <1>4 DEF CInv, IInv, Types
<1>8. LenDrift(s)' = LenDrift(s)
  BY <1>1, <1>2, <1>3, QuietCounts DEF Moves
<1>9. CASE payload[old[Refresher]] = c
  <2>1. KeptBut(Nil)
    BY <1>7, <1>9 DEF KeptBut
  <2> QED BY <1>1, <1>2, <1>3, <1>8, <2>1, QuietCounts DEF Steady, Moves
<1>10. CASE payload[old[Refresher]] # c
  BY <1>4, <1>6, <1>7, <1>8, <1>10 DEF Steady, Renewed
<1> QED BY <1>9, <1>10

-----------------------------------------------------------------------------
\* What the map gains or loses, the goroutine still has to add or to subtract.
LEMMA StoreSteady ==
    ASSUME CInv, Countable, Countable', NEW p \in Client, Store(p), NEW s \in Shard
    PROVE  Steady(s)
<1> USE Goroutines
<1>0. PICK k : k = KeyOfEntry(new[p])
  OBVIOUS
<1>1. /\ ~crashed /\ pc[p] = "store"
      /\ items' = [items EXCEPT ![k] = new[p]]
      /\ old' = [old EXCEPT ![p] = items[k]]
      /\ Goto(p, IF items[k] = Nil THEN "addLen" ELSE "addMem")
      /\ UNCHANGED <<len, mem, owner, payload, new, freed>>
  BY <1>0 DEF Store, Ready, entries
<1>2. Moves(p) /\ old'[p] = items[k] /\ pc'[p] = (IF items[k] = Nil THEN "addLen" ELSE "addMem")
  BY <1>1 DEF CInv, IInv, Types, Amounts, Goto, Moves
<1>3. p \in Proc /\ new[p] \in Elem /\ owner[new[p]] # Nil
  <2>1. new[p] \in Elem
    BY <1>1, NewEntry DEF CInv
  <2> QED BY <2>1, RingAssumption DEF CInv, IInv, Alive
<1>4. k \in Key /\ items[k] \in Elem \cup {Nil} /\ ShardOfEntry(new[p]) = ShardOf(k)
  BY <1>0, <1>3 DEF CInv, IInv, Types, Key, KeyOfEntry, ShardOfEntry
<1>5. items'[k] = new[p] /\ \A j \in Key \ {k} : items'[j] = items[j]
  BY <1>1, <1>4 DEF CInv, IInv, Types
<1>6. Unused(Nil, p)
  BY RingAssumption DEF Unused
<1>7. ShardOfEntry(new[p])' = ShardOf(k)
  BY <1>0, <1>1, <1>4 DEF KeyOfEntry, ShardOfEntry
<1>8. /\ Weight(new[p]) \in Int
      /\ items[k] # Nil => Weight(items[k]) \in Int
      /\ Weight(items[k])' = Weight(new[p])
      /\ Added(p)' = Weight(new[p]) - (IF items[k] = Nil THEN 0 ELSE Weight(items[k]))
  <2>1. Weight(new[p]) \in Int
    BY <1>3, EntryWeight DEF CInv
  <2>2. items[k] # Nil => Weight(items[k]) \in Int
    BY <1>4 DEF Countable
  <2>3. items'[k] = new[p] /\ payload' = payload /\ new'[p] = new[p] /\ old'[p] = items[k]
    BY <1>1, <1>2, <1>5
  <2> QED BY <2>1, <2>2, <2>3 DEF Weight, Added
<1>9. s \in Shard /\ new[p] # Nil
  BY <1>3, RingAssumption
<1>10. /\ k \in Held(s) <=> ShardOf(k) = s /\ items[k] # Nil
       /\ k \in Held(s)' <=> ShardOf(k) = s
  BY <1>4, <1>5, <1>9 DEF Held, KeysOf
<1>11. /\ p \notin Adding(s, {"addLen"}) /\ p \notin Adding(s, {"addLen", "addMem"})
       /\ p \notin Taking(s, {"subLen"}) /\ p \notin Taking(s, {"subLen", "subMem"})
       /\ p \notin Taking(s, {"subLen"})' /\ p \notin Taking(s, {"subLen", "subMem"})'
  BY <1>1, <1>2 DEF Adding, Taking
<1>12. /\ p \in Adding(s, {"addLen"})' <=> ShardOf(k) = s /\ items[k] = Nil
       /\ p \in Adding(s, {"addLen", "addMem"})' <=> ShardOf(k) = s
  BY <1>2, <1>3, <1>7 DEF Adding
<1>13. len[s] \in Int /\ mem[s] \in Int /\ len'[s] = len[s] /\ mem'[s] = mem[s]
  BY <1>1 DEF Countable, Amounts
<1>14. LenShare(p, k, s)' = LenShare(p, k, s)
  BY <1>10, <1>11, <1>12, <1>13 DEF LenShare
<1>15. MemShare(p, k, s)' = MemShare(p, k, s)
  BY <1>8, <1>10, <1>11, <1>12, <1>13 DEF MemShare
<1>16. KeptBut(Nil)
  BY <1>1 DEF KeptBut
<1> QED BY <1>1, <1>2, <1>5, <1>6, <1>14, <1>15, <1>16, StepCounts DEF Steady, Moves

LEMMA NoSuchKey == ASSUME NEW s \in Shard PROVE -1 \notin Held(s) /\ -1 \notin Held(s)'
<1>1. -1 \notin Key
  BY StorageAssumption DEF Key
<1> QED BY <1>1 DEF Held, KeysOf

LEMMA AddLenSteady ==
    ASSUME CInv, Countable, Countable', NEW p \in Client, AddLen(p), NEW s \in Shard
    PROVE  Steady(s)
<1> USE Goroutines
<1>0. PICK t : t = ShardOfEntry(new[p])
  OBVIOUS
<1>1. /\ ~crashed /\ pc[p] = "addLen"
      /\ Goto(p, "addMem")
      /\ len' = [len EXCEPT ![t] = @ + 1]
      /\ UNCHANGED <<items, mem, owner, payload, new, old, freed>>
  BY <1>0 DEF AddLen, Step, Ready, entries, calls
<1>2. Moves(p) /\ pc'[p] = "addMem"
  BY <1>1 DEF CInv, IInv, Types, Amounts, Goto, Moves
<1>3. ShardOfEntry(new[p])' = t /\ Added(p)' = Added(p)
  BY <1>0, <1>1 DEF ShardOfEntry, KeyOfEntry, Added, Weight
<1>4. /\ p \in Proc /\ Unused(Nil, p) /\ KeptBut(Nil)
      /\ UNCHANGED <<items, owner>>
  BY <1>1, RingAssumption DEF Unused, KeptBut
<1>5. /\ p \notin Taking(s, {"subLen"}) /\ p \notin Taking(s, {"subLen", "subMem"})
      /\ p \notin Taking(s, {"subLen"})' /\ p \notin Taking(s, {"subLen", "subMem"})'
      /\ p \in Adding(s, {"addLen"}) <=> s = t
      /\ p \in Adding(s, {"addLen", "addMem"}) <=> s = t
      /\ p \in Adding(s, {"addLen", "addMem"})' <=> s = t
      /\ p \notin Adding(s, {"addLen"})'
  BY <1>0, <1>1, <1>2, <1>3, <1>4 DEF Adding, Taking
<1>6. len[s] \in Int /\ mem'[s] = mem[s] /\ len'[s] = IF s = t THEN len[s] + 1 ELSE len[s]
  BY <1>1 DEF Countable, Amounts
<1>7. LenShare(p, -1, s)' = LenShare(p, -1, s)
  BY <1>5, <1>6, NoSuchKey DEF LenShare
<1>8. MemShare(p, -1, s)' = MemShare(p, -1, s)
  BY <1>3, <1>5, <1>6, NoSuchKey DEF MemShare
<1> QED BY <1>1, <1>2, <1>4, <1>7, <1>8, StepCounts DEF Steady, Moves

LEMMA AddMemSteady ==
    ASSUME CInv, Countable, Countable', NEW p \in Client, AddMem(p), NEW s \in Shard
    PROVE  Steady(s)
<1> USE Goroutines
<1>0. PICK t, w : t = ShardOfEntry(new[p]) /\ w = Added(p)
  OBVIOUS
<1>1. /\ ~crashed /\ pc[p] = "addMem"
      /\ Goto(p, "push")
      /\ mem' = [mem EXCEPT ![t] = @ + w]
      /\ old' = [old EXCEPT ![p] = Nil]
      /\ UNCHANGED <<items, len, owner, payload, new, freed>>
  BY <1>0 DEF AddMem, Step, Ready, entries
<1>2. Moves(p) /\ pc'[p] = "push"
  BY <1>1 DEF CInv, IInv, Types, Amounts, Goto, Moves
<1>3. w \in Int
  BY <1>0, <1>1 DEF Countable
<1>4. /\ p \in Proc /\ Unused(Nil, p) /\ KeptBut(Nil)
      /\ UNCHANGED <<items, owner>>
  BY <1>1, RingAssumption DEF Unused, KeptBut
<1>5. /\ p \notin Taking(s, {"subLen"}) /\ p \notin Taking(s, {"subLen", "subMem"})
      /\ p \notin Taking(s, {"subLen"})' /\ p \notin Taking(s, {"subLen", "subMem"})'
      /\ p \notin Adding(s, {"addLen"}) /\ p \notin Adding(s, {"addLen"})'
      /\ p \in Adding(s, {"addLen", "addMem"}) <=> s = t
      /\ p \notin Adding(s, {"addLen", "addMem"})'
  BY <1>0, <1>1, <1>2, <1>4 DEF Adding, Taking
<1>6. mem[s] \in Int /\ len'[s] = len[s] /\ mem'[s] = IF s = t THEN mem[s] + w ELSE mem[s]
  BY <1>1 DEF Countable, Amounts
<1>7. LenShare(p, -1, s)' = LenShare(p, -1, s)
  BY <1>5, <1>6, NoSuchKey DEF LenShare
<1>8. MemShare(p, -1, s)' = MemShare(p, -1, s)
  BY <1>0, <1>3, <1>5, <1>6, NoSuchKey DEF MemShare
<1> QED BY <1>1, <1>2, <1>4, <1>7, <1>8, StepCounts DEF Steady, Moves

LEMMA SubLenSteady ==
    ASSUME CInv, Countable, Countable', NEW p \in Client \cup {Evictor}, SubLen(p), NEW s \in Shard
    PROVE  Steady(s)
<1> USE Goroutines
<1>0. PICK t : t = ShardOfEntry(old[p])
  OBVIOUS
<1>1. /\ ~crashed /\ pc[p] = "subLen"
      /\ Goto(p, "subMem")
      /\ len' = [len EXCEPT ![t] = @ - 1]
      /\ UNCHANGED <<items, mem, owner, payload, new, old, freed>>
  BY <1>0 DEF SubLen, Step, Ready, entries, calls
<1>2. p \in Proc /\ Moves(p) /\ pc'[p] = "subMem"
  BY <1>1 DEF CInv, IInv, Types, Amounts, Goto, Moves, Proc
<1>3. ShardOfEntry(old[p])' = t
  BY <1>0, <1>1 DEF ShardOfEntry, KeyOfEntry
<1>4. /\ Unused(Nil, p) /\ KeptBut(Nil)
      /\ UNCHANGED <<items, owner>>
  BY <1>1, RingAssumption DEF Unused, KeptBut
<1>5. /\ p \notin Adding(s, {"addLen"}) /\ p \notin Adding(s, {"addLen", "addMem"})
      /\ p \notin Adding(s, {"addLen"})' /\ p \notin Adding(s, {"addLen", "addMem"})'
      /\ p \in Taking(s, {"subLen"}) <=> s = t
      /\ p \in Taking(s, {"subLen", "subMem"}) <=> s = t
      /\ p \in Taking(s, {"subLen", "subMem"})' <=> s = t
      /\ p \notin Taking(s, {"subLen"})'
  BY <1>0, <1>1, <1>2, <1>3 DEF Adding, Taking
<1>6. len[s] \in Int /\ mem'[s] = mem[s] /\ len'[s] = IF s = t THEN len[s] - 1 ELSE len[s]
  BY <1>1 DEF Countable, Amounts
<1>7. LenShare(p, -1, s)' = LenShare(p, -1, s)
  BY <1>5, <1>6, NoSuchKey DEF LenShare
<1>8. MemShare(p, -1, s)' = MemShare(p, -1, s)
  BY <1>1, <1>5, <1>6, NoSuchKey DEF MemShare
<1> QED BY <1>1, <1>2, <1>4, <1>7, <1>8, StepCounts DEF Steady, Moves

LEMMA SubMemSteady ==
    ASSUME CInv, Countable, Countable', NEW p \in Client \cup {Evictor}, SubMem(p), NEW s \in Shard
    PROVE  Steady(s)
<1> USE Goroutines
<1>0. PICK t, w : t = ShardOfEntry(old[p]) /\ w = freed[p]
  OBVIOUS
<1>1. /\ ~crashed /\ pc[p] = "subMem"
      /\ Goto(p, AfterRemove(p))
      /\ mem' = [mem EXCEPT ![t] = @ - w]
      /\ old' = [old EXCEPT ![p] = Nil]
      /\ freed' = [freed EXCEPT ![p] = 0]
      /\ UNCHANGED <<items, len, owner, payload, new>>
  BY <1>0 DEF SubMem, Step, Ready, entries
<1>2. p \in Proc /\ Moves(p) /\ pc'[p] \in {"evict", "admit"}
  BY <1>1 DEF CInv, IInv, Types, Amounts, Goto, Moves, Proc, AfterRemove
<1>3. w \in Int
  BY <1>0, <1>2 DEF Countable, Amounts
<1>4. /\ Unused(Nil, p) /\ KeptBut(Nil)
      /\ UNCHANGED <<items, owner>>
  BY <1>1, RingAssumption DEF Unused, KeptBut
<1>5. /\ p \notin Adding(s, {"addLen"}) /\ p \notin Adding(s, {"addLen", "addMem"})
      /\ p \notin Adding(s, {"addLen"})' /\ p \notin Adding(s, {"addLen", "addMem"})'
      /\ p \notin Taking(s, {"subLen"}) /\ p \notin Taking(s, {"subLen"})'
      /\ p \in Taking(s, {"subLen", "subMem"}) <=> s = t
      /\ p \notin Taking(s, {"subLen", "subMem"})'
  BY <1>0, <1>1, <1>2 DEF Adding, Taking
<1>6. mem[s] \in Int /\ len'[s] = len[s] /\ mem'[s] = IF s = t THEN mem[s] - w ELSE mem[s]
  BY <1>1 DEF Countable, Amounts
<1>7. LenShare(p, -1, s)' = LenShare(p, -1, s)
  BY <1>5, <1>6, NoSuchKey DEF LenShare
<1>8. MemShare(p, -1, s)' = MemShare(p, -1, s)
  BY <1>0, <1>3, <1>5, <1>6, NoSuchKey DEF MemShare
<1> QED BY <1>1, <1>2, <1>4, <1>7, <1>8, StepCounts DEF Steady, Moves

LEMMA DropSteady ==
    ASSUME CInv, Countable, Countable', NEW p \in Client \cup {Evictor}, Drop(p), NEW s \in Shard
    PROVE  Steady(s)
<1> USE Goroutines
<1>0. PICK k, e : k = KeyOfEntry(old[p]) /\ e = items[k]
  OBVIOUS
<1>1. /\ ~crashed /\ pc[p] = "drop"
      /\ items' = [items EXCEPT ![k] = Nil]
      /\ freed' = [freed EXCEPT ![p] = IF e # Nil THEN Weight(e) ELSE 0]
      /\ Goto(p, IF e # Nil THEN "subLen" ELSE AfterRemove(p))
      /\ old' = IF e # Nil THEN old ELSE [old EXCEPT ![p] = Nil]
      /\ UNCHANGED <<len, mem, owner, payload, new>>
  BY <1>0 DEF Drop, Ready, entries
<1>2. /\ p \in Proc /\ Moves(p)
      /\ pc'[p] = (IF e # Nil THEN "subLen" ELSE AfterRemove(p))
      /\ e # Nil => old'[p] = old[p] /\ freed'[p] = Weight(e)
  BY <1>1 DEF CInv, IInv, Types, Amounts, Goto, Moves, Proc
<1>3. old[p] \in Elem /\ owner[old[p]] # Nil
  BY <1>1, RemovedEntry DEF CInv
<1>4. k \in Key /\ e \in Elem \cup {Nil} /\ ShardOfEntry(old[p]) = ShardOf(k)
  BY <1>0, <1>3 DEF CInv, IInv, Types, Key, KeyOfEntry, ShardOfEntry
<1>5. items'[k] = Nil /\ \A j \in Key \ {k} : items'[j] = items[j]
  BY <1>1, <1>4 DEF CInv, IInv, Types
<1>6. Unused(Nil, p) /\ KeptBut(Nil)
  BY <1>1, RingAssumption DEF Unused, KeptBut
<1>7. e # Nil => ShardOfEntry(old[p])' = ShardOf(k)
  BY <1>0, <1>1, <1>4 DEF KeyOfEntry, ShardOfEntry
<1>8. e # Nil => Weight(e) \in Int
  BY <1>0, <1>4 DEF Countable
<1>9. /\ k \in Held(s) <=> ShardOf(k) = s /\ e # Nil
      /\ k \notin Held(s)'
  BY <1>0, <1>4, <1>5 DEF Held, KeysOf
<1>10. /\ p \notin Adding(s, {"addLen"}) /\ p \notin Adding(s, {"addLen", "addMem"})
       /\ p \notin Adding(s, {"addLen"})' /\ p \notin Adding(s, {"addLen", "addMem"})'
       /\ p \notin Taking(s, {"subLen"}) /\ p \notin Taking(s, {"subLen", "subMem"})
  BY <1>1, <1>2 DEF Adding, Taking, AfterRemove
<1>11. /\ p \in Taking(s, {"subLen"})' <=> ShardOf(k) = s /\ e # Nil
       /\ p \in Taking(s, {"subLen", "subMem"})' <=> ShardOf(k) = s /\ e # Nil
  BY <1>2, <1>7 DEF Taking, AfterRemove
<1>12. len[s] \in Int /\ mem[s] \in Int /\ len'[s] = len[s] /\ mem'[s] = mem[s]
  BY <1>1 DEF Countable, Amounts
<1>13. LenShare(p, k, s)' = LenShare(p, k, s)
  BY <1>9, <1>10, <1>11, <1>12 DEF LenShare
<1>14. MemShare(p, k, s)' = MemShare(p, k, s)
  BY <1>0, <1>2, <1>8, <1>9, <1>10, <1>11, <1>12 DEF MemShare
<1> QED BY <1>1, <1>2, <1>5, <1>6, <1>13, <1>14, StepCounts DEF Steady, Moves

-----------------------------------------------------------------------------
LEMMA AfterTouchMoves ==
    ASSUME CInv, NEW p \in Client, AfterTouch(p)
    PROVE  Moves(p) /\ pc'[p] \in {"serve", "idle"}
<1>1. p \in Proc
  BY Goroutines
<1>2. CASE want[p] # Nil
  BY <1>1, <1>2 DEF AfterTouch, calls, CInv, IInv, Types, Goto, Moves
<1>3. CASE want[p] = Nil
  BY <1>1, <1>3, FinishMoves DEF AfterTouch
<1> QED BY <1>2, <1>3

LEMMA HandlerSteady ==
    ASSUME CInv, Countable, Countable', NEW p \in Client, NEW s \in Shard,
           \/ \E r \in Request : Get(p, r)
           \/ \E b \in Body : Fetched(p, b)
           \/ FetchFails(p)
    PROVE  Steady(s)
<1>1. p \in Proc
  BY Goroutines
<1>2. CASE \E b \in Body : Fetched(p, b)
  BY <1>2, FetchedSteady
<1>3. ASSUME NEW r \in Request, Get(p, r) PROVE Steady(s)
  <2>1. /\ ~crashed /\ pc[p] = "idle"
        /\ UNCHANGED <<items, len, mem, owner, payload>>
    BY <1>3 DEF Get, Ready, maps, entries
  <2>2. Moves(p) /\ pc'[p] \in {"touch", "fetch"}
    BY <1>1, <1>3 DEF Get, CInv, IInv, Types, Goto, Moves
  <2> QED BY <1>1, <2>1, <2>2, LocalSteady DEF Counting
<1>4. CASE FetchFails(p)
  <2>1. /\ ~crashed /\ pc[p] = "fetch"
        /\ UNCHANGED <<items, len, mem, owner, payload>>
    BY <1>4 DEF FetchFails, Ready, maps, entries
  <2>2. Moves(p) /\ pc'[p] = "idle"
    BY <1>1, <1>4, FinishMoves DEF FetchFails
  <2> QED BY <1>1, <2>1, <2>2, LocalSteady DEF Counting
<1> QED BY <1>2, <1>3, <1>4

LEMMA WorkingSteady ==
    ASSUME CInv, Countable, Countable', NEW p \in Client, Working(p), NEW s \in Shard
    PROVE  Steady(s)
<1>1. p \in Proc
  BY Goroutines
<1>2. ASSUME ~crashed, Moves(p), pc[p] \notin Counting, pc'[p] \notin Counting,
             UNCHANGED <<maps, entries>>
      PROVE  Steady(s)
  BY <1>1, <1>2, LocalSteady DEF maps, entries
<1>3. CASE TouchSkips(p)
  <2>1. Moves(p) /\ pc'[p] \in {"serve", "idle"}
    BY <1>3, AfterTouchMoves DEF TouchSkips
  <2> QED BY <1>2, <1>3, <2>1 DEF TouchSkips, Ready, Counting
<1>4. CASE Touch(p)
  <2>1. Moves(p) /\ pc'[p] = "move"
    BY <1>1, <1>4 DEF Touch, Step, calls, CInv, IInv, Types, Goto, Moves
  <2> QED BY <1>2, <1>4, <2>1 DEF Touch, Step, Ready, Counting
<1>5. CASE Move(p)
  <2>1. Moves(p) /\ pc'[p] \in {"serve", "idle"}
    BY <1>5, AfterTouchMoves DEF Move
  <2> QED BY <1>2, <1>5, <2>1 DEF Move, Ready, Counting
<1>6. CASE Serve(p)
  <2>1. Moves(p) /\ pc'[p] = "idle"
    BY <1>1, <1>6, FinishMoves DEF Serve
  <2> QED BY <1>2, <1>6, <2>1 DEF Serve, Ready, Counting
<1>7. CASE SetFound(p)
  <2>1. /\ ~crashed /\ pc[p] = "set"
        /\ UNCHANGED <<items, len, mem>>
    BY <1>7 DEF SetFound, Ready, maps
  <2>2. CASE /\ Goto(p, "touch") /\ Discard(p)
             /\ new' = [new EXCEPT ![p] = Nil]
    <3>1. Moves(p) /\ pc'[p] = "touch"
      BY <1>1, <1>7, <2>2 DEF SetFound, CInv, IInv, Types, Goto, Moves
    <3> QED BY <2>1, <2>2, <3>1, DiscardSteady DEF Counting
  <2>3. CASE Goto(p, "swap") /\ UNCHANGED <<entries, new>>
    <3>1. Moves(p) /\ pc'[p] = "swap"
      BY <1>1, <1>7, <2>3 DEF SetFound, CInv, IInv, Types, Goto, Moves
    <3> QED BY <1>2, <2>1, <2>3, <3>1 DEF Counting, maps
  <2> QED BY <1>7, <2>2, <2>3 DEF SetFound
<1>8. CASE SetCollides(p)
  <2>1. Moves(p) /\ pc'[p] = "unlistCheck"
    BY <1>1, <1>8 DEF SetCollides, Step, CInv, IInv, Types, Goto, Moves
  <2> QED BY <1>2, <1>8, <2>1 DEF SetCollides, Step, Ready, Counting
<1>9. CASE SetMisses(p)
  <2>1. Moves(p) /\ pc'[p] = "admit"
    BY <1>1, <1>9 DEF SetMisses, Step, calls, CInv, IInv, Types, Goto, Moves
  <2> QED BY <1>2, <1>9, <2>1 DEF SetMisses, Step, Ready, Counting
<1>10. CASE Admit(p)
  <2>1. Moves(p) /\ pc'[p] = "store"
    BY <1>1, <1>10 DEF Admit, Step, calls, CInv, IInv, Types, Goto, Moves
  <2> QED BY <1>2, <1>10, <2>1 DEF Admit, Step, Ready, Counting
<1>11. CASE Reject(p)
  <2>1. Moves(p) /\ pc'[p] = "idle"
    BY <1>1, <1>11, FinishMoves DEF Reject
  <2> QED BY <1>11, <2>1, DiscardSteady DEF Reject, Ready, maps, Counting
<1>12. CASE Push(p)
  <2>1. Moves(p) /\ pc'[p] = "setElem"
    BY <1>1, <1>12 DEF Push, Step, calls, CInv, IInv, Types, Goto, Moves
  <2> QED BY <1>2, <1>12, <2>1 DEF Push, Step, Ready, Counting
<1>13. CASE SetElem(p)
  <2>1. Moves(p) /\ pc'[p] = "idle"
    BY <1>1, <1>13, FinishMoves DEF SetElem
  <2> QED BY <1>1, <1>13, <2>1, LocalSteady DEF SetElem, Ready, Counting, maps
<1> QED BY <1>3, <1>4, <1>5, <1>6, <1>7, <1>8, <1>9, <1>10, <1>11, <1>12, <1>13,
           SwapSteady, StoreSteady, AddLenSteady, AddMemSteady DEF Working

LEMMA RemovingSteady ==
    ASSUME CInv, Countable, Countable', NEW p \in Client \cup {Evictor}, Removing(p),
           NEW s \in Shard
    PROVE  Steady(s)
<1>1. p \in Proc
  BY DEF Proc
<1>2. CASE UnlistCheck(p)
  <2>1. Moves(p) /\ pc'[p] \in {"unlist", "drop"}
    BY <1>1, <1>2 DEF UnlistCheck, calls, CInv, IInv, Types, Goto, Moves
  <2> QED BY <1>1, <1>2, <2>1, LocalSteady DEF UnlistCheck, Ready, Counting, maps, entries
<1>3. CASE Unlist(p)
  <2>1. Moves(p) /\ pc'[p] = "drop"
    BY <1>1, <1>3 DEF Unlist, Step, calls, CInv, IInv, Types, Goto, Moves
  <2> QED BY <1>1, <1>3, <2>1, LocalSteady DEF Unlist, Step, Ready, Counting, maps, entries
<1> QED BY <1>2, <1>3, DropSteady, SubLenSteady, SubMemSteady DEF Removing

LEMMA EvictorSteady ==
    ASSUME CInv, Countable, Countable', EvictorStep, NEW s \in Shard
    PROVE  Steady(s)
<1>1. Evictor \in Proc
  BY Goroutines
<1>2. ~crashed /\ pc[Evictor] \in {"idle", "pick", "evict", "next"}
  BY DEF EvictorStep, Tick, WithinLimit, Pick, GoOn, Evict, EndOfList, Step, Ready
<1>3. UNCHANGED <<items, len, mem, owner, payload>>
  BY DEF EvictorStep, Tick, WithinLimit, Pick, GoOn, Evict, EndOfList, maps, entries
<1>4. Moves(Evictor) /\ pc'[Evictor] \in {"pick", "idle", "evict", "next", "unlistCheck"}
  <2>1. CASE WithinLimit
    BY <1>1, <2>1, FinishMoves DEF WithinLimit
  <2>2. CASE Evict
    BY <1>1, <2>2 DEF Evict, Step, CInv, IInv, Types, Goto, Moves
  <2>3. ASSUME Tick \/ Pick \/ GoOn \/ EndOfList
        PROVE  /\ UNCHANGED calls
               /\ \E label \in {"pick", "evict", "next"} : Goto(Evictor, label)
    BY <2>3 DEF Tick, Pick, GoOn, EndOfList, Step
  <2>4. CASE Tick \/ Pick \/ GoOn \/ EndOfList
    BY <1>1, <2>3, <2>4 DEF calls, CInv, IInv, Types, Goto, Moves
  <2> QED BY <2>1, <2>2, <2>4 DEF EvictorStep
<1> QED BY <1>1, <1>2, <1>3, <1>4, LocalSteady DEF Counting

LEMMA RefresherSteady ==
    ASSUME CInv, Countable, Countable', RefresherStep, NEW s \in Shard
    PROVE  Steady(s)
<1>1. Refresher \in Proc
  BY Goroutines
<1>2. CASE Sample
  <2>1. Moves(Refresher) /\ pc'[Refresher] = "refresh"
    BY <1>1, <1>2 DEF Sample, Step, CInv, IInv, Types, Goto, Moves
  <2> QED BY <1>1, <1>2, <2>1, LocalSteady DEF Sample, Step, Ready, Counting, maps, entries
<1>3. CASE Unpack
  <2>1. Moves(Refresher) /\ pc'[Refresher] = "await"
    BY <1>1, <1>3 DEF Unpack, Step, CInv, IInv, Types, Goto, Moves
  <2> QED BY <1>1, <1>3, <2>1, LocalSteady DEF Unpack, Step, Ready, Counting, maps, entries
<1>4. CASE RefreshFails
  <2>1. Moves(Refresher) /\ pc'[Refresher] = "idle"
    BY <1>1, <1>4, FinishMoves DEF RefreshFails
  <2> QED BY <1>1, <1>4, <2>1, LocalSteady DEF RefreshFails, Ready, Counting, maps, entries
<1> QED BY <1>2, <1>3, <1>4, RefreshedSteady DEF RefresherStep

\* Steps of none of them, Shard.Clear of another shard among them.
LEMMA OtherSteady ==
    ASSUME CInv, NEW s \in Shard,
           \/ RefreshMem \/ Clear \/ UNCHANGED vars
           \/ \E t \in Shard \ {s} : ClearShard(t)
    PROVE  Steady(s)
<1>1. /\ UNCHANGED <<owner, payload, pc, new, old, freed>>
      /\ len'[s] = len[s] /\ mem'[s] = mem[s]
      /\ \A k \in KeysOf(s) : items'[k] = items[k]
  <2>1. CASE RefreshMem \/ Clear \/ UNCHANGED vars
    BY <2>1 DEF RefreshMem, Clear, vars, maps, entries, calls
  <2>2. ASSUME NEW t \in Shard \ {s}, ClearShard(t)
        PROVE  /\ UNCHANGED <<owner, payload, pc, new, old, freed>>
               /\ len'[s] = len[s] /\ mem'[s] = mem[s]
               /\ \A k \in KeysOf(s) : items'[k] = items[k]
    BY <2>2 DEF ClearShard, entries, calls, CInv, Amounts, KeysOf
  <2> QED BY <2>1, <2>2
<1>2. Held(s)' = Held(s)
  BY <1>1 DEF Held, KeysOf
<1>3. \A labels : Adding(s, labels)' = Adding(s, labels) /\ Taking(s, labels)' = Taking(s, labels)
  BY <1>1 DEF Adding, Taking, ShardOfEntry, KeyOfEntry
<1>4. \A q : Added(q)' = Added(q)
  BY <1>1 DEF Added, Weight
<1>5. \A k \in Held(s) : Weight(items[k])' = Weight(items[k])
  BY <1>1 DEF Held, Weight
<1> QED BY <1>1, <1>2, <1>3, <1>4, <1>5 DEF Steady, LenDrift, MemDrift

\* One step, except for the shard it clears.
LEMMA NextSteady ==
    ASSUME CInv, Countable, Countable', [Next]_vars, NEW s \in Shard, s \notin clearing \ clearing'
    PROVE  Steady(s)
<1>1. ~ClearShard(s)
  BY DEF ClearShard
<1>2. ASSUME NEW p \in Client, ClientStep(p) PROVE Steady(s)
  BY <1>2, HandlerSteady, WorkingSteady, RemovingSteady DEF ClientStep
<1>3. CASE \E t \in Shard : ClearShard(t)
  BY <1>1, <1>3, OtherSteady
<1>4. CASE RefreshMem \/ Clear \/ UNCHANGED vars
  BY <1>4, OtherSteady
<1> QED BY <1>2, <1>3, <1>4, EvictorSteady, RefresherSteady, RemovingSteady DEF Next

\* The counters of a shard never lose or invent anything, whatever lookups,
\* insertions, replacements, collisions, removals and evictions do at once
\* (shard.go Set and Remove, after the lock is released).
THEOREM CountersHold == Spec => CountersDriftOnlyByClearOrUpdate
<1>1. CInv /\ [Next]_vars =>
        [\A s \in Shard : s \notin clearing \ clearing' =>
            /\ LenDrift(s)' = LenDrift(s)
            /\ \/ MemDrift(s)' = MemDrift(s)
               \/ \E e \in Elem : {payload[e], payload'[e]} \cap {Nil} = {}
                                  /\ payload'[e] # payload[e]]_vars
  <2> SUFFICES ASSUME CInv, [Next]_vars,
                      NEW s \in Shard, s \notin clearing \ clearing'
               PROVE  Steady(s)
    BY DEF Steady, Renewed
  <2>1. CInv'
    BY NextCInv
  <2>2. Countable /\ Countable'
    BY <2>1, CInvCounts, PTL
  <2> QED BY <2>2, NextSteady
<1>2. Spec => []CInv
  BY InitCInv, NextCInv, PTL DEF Spec
<1> QED BY <1>1, <1>2, PTL DEF Spec, CountersDriftOnlyByClearOrUpdate

-----------------------------------------------------------------------------
\* The workload in which no payload is replaced in place: no two requests are
\* taken for the same one, each is made once, and nothing is refreshed.
NoUpdates == IdentitiesApart /\ ~Repeat /\ ~Refresh

LEMMA NextOnce == CInv /\ Once /\ NoUpdates /\ [Next]_vars => Once'
<1> SUFFICES ASSUME CInv, Once, NoUpdates, [Next]_vars PROVE Once'
  OBVIOUS
<1> USE Goroutines DEF CInv, NoUpdates
<1>1. ASSUME NEW p \in Proc, NEW label \in Label \ (Answering \cup {"swap"}), Goto(p, label),
             owner' = owner \/ Discard(p),
             want' = want \/ want' = [want EXCEPT ![p] = Nil] \/ p \notin Client,
             \A q \in Client \ {p} : want'[q] = want[q]
      PROVE  Once'
  <2>1. \A e \in Elem : owner'[e] \in {owner[e], Nil}
    BY <1>1 DEF Discard, IInv, Types
  <2>2. \A q \in Client : want'[q] \in {want[q], Nil}
    BY <1>1 DEF IInv, Types
  <2> QED BY <1>1, <2>1, <2>2, OnceStays
<1>2. ASSUME NEW p \in Proc, Finish(p), owner' = owner \/ Discard(p) PROVE Once'
  <2>1. Goto(p, "idle") /\ want' = [want EXCEPT ![p] = Nil]
    BY <1>2 DEF Finish
  <2>2. \A q \in Client \ {p} : want'[q] = want[q]
    BY <2>1 DEF IInv, Types
  <2> QED BY <1>1, <1>2, <2>1, <2>2 DEF Label
<1>3. ASSUME NEW p \in Client, ClientStep(p) PROVE Once'
  <2> USE <1>3
  <2>1. pc[p] \notin Answering \cup {"swap"}
    BY DEF Once
  <2>2. ASSUME NEW r \in Request, Get(p, r) PROVE Once'
    BY <2>2, GetOnce
  <2>3. ASSUME NEW b \in Body, Fetched(p, b) PROVE Once'
    BY <2>3, FetchedOnce
  <2>4. CASE FetchFails(p) \/ Serve(p) \/ SetElem(p) \/ Reject(p)
    BY <1>2, <2>4 DEF FetchFails, Serve, SetElem, Reject, entries
  <2>5. ~SetFound(p)
    BY FoundOnlyIfRepeated
  <2>6. ~TouchSkips(p) /\ ~Touch(p) /\ ~Move(p) /\ ~Swap(p)
    BY <2>1 DEF TouchSkips, Touch, Move, Swap, Step, Ready
  <2>7. CASE \/ SetCollides(p) \/ SetMisses(p) \/ Admit(p) \/ Store(p) \/ AddLen(p)
             \/ AddMem(p) \/ Push(p) \/ Removing(p)
    <3>1. owner' = owner /\ want' = want
      BY <2>7 DEF SetCollides, SetMisses, Admit, Store, AddLen, AddMem, Push, Removing,
                  UnlistCheck, Unlist, Drop, SubLen, SubMem, entries, calls
    <3>2. \E label \in Label \ (Answering \cup {"swap"}) : Goto(p, label)
      BY <2>7 DEF SetCollides, SetMisses, Admit, Store, AddLen, AddMem, Push, Removing,
                  UnlistCheck, Unlist, Drop, SubLen, SubMem, Step, AfterRemove, Label
    <3> QED BY <1>1, <3>1, <3>2
  <2> QED BY <2>2, <2>3, <2>4, <2>5, <2>6, <2>7 DEF ClientStep, Working
<1>4. CASE EvictorStep \/ Removing(Evictor) \/ RefresherStep
  <2>1. /\ owner' = owner
        /\ \A q \in Client : want'[q] = want[q]
    BY <1>4 DEF EvictorStep, Tick, WithinLimit, Pick, GoOn, Evict, EndOfList, Removing,
                UnlistCheck, Unlist, Drop, SubLen, SubMem, RefresherStep, Sample, Unpack,
                Refreshed, RefreshFails, Finish, entries, calls, IInv, Types
  <2>2. \A q \in Client : pc'[q] = pc[q]
    BY <1>4 DEF EvictorStep, Tick, WithinLimit, Pick, GoOn, Evict, EndOfList, Removing,
                UnlistCheck, Unlist, Drop, SubLen, SubMem, RefresherStep, Sample, Unpack,
                Refreshed, RefreshFails, Finish, Step, Goto, IInv, Types
  <2> QED BY <2>1, <2>2 DEF Once
<1>5. CASE RefreshMem \/ Clear \/ UNCHANGED vars \/ \E s \in Shard : ClearShard(s)
  <2>1. UNCHANGED <<owner, want, pc>>
    BY <1>5 DEF RefreshMem, Clear, ClearShard, vars, entries, calls
  <2> QED BY <2>1 DEF Once
<1> QED BY <1>3, <1>4, <1>5 DEF Next

\* The refresh worker stays idle.
Resting == pc[Refresher] = "idle"

LEMMA NextResting == CInv /\ Resting /\ NoUpdates /\ [Next]_vars => Resting'
<1> SUFFICES ASSUME CInv, Resting, NoUpdates, [Next]_vars, pc' # pc PROVE Resting'
  BY DEF Resting
<1> USE Goroutines DEF CInv, NoUpdates, Resting
<1>1. ~RefresherStep
  BY DEF RefresherStep, Sample, Unpack, Refreshed, RefreshFails, Step, Ready
<1>2. ASSUME NEW p \in Client \cup {Evictor}, \E label : Goto(p, label) PROVE Resting'
  BY <1>2 DEF Goto, IInv, Types
<1>3. ASSUME NEW p \in Client, ClientStep(p) \/ Removing(p)
      PROVE  \E label : Goto(p, label)
  BY <1>3 DEF ClientStep, Working, Removing, Get, Fetched, FetchFails, TouchSkips, Touch, Move,
        Serve, SetFound, SetCollides, SetMisses, Swap, Admit, Reject, Store, AddLen, AddMem,
        Push, SetElem, UnlistCheck, Unlist, Drop, SubLen, SubMem, AfterTouch, Finish, Step
<1>4. ASSUME EvictorStep \/ Removing(Evictor)
      PROVE  \E label : Goto(Evictor, label)
  BY <1>4 DEF EvictorStep, Tick, WithinLimit, Pick, GoOn, Evict, EndOfList, Removing,
        UnlistCheck, Unlist, Drop, SubLen, SubMem, Finish, Step
<1>5. ~(RefreshMem \/ Clear \/ UNCHANGED vars \/ \E s \in Shard : ClearShard(s))
  BY DEF RefreshMem, Clear, ClearShard, vars
<1> QED BY <1>1, <1>2, <1>3, <1>4, <1>5 DEF Next

\* Payloads come with a new entry and go with a discarded one.
LEMMA NeverRenewed ==
    ASSUME CInv, Once, Resting, NoUpdates, [Next]_vars PROVE ~Renewed
<1> USE DEF CInv
<1>1. CASE payload' = payload
  BY <1>1 DEF Renewed
<1>2. ASSUME NEW p \in Client, NEW b \in Body, Fetched(p, b) PROVE ~Renewed
  <2> DEFINE e == CHOOSE x \in Elem : owner[x] = Nil
  <2>1. payload' = [payload EXCEPT ![e] = [req |-> want[p], body |-> b]]
    BY <1>2 DEF Fetched
  <2>2. e \in Elem /\ owner[e] = Nil
    BY <1>2 DEF Fetched, Entries
  <2> HIDE DEF e
  <2>3. payload[e] = Nil /\ \A x \in Elem \ {e} : payload'[x] = payload[x]
    BY <2>1, <2>2 DEF IInv, Sound, Types
  <2> QED BY <2>3 DEF Renewed
<1>3. ASSUME NEW p \in Client, Discard(p) PROVE ~Renewed
  BY <1>3 DEF Discard, Renewed, IInv, Types
<1>4. ASSUME NEW p \in Client PROVE ~Swap(p)
  BY DEF Once, NoUpdates, Swap, Step, Ready
<1>5. ~RefresherStep \/ payload' = payload
  BY DEF Resting, RefresherStep, Refreshed, Sample, Unpack, RefreshFails, Ready, entries
<1>6. ASSUME NEW p \in Client, ClientStep(p)
      PROVE  \/ payload' = payload \/ Discard(p) \/ \E b \in Body : Fetched(p, b)
  BY <1>4, <1>6 DEF ClientStep, Working, Removing, Get, FetchFails, TouchSkips, Touch, Move, Serve,
        SetFound, SetCollides, SetMisses, Admit, Reject, Store, AddLen, AddMem, Push, SetElem,
        UnlistCheck, Unlist, Drop, SubLen, SubMem, entries
<1>7. ASSUME EvictorStep \/ Removing(Evictor) PROVE payload' = payload
  BY <1>7 DEF EvictorStep, Tick, WithinLimit, Pick, GoOn, Evict, EndOfList, Removing,
        UnlistCheck, Unlist, Drop, SubLen, SubMem, entries
<1>8. ASSUME RefreshMem \/ Clear \/ UNCHANGED vars \/ \E s \in Shard : ClearShard(s)
      PROVE  payload' = payload
  BY <1>8 DEF RefreshMem, Clear, ClearShard, vars, entries
<1> QED BY <1>1, <1>2, <1>3, <1>5, <1>6, <1>7, <1>8 DEF Next

\* Before the first Clear no shard is being cleared.
Clearing == clears = 0 => clearing = {}

LEMMA NextClearing ==
    CInv /\ Clearing /\ [Next]_vars =>
        Clearing' /\ (clears' = 0 => clears = 0 /\ clearing' = clearing)
<1> SUFFICES ASSUME CInv, Clearing, [Next]_vars
             PROVE  Clearing' /\ (clears' = 0 => clears = 0 /\ clearing' = clearing)
  OBVIOUS
<1>1. clears \in Nat
  BY StorageAssumption DEF CInv, Others
<1>2. CASE Clear
  BY <1>1, <1>2 DEF Clear, Clearing
<1>3. ASSUME NEW s \in Shard, ClearShard(s) PROVE clears # 0 /\ clears' = clears
  BY <1>3 DEF ClearShard, Clearing
<1>4. ASSUME NEW p \in Client, ClientStep(p) PROVE UNCHANGED clear
  BY <1>4 DEF ClientStep, Working, Removing, Get, Fetched, FetchFails, TouchSkips, Touch, Move,
        Serve, SetFound, SetCollides, SetMisses, Swap, Admit, Reject, Store, AddLen, AddMem,
        Push, SetElem, UnlistCheck, Unlist, Drop, SubLen, SubMem
<1>5. ASSUME EvictorStep \/ Removing(Evictor) \/ RefresherStep PROVE UNCHANGED clear
  BY <1>5 DEF EvictorStep, Tick, WithinLimit, Pick, GoOn, Evict, EndOfList, Removing,
        UnlistCheck, Unlist, Drop, SubLen, SubMem, RefresherStep, Sample, Unpack, Refreshed,
        RefreshFails
<1>6. ASSUME RefreshMem \/ UNCHANGED vars PROVE UNCHANGED clear
  BY <1>6 DEF RefreshMem, vars
<1> QED BY <1>2, <1>3, <1>4, <1>5, <1>6 DEF Next, clear, Clearing

LEMMA InitAccounted == Init => Once /\ Resting /\ Clearing /\ MemAccounted
<1> SUFFICES ASSUME Init PROVE Once /\ Resting /\ Clearing /\ MemAccounted
  OBVIOUS
<1> USE Goroutines
<1>1. Once /\ Resting /\ Clearing
  BY InitOrdered DEF Ordered, Init, Resting, Clearing
<1>2. ASSUME NEW s \in Shard PROVE MemDrift(s) = 0
  <2>1. /\ Adding(s, {"addLen", "addMem"}) = {} /\ Taking(s, {"subLen", "subMem"}) = {}
        /\ Held(s) = {}
    BY DEF Init, Adding, Taking, Held, KeysOf
  <2>2. ASSUME NEW f, DOMAIN f = {} PROVE SumFunction(f) = 0
    <3>1. SumFunction(f) = SumFunctionOnSet(f, DOMAIN f)
      BY DEF SumFunction, SumFunctionOnSet, FoldFunction, FoldFunctionOnSet
    <3>2. SumFunctionOnSet(f, {}) = 0
      BY SumEmpty
    <3> QED BY <2>2, <3>1, <3>2
  <2>3. /\ SumFunction([p \in Adding(s, {"addLen", "addMem"}) |-> Added(p)]) = 0
        /\ SumFunction([p \in Taking(s, {"subLen", "subMem"}) |-> freed[p]]) = 0
        /\ SumFunction([k \in Held(s) |-> Weight(items[k])]) = 0
    BY <2>1, <2>2
  <2>4. mem[s] = 0
    BY DEF Init
  <2> QED BY <2>3, <2>4 DEF MemDrift
<1> QED BY <1>1, <1>2 DEF MemAccounted

\* Without in-place updates the memory counter of a shard is the weight of what
\* the shard holds, whatever goroutines still have to add or subtract, until the
\* storage is cleared (shard.go Set and Remove, evictor.go, storage.go Set).
THEOREM MemAccountedHolds == NoUpdates /\ Spec => []MemAccounted
<1> DEFINE AInv == CInv /\ Once /\ Resting /\ Clearing /\ MemAccounted
<1>1. Init => AInv
  BY InitCInv, InitAccounted
<1>2. NoUpdates /\ AInv /\ [Next]_vars => AInv'
  <2> SUFFICES ASSUME NoUpdates, AInv, [Next]_vars PROVE AInv'
    OBVIOUS
  <2>1. CInv' /\ Once' /\ Resting' /\ Clearing'
    BY NextCInv, NextOnce, NextResting, NextClearing
  <2>2. Countable /\ Countable'
    BY <2>1, CInvCounts, PTL
  <2>3. ASSUME clears' = 0, NEW s \in Shard PROVE MemDrift(s)' = 0
    <3>1. clears = 0 /\ s \notin clearing \ clearing'
      BY <2>3, NextClearing
    <3>2. MemDrift(s) = 0
      BY <3>1 DEF MemAccounted
    <3> QED BY <2>2, <3>1, <3>2, NextSteady, NeverRenewed DEF Steady
  <2>4. MemAccounted'
    BY <2>3 DEF MemAccounted
  <2> QED BY <2>1, <2>4
<1>3. NoUpdates => NoUpdates'
  BY DEF NoUpdates, IdentitiesApart, SameIdentity
<1> QED BY <1>1, <1>2, <1>3, PTL DEF Spec
=============================================================================
