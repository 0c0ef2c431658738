------------------------------- MODULE AppProofs -------------------------------
(* Proofs about App, for any keys, shards and number of versions to keep,    *)
(* any number of processes and of faults, with and without compression: what *)
(* a graceful shutdown guarantees, what the next process restores, and what  *)
(* the rotation leaves.                                                      *)
EXTENDS App, SequenceTheorems, WellFoundedInduction, TLAPS

-----------------------------------------------------------------------------
(* Version numbers.                                                        *)

LEMMA LeastElement ==
    ASSUME NEW T \in SUBSET Nat, T # {}
    PROVE  \E k \in T : \A m \in T : k <= m
<1> DEFINE R == OpToRel(<, Nat)
<1>1. IsWellFoundedOn(R, Nat)
  BY NatLessThanWellFounded
<1>2. PICK k \in T : \A m \in T : ~(<<m, k>> \in R)
  <2> HIDE DEF R
  <2> QED BY <1>1, WFMin
<1>3. \A m, n \in Nat : m < n => <<m, n>> \in R
  BY DEF OpToRel
<1> HIDE DEF R
<1>4. ASSUME NEW m \in T PROVE k <= m
  <2>1. k \in Nat /\ m \in Nat
    OBVIOUS
  <2>2. ~(m < k)
    BY <1>2, <1>3, <2>1
  <2> QED
    BY <2>1, <2>2
<1> QED
  BY <1>4

\* Finitely many numbers have a greatest one: otherwise take the least k such
\* that the first k have none.
LEMMA GreatestExists ==
    ASSUME NEW n \in Nat, NEW f \in [1..n -> Nat]
    PROVE  \E m \in {0} \cup {f[i] : i \in 1..n} : \A i \in 1..n : f[i] <= m
<1> DEFINE Tops(k) == {m \in {0} \cup {f[i] : i \in 1..n} : \A i \in 1..k : f[i] <= m}
           Without == {k \in 0..n : Tops(k) = {}}
<1>1. ASSUME Without # {} PROVE FALSE
  <2>1. PICK k \in Without : \A m \in Without : k <= m
    <3>1. Without \in SUBSET Nat
      OBVIOUS
    <3> HIDE DEF Without
    <3> QED BY <1>1, <3>1, LeastElement
  <2>2. k \in 0..n /\ Tops(k) = {}
    OBVIOUS
  <2>3. k # 0
    <3>1. 0 \in Tops(0)
      OBVIOUS
    <3> QED BY <2>2, <3>1
  <2>4. k - 1 \in 0..n /\ k \in 1..n
    BY <2>2, <2>3
  <2>5. k - 1 \notin Without
    <3>1. ~(k <= k - 1)
      BY <2>2
    <3> HIDE DEF Without
    <3> QED BY <2>1, <3>1
  <2>6. Tops(k - 1) # {}
    BY <2>4, <2>5
  <2>7. PICK m \in {0} \cup {f[i] : i \in 1..n} : \A i \in 1..(k - 1) : f[i] <= m
    BY <2>6
  <2>8. m \in Nat /\ f[k] \in Nat
    BY <2>4, <2>7
  <2> DEFINE top == IF f[k] <= m THEN m ELSE f[k]
  <2>9. top \in {0} \cup {f[i] : i \in 1..n}
    BY <2>4, <2>7
  <2>10. ASSUME NEW i \in 1..k PROVE f[i] <= top
    <3>1. f[i] \in Nat /\ i \in 1..n
      BY <2>4
    <3>2. CASE i = k
      BY <2>8, <3>2
    <3>3. CASE i # k
      BY <2>2, <2>7, <2>8, <3>1, <3>3
    <3> QED BY <3>2, <3>3
  <2>11. top \in Tops(k)
    BY <2>9, <2>10
  <2> QED BY <2>2, <2>11
<1>2. n \notin Without
  BY <1>1
<1> QED
  BY <1>2

\* The newest version is one of those on disk, if there is any, and no version
\* is above it; so the next one is a new one.
LEMMA NewestIsGreatest ==
    ASSUME disk \in Seq(Dir)
    PROVE  /\ Newest \in Nat
           /\ \A i \in 1..Len(disk) : disk[i].ver <= Newest
           /\ disk # <<>> => \E i \in 1..Len(disk) : disk[i].ver = Newest
<1> DEFINE n == Len(disk)
           f == [i \in 1..n |-> disk[i].ver]
           S == {0} \cup {disk[i].ver : i \in DOMAIN disk}
<1>1. n \in Nat /\ DOMAIN disk = 1..n /\ \A i \in 1..n : disk[i] \in Dir
  BY LenProperties, ElementOfSeq
<1>2. f \in [1..n -> Nat] /\ \A i \in 1..n : f[i] = disk[i].ver /\ f[i] > 0
  BY <1>1 DEF Dir
<1>3. S = {0} \cup {f[i] : i \in 1..n}
  BY <1>1
<1>4. \E m \in S : \A i \in 1..n : f[i] <= m
  <2> HIDE DEF f, S, n
  <2> QED BY <1>1, <1>2, <1>3, GreatestExists
<1>5. S \subseteq Nat
  BY <1>2, <1>3
<1>6. \E m \in S : \A y \in S : m >= y
  <2>1. PICK m \in S : \A i \in 1..n : f[i] <= m
    BY <1>4
  <2>2. ASSUME NEW y \in S PROVE m >= y
    <3> HIDE DEF S
    <3>0. m \in Nat
      BY <1>5
    <3>1. CASE y = 0
      BY <3>0, <3>1
    <3>2. CASE \E i \in 1..n : y = f[i]
      BY <2>1, <3>2, <1>5, <1>2
    <3> QED BY <1>3, <3>1, <3>2
  <2> QED BY <2>2
<1>7. Newest \in S /\ \A y \in S : Newest >= y
  BY <1>6 DEF Newest, Max
<1>8. ASSUME NEW i \in 1..n PROVE disk[i].ver <= Newest
  <2>1. disk[i].ver \in S
    BY <1>1
  <2> QED BY <2>1, <1>7, <1>5
<1>9. ASSUME disk # <<>> PROVE \E i \in 1..n : disk[i].ver = Newest
  <2>1. 1 \in 1..n
    BY <1>1, <1>9, EmptySeq
  <2>2. Newest > 0
    BY <2>1, <1>8, <1>2, <1>5, <1>7
  <2> QED BY <2>2, <1>7, <1>1
<1> QED
  BY <1>7, <1>5, <1>8, <1>9

LEMMA RemoveAtProperties ==
    ASSUME NEW S, NEW s \in Seq(S), NEW i \in 1..Len(s)
    PROVE  /\ RemoveAt(s, i) \in Seq(S)
           /\ Len(RemoveAt(s, i)) = Len(s) - 1
           /\ \A j \in 1..(Len(s) - 1) :
                RemoveAt(s, i)[j] = IF j < i THEN s[j] ELSE s[j + 1]
<1> DEFINE a == SubSeq(s, 1, i - 1)
           b == SubSeq(s, i + 1, Len(s))
           n == Len(s)
<1>1. n \in Nat /\ i \in Nat /\ i >= 1 /\ i <= n
  BY LenProperties
<1>2. \A j \in 1..n : s[j] \in S
  BY ElementOfSeq
<1>3. a \in Seq(S) /\ Len(a) = i - 1 /\ \A j \in 1..(i - 1) : a[j] = s[j]
  <2>1. 1 \in Int /\ i - 1 \in Int /\ \A j \in 1..(i - 1) : s[j] \in S
    BY <1>1, <1>2
  <2>2. /\ a \in Seq(S)
        /\ Len(a) = IF 1 <= i - 1 THEN (i - 1) - 1 + 1 ELSE 0
        /\ \A j \in 1..((i - 1) - 1 + 1) : a[j] = s[1 + j - 1]
    BY <2>1, SubSeqProperties
  <2> QED BY <2>2, <1>1
<1>4. b \in Seq(S) /\ Len(b) = n - i /\ \A j \in 1..(n - i) : b[j] = s[i + j]
  <2>1. i + 1 \in Int /\ n \in Int /\ \A j \in (i + 1)..n : s[j] \in S
    BY <1>1, <1>2
  <2>2. /\ b \in Seq(S)
        /\ Len(b) = IF i + 1 <= n THEN n - (i + 1) + 1 ELSE 0
        /\ \A j \in 1..(n - (i + 1) + 1) : b[j] = s[(i + 1) + j - 1]
    BY <2>1, SubSeqProperties
  <2> QED BY <2>2, <1>1
<1>5. RemoveAt(s, i) = a \o b
  BY DEF RemoveAt
<1> HIDE DEF a, b, n
<1>6. /\ a \o b \in Seq(S)
      /\ Len(a \o b) = Len(a) + Len(b)
      /\ \A j \in 1..(Len(a) + Len(b)) : (a \o b)[j] = IF j <= Len(a) THEN a[j] ELSE b[j - Len(a)]
  BY <1>3, <1>4, ConcatProperties
<1>7. Len(a) + Len(b) = n - 1
  BY <1>1, <1>3, <1>4
<1>8. ASSUME NEW j \in 1..(n - 1)
      PROVE  (a \o b)[j] = IF j < i THEN s[j] ELSE s[j + 1]
  <2>1. (a \o b)[j] = IF j <= i - 1 THEN a[j] ELSE b[j - (i - 1)]
    BY <1>3, <1>6, <1>7
  <2>2. CASE j < i
    BY <1>1, <1>3, <2>1, <2>2
  <2>3. CASE ~(j < i)
    <3>1. j - (i - 1) \in 1..(n - i) /\ i + (j - (i - 1)) = j + 1
      BY <1>1, <2>3
    <3>2. b[j - (i - 1)] = s[j + 1]
      BY <1>4, <3>1
    <3> QED BY <1>1, <2>1, <2>3, <3>2
  <2> QED BY <2>2, <2>3
<1> QED
  BY <1>5, <1>6, <1>7, <1>8 DEF n

-----------------------------------------------------------------------------
(* The invariant.                                                          *)

\* The index of the version that the last dump made: the last directory, but
\* for one whose removal has begun.
Top == IF Begun THEN Len(disk) - 1 ELSE Len(disk)

\* Which goroutine may be where.
Control ==
    /\ app # "dump" => job = [s \in Shard |-> "none"]
    /\ app = "dump" => disk # <<>> /\ ~Last(disk).whole
    /\ app # "rotate" => excess = <<>>
    /\ main \in {"down", "load"} => app = "none"
    /\ app \in {"none", "run", "chosen"} =>
        serve = "none" /\ shut = "none" /\ handler = "none"
    /\ graceful => main = "down"

\* Versions are names: no two directories share one, and the rotation is left
\* with different versions that are on disk.
Named ==
    /\ \A i, j \in 1..Len(disk) : disk[i].ver = disk[j].ver => i = j
    /\ \A i \in 1..Len(excess) : \E j \in 1..Len(disk) : disk[j].ver = excess[i]
    /\ \A i, j \in 1..Len(excess) : excess[i] = excess[j] => i = j

\* The rotation leaves MaxVersions directories.
Room == excess # <<>> => MaxVersions > 0 /\ Len(disk) >= MaxVersions + Len(excess)

\* It does not remove the newest one.
Kept ==
    faults = 0 \/ ~torn =>
        /\ Begun => Top > 0
        /\ \A i \in 1..Len(excess) : excess[i] # disk[Top].ver

\* The versions follow the times of modification, but for a directory whose
\* removal has begun.
Ordered ==
    ~torn =>
        /\ \A i, j \in 1..Top : i < j => disk[i].ver < disk[j].ver
        /\ Begun => disk[Len(disk)].ver < disk[Top].ver

\* What the goroutine of a shard has done by its next step.
Dumping ==
    app = "dump" => \A s \in Shard :
        /\ job[s] = "create" => Last(disk).tmp[s] = Nil
        /\ job[s] \in {"create", "write", "rename"} => Last(disk).file[s] = Nil
        /\ job[s] = "rename" /\ faults = 0 => Last(disk).tmp[s] = seen[s]
        /\ job[s] = "done" /\ Last(disk).file[s] # Nil => Last(disk).tmp[s] = Nil
        /\ job[s] = "done" /\ faults = 0 => Last(disk).file[s] = seen[s]

\* A whole version has a final file for each shard and no other.
WholeDirs ==
    \A i \in 1..Len(disk) : disk[i].whole =>
        disk[i].tmp = NoFiles /\ \A s \in Shard : disk[i].file[s] # Nil

\* After the dump of a process without faults the newest version is whole,
\* unless the process found the cache switched off.
IsDumped ==
    (app \in {"rotate", "closed", "done"} \/ graceful) /\ faults = 0 /\ ~skipped =>
        disk # <<>> /\ disk[Top].whole

\* A whole newest version holds what the last complete dump did.
NewestIsComplete ==
    ~torn /\ disk # <<>> /\ disk[Top].whole => complete = Records(disk[Top].file)

\* Whole versions only go when there is room for MaxVersions others.
Survives ==
    complete # Nil =>
        \/ \E i \in 1..Len(disk) : disk[i].whole
        \/ MaxVersions > 0 /\ Len(disk) >= MaxVersions

\* Nothing changes the cache between the load and the start of the service.
JustLoaded ==
    Loaded => cache \in IF disk = <<>> THEN {{}} ELSE Restored(getLatestVersionDir)

Order == Named /\ Room /\ Kept /\ Ordered
Dumps == Dumping /\ WholeDirs /\ IsDumped /\ NewestIsComplete /\ Survives /\ JustLoaded
IInv == TypeOK /\ Control /\ Order /\ Dumps

\* The dump that an earlier process may have left is like those of this one.
LEMMA InheritedDump ==
    ASSUME Inherited
    PROVE  /\ disk \in Seq(Dir) /\ complete \in (SUBSET Key) \cup {Nil}
           /\ WholeDirs
           /\ \/ disk = <<>> /\ complete = Nil
              \/ Len(disk) = 1 /\ disk[1].whole /\ complete = Records(disk[1].file)
<1>1. CASE disk = <<>> /\ complete = Nil
  <2>1. disk \in Seq(Dir) /\ Len(disk) = 0
    BY <1>1
  <2>2. 1..Len(disk) = {}
    BY <2>1
  <2>3. WholeDirs
    BY <2>2 DEF WholeDirs
  <2>4. complete \in (SUBSET Key) \cup {Nil}
    BY <1>1
  <2> QED BY <1>1, <2>1, <2>3, <2>4, Zenon
<1>2. ASSUME NEW S \in SUBSET Key, complete = S,
             disk = <<[ver   |-> 1,
                       file  |-> [s \in Shard |-> {k \in S : ShardOf[k] = s}],
                       tmp   |-> NoFiles,
                       whole |-> TRUE]>>
      PROVE  /\ disk \in Seq(Dir) /\ WholeDirs
             /\ Len(disk) = 1 /\ disk[1].whole /\ complete = Records(disk[1].file)
  <2> DEFINE file == [s \in Shard |-> {k \in S : ShardOf[k] = s}]
             d == [ver |-> 1, file |-> file, tmp |-> NoFiles, whole |-> TRUE]
  <2>1. file \in Files /\ NoFiles \in Files
    BY DEF Files, NoFiles
  <2>2. \A s \in Shard : file[s] # Nil
    BY DumpAssumption
  <2>3. Records(file) = S
    <3>1. \A k \in S : ShardOf[k] \in Shard
      BY DumpAssumption
    <3>2. Records(file) = UNION {file[s] : s \in Shard}
      BY <2>2 DEF Records
    <3>3. Records(file) \subseteq S
      BY <3>2
    <3>4. ASSUME NEW k \in S PROVE k \in Records(file)
      <4>1. ShardOf[k] \in Shard /\ k \in file[ShardOf[k]]
        BY <3>1
      <4> HIDE DEF file
      <4> QED BY <3>2, <4>1
    <3> QED BY <3>3, <3>4
  <2> HIDE DEF file
  <2>4. d \in Dir
    BY <2>1 DEF Dir
  <2>5. disk = <<d>>
    BY <1>2 DEF file
  <2>6. disk \in Seq(Dir) /\ Len(disk) = 1 /\ disk[1] = d
    <3> HIDE DEF d
    <3> QED BY <2>4, <2>5
  <2>7. WholeDirs
    BY <2>2, <2>6 DEF WholeDirs
  <2> QED BY <1>2, <2>3, <2>6, <2>7
<1> QED
  BY <1>1, <1>2 DEF Inherited

LEMMA Initially == Init => IInv
<1> SUFFICES ASSUME Init PROVE IInv
  OBVIOUS
<1> USE DumpAssumption, AppAssumption DEF Init, DumpInit, NoProcess
<1>1. /\ disk \in Seq(Dir) /\ complete \in (SUBSET Key) \cup {Nil}
      /\ WholeDirs
      /\ \/ disk = <<>> /\ complete = Nil
         \/ Len(disk) = 1 /\ disk[1].whole /\ complete = Records(disk[1].file)
  BY InheritedDump
<1>2. excess = <<>> /\ Len(excess) = 0 /\ ~torn
  OBVIOUS
<1>3. TypeOK
  <2>1. cache \subseteq Key /\ excess \in Seq(Nat \ {0})
    BY <1>2
  <2>2. job \in [Shard -> {"none", "create", "write", "rename", "done"}]
    OBVIOUS
  <2>3. seen \in [Shard -> SUBSET Key]
    OBVIOUS
  <2>4. faults \in 0..MaxFaults /\ starts \in 0..MaxStarts
    OBVIOUS
  <2> QED BY <1>1, <2>1, <2>2, <2>3, <2>4 DEF TypeOK, DumpTypeOK
<1>4. Control
  BY <1>2 DEF Control
<1>5. ~Begun /\ Top = Len(disk) /\ (Len(disk) = 0 \/ Len(disk) = 1)
  BY <1>1, <1>2, EmptySeq DEF Begun, Top
<1>6. Order
  BY <1>2, <1>5 DEF Order, Named, Room, Kept, Ordered
<1>7. Dumping /\ IsDumped /\ JustLoaded
  BY DEF Dumping, IsDumped, JustLoaded, Loaded
<1>8. NewestIsComplete /\ Survives
  BY <1>1, <1>5, EmptySeq DEF NewestIsComplete, Survives
<1> QED
  BY <1>1, <1>3, <1>4, <1>6, <1>7, <1>8 DEF IInv, Dumps

-----------------------------------------------------------------------------
(* Steps that leave the disk alone.                                        *)

Finishing == (app \in {"rotate", "closed", "done"} \/ graceful) /\ ~skipped

LEMMA RestoredType ==
    ASSUME NEW dir \in Dir
    PROVE  \A S \in Restored(dir) : S \subseteq Key
<1>1. dir.file \in Files /\ dir.tmp \in Files
  BY DEF Dir
<1>2. \A files \in Files : Records(files) \subseteq Key
  BY DumpAssumption DEF Files, Records
<1> QED
  BY <1>1, <1>2 DEF Restored, Selected

LEMMA QuietKeepsOrder ==
    ASSUME Order, UNCHANGED dumper
    PROVE  Order'
<1> USE DEF dumper
<1>1. Begun' = Begun /\ Top' = Top
  BY DEF Begun, Top
<1>2. Named'
  BY DEF Order, Named
<1>3. Room'
  BY DEF Order, Room
<1>4. Kept'
  BY <1>1 DEF Order, Kept
<1>5. Ordered'
  BY <1>1 DEF Order, Ordered
<1> QED
  BY <1>2, <1>3, <1>4, <1>5 DEF Order

LEMMA QuietKeepsDumps ==
    ASSUME Dumps, UNCHANGED dumper,
           app' = "dump" => app = "dump",
           Finishing' => Finishing,
           JustLoaded'
    PROVE  Dumps'
<1> USE DEF dumper
<1>1. Top' = Top
  BY DEF Begun, Top
<1>2. Dumping'
  BY DEF Dumps, Dumping
<1>3. WholeDirs'
  BY DEF Dumps, WholeDirs
<1>4. IsDumped'
  BY <1>1 DEF Dumps, IsDumped, Finishing
<1>5. NewestIsComplete'
  BY <1>1 DEF Dumps, NewestIsComplete, Records
<1>6. Survives'
  BY DEF Dumps, Survives
<1> QED
  BY <1>2, <1>3, <1>4, <1>5, <1>6 DEF Dumps

LEMMA StaysLoaded ==
    ASSUME Dumps, UNCHANGED <<disk, cache>>, Loaded' => Loaded
    PROVE  JustLoaded'
BY DEF Dumps, JustLoaded, Restored, Readable, Selected, Records, getLatestVersionDir, Last

QuietNext ==
    \/ LoadData \/ LoadChosen \/ Signal
    \/ Serve \/ Listen \/ ListenFails \/ ShutdownStarts \/ ShutdownEnds \/ ServerStops \/ Done
    \/ Request \/ Answer \/ Clear \/ Switch \/ Evict

LEMMA LoadsType ==
    ASSUME TypeOK, Load \/ \E i \in DOMAIN disk : LoadVersion(i)
    PROVE  cache' \subseteq Key
<1>1. disk \in Seq(Dir) /\ \A i \in 1..Len(disk) : disk[i] \in Dir
  BY ElementOfSeq DEF TypeOK, DumpTypeOK
<1>2. DOMAIN disk = 1..Len(disk) /\ Len(disk) \in Nat
  BY <1>1, LenProperties
<1>3. \A i \in DOMAIN disk : \A S \in Restored(disk[i]) : S \subseteq Key
  BY <1>1, <1>2, RestoredType
<1>4. disk # <<>> => Len(disk) \in DOMAIN disk
  BY <1>1, <1>2, EmptySeq
<1> QED
  BY <1>3, <1>4 DEF Load, LoadVersion, getLatestVersionDir, Last

LEMMA QuietKeepsTypes ==
    ASSUME TypeOK, QuietNext
    PROVE  TypeOK'
<1> USE DEF TypeOK
<1>1. UNCHANGED dumper /\ cache' \subseteq Key => DumpTypeOK'
  BY DEF DumpTypeOK, dumper
<1>2. UNCHANGED dumper
  BY DEF QuietNext, LoadData, LoadChosen, Load, LoadVersion, Signal, Serve, Listen, ListenFails,
         ShutdownStarts, ShutdownEnds, ServerStops, Done, Request, Answer, Clear, Switch, Evict
<1>3. cache' \subseteq Key
  <2>1. CASE LoadData \/ LoadChosen
    BY <2>1, LoadsType DEF LoadData, LoadChosen, DumpTypeOK
  <2>2. CASE ~(LoadData \/ LoadChosen)
    BY <2>2 DEF QuietNext, DumpTypeOK, Signal, Serve, Listen, ListenFails, ShutdownStarts,
                ShutdownEnds, ServerStops, Done, Request, Answer, Clear, Switch, Evict
  <2> QED BY <2>1, <2>2
<1> USE <1>1, <1>2, <1>3
<1>4. CASE LoadData
  BY <1>4 DEF LoadData
<1>5. CASE LoadChosen
  BY <1>5 DEF LoadChosen
<1>6. CASE Signal
  BY <1>6 DEF Signal
<1>7. CASE Serve \/ Listen \/ ListenFails
  BY <1>7 DEF Serve, Listen, ListenFails
<1>8. CASE ShutdownStarts \/ ShutdownEnds
  BY <1>8 DEF ShutdownStarts, ShutdownEnds
<1>9. CASE ServerStops \/ Done
  BY <1>9 DEF ServerStops, Done
<1>10. CASE Request \/ Answer \/ Clear \/ Switch
  BY <1>10 DEF Request, Answer, Clear, Switch
<1>11. CASE Evict
  BY <1>11 DEF Evict, process
<1> QED
  BY <1>4, <1>5, <1>6, <1>7, <1>8, <1>9, <1>10, <1>11 DEF QuietNext

LEMMA QuietKeepsControl ==
    ASSUME TypeOK, Control, QuietNext
    PROVE  /\ UNCHANGED dumper
           /\ Control'
           /\ app' = "dump" => app = "dump"
           /\ Finishing' => Finishing
<1> USE DEF Control, Finishing, TypeOK, dumper
<1>1. CASE LoadData
  BY <1>1 DEF LoadData, Load
<1>2. CASE LoadChosen
  BY <1>2 DEF LoadChosen, LoadVersion
<1>3. CASE Signal
  BY <1>3 DEF Signal
<1>4. CASE Serve \/ Listen \/ ListenFails
  BY <1>4 DEF Serve, Listen, ListenFails
<1>5. CASE ShutdownStarts
  BY <1>5 DEF ShutdownStarts
<1>9. CASE ShutdownEnds
  BY <1>9 DEF ShutdownEnds
<1>6. CASE ServerStops \/ Done
  BY <1>6 DEF ServerStops, Done
<1>7. CASE Request \/ Answer \/ Clear \/ Switch
  BY <1>7 DEF Request, Answer, Clear, Switch
<1>8. CASE Evict
  BY <1>8 DEF Evict, process
<1> QED
  BY <1>1, <1>2, <1>3, <1>4, <1>5, <1>6, <1>7, <1>8, <1>9 DEF QuietNext

LEMMA QuietKeepsLoaded ==
    ASSUME TypeOK, Control, Dumps, QuietNext
    PROVE  JustLoaded'
<1> USE DEF Control, Loaded, TypeOK
<1>1. CASE LoadData
  <2>1. CASE enabled
    <3>1. UNCHANGED disk /\ Load
      BY <1>1, <2>1 DEF LoadData, Load, dumper
    <3> QED BY <3>1 DEF JustLoaded, Load, Restored, Readable, Selected, Records,
                        getLatestVersionDir, Last
  <2>2. CASE ~enabled
    BY <1>1, <2>2 DEF LoadData, JustLoaded
  <2> QED BY <2>1, <2>2
<1>2. CASE LoadChosen
  BY <1>2 DEF LoadChosen, JustLoaded
<1>3. CASE Signal
  BY <1>3 DEF Signal, JustLoaded
<1>4. CASE Serve
  BY <1>4 DEF Serve, JustLoaded
<1>5. CASE ServerStops \/ Done
  BY <1>5 DEF ServerStops, Done, JustLoaded
<1>6. CASE Listen \/ ListenFails \/ ShutdownStarts \/ ShutdownEnds \/ Request
  BY <1>6, StaysLoaded DEF Listen, ListenFails, ShutdownStarts, ShutdownEnds, Request, dumper
<1>7. CASE Answer \/ Clear \/ Switch
  BY <1>7 DEF Answer, Clear, Switch, JustLoaded
<1>8. CASE Evict
  BY <1>8 DEF Evict, JustLoaded, process
<1> QED
  BY <1>1, <1>2, <1>3, <1>4, <1>5, <1>6, <1>7, <1>8 DEF QuietNext

LEMMA QuietKeeps ==
    ASSUME IInv, QuietNext
    PROVE  IInv'
<1>1. TypeOK'
  BY QuietKeepsTypes DEF IInv
<1>2. /\ UNCHANGED dumper
      /\ Control'
      /\ app' = "dump" => app = "dump"
      /\ Finishing' => Finishing
  BY QuietKeepsControl DEF IInv
<1>3. Order'
  BY <1>2, QuietKeepsOrder DEF IInv
<1>4. JustLoaded'
  BY QuietKeepsLoaded DEF IInv
<1>5. Dumps'
  BY <1>2, <1>4, QuietKeepsDumps DEF IInv
<1> QED
  BY <1>1, <1>2, <1>3, <1>5 DEF IInv

-----------------------------------------------------------------------------
(* The dump: the last directory is written, the others stay.               *)

Edited ==
    /\ disk' \in Seq(Dir) /\ disk' # <<>> /\ Len(disk) \in Nat \ {0}
    /\ Len(disk') = Len(disk)
    /\ \A i \in 1..Len(disk) : disk'[i].ver = disk[i].ver
    /\ \A i \in 1..Len(disk) : i # Len(disk) => disk'[i] = disk[i]

LEMMA EditLast ==
    ASSUME disk \in Seq(Dir), disk # <<>>,
           NEW d \in Dir, d.ver = Last(disk).ver,
           disk' = [disk EXCEPT ![Len(disk)] = d]
    PROVE  Edited /\ Last(disk') = d
<1>1. Len(disk) \in Nat \ {0}
  BY EmptySeq
<1>2. Len(disk) \in 1..Len(disk)
  BY <1>1
<1>3. /\ disk' \in Seq(Dir) /\ Len(disk') = Len(disk)
      /\ \A j \in 1..Len(disk) : disk'[j] = IF j = Len(disk) THEN d ELSE disk[j]
  BY <1>2, ExceptSeq
<1>4. disk' # <<>>
  BY <1>1, <1>3, EmptySeq
<1> QED
  BY <1>1, <1>2, <1>3, <1>4 DEF Edited, Last

LEMMA TwoFields ==
    ASSUME NEW v, NEW f, NEW t, NEW w, NEW s, NEW file, NEW tmp, NEW r,
           r = [ver |-> v, file |-> f, tmp |-> t, whole |-> w]
    PROVE  [r EXCEPT !.file[s] = file, !.tmp[s] = tmp] =
           [ver |-> v, file |-> [f EXCEPT ![s] = file], tmp |-> [t EXCEPT ![s] = tmp],
            whole |-> w]
<1> DEFINE one == [r EXCEPT !.file = [r.file EXCEPT ![s] = file]]
<1>1. one = [ver |-> v, file |-> [f EXCEPT ![s] = file], tmp |-> t, whole |-> w]
  OBVIOUS
<1>2. [r EXCEPT !.file[s] = file, !.tmp[s] = tmp] =
      [one EXCEPT !.tmp = [one.tmp EXCEPT ![s] = tmp]]
  OBVIOUS
<1> HIDE DEF one
<1>3. [one EXCEPT !.tmp = [one.tmp EXCEPT ![s] = tmp]] =
      [ver |-> v, file |-> [f EXCEPT ![s] = file], tmp |-> [t EXCEPT ![s] = tmp],
       whole |-> w]
  BY <1>1
<1> QED
  BY <1>2, <1>3

LEMMA InDirEdits ==
    ASSUME disk \in Seq(Dir), disk # <<>>,
           NEW s \in Shard, NEW file \in (SUBSET Key) \cup {Nil},
           NEW tmp \in (SUBSET Key) \cup {Nil},
           InDir(s, file, tmp)
    PROVE  /\ Edited
           /\ Last(disk').whole = Last(disk).whole
           /\ Last(disk').file = [Last(disk).file EXCEPT ![s] = file]
           /\ Last(disk').tmp = [Last(disk).tmp EXCEPT ![s] = tmp]
<1> DEFINE n == Len(disk)
           d == [disk[n] EXCEPT !.file[s] = file, !.tmp[s] = tmp]
<1>1. n \in 1..n /\ disk[n] \in Dir
  BY EmptySeq, ElementOfSeq
<1>2. /\ disk[n] = [ver |-> disk[n].ver, file |-> disk[n].file, tmp |-> disk[n].tmp,
                    whole |-> disk[n].whole]
      /\ disk[n].ver \in Nat \ {0} /\ disk[n].whole \in BOOLEAN
      /\ disk[n].file \in Files /\ disk[n].tmp \in Files
  BY <1>1 DEF Dir
<1>3. d = [ver |-> disk[n].ver, file |-> [disk[n].file EXCEPT ![s] = file],
           tmp |-> [disk[n].tmp EXCEPT ![s] = tmp], whole |-> disk[n].whole]
  <2> DEFINE r == disk[n]
  <2>1. r = [ver |-> r.ver, file |-> r.file, tmp |-> r.tmp, whole |-> r.whole]
    BY <1>2
  <2>2. d = [r EXCEPT !.file[s] = file, !.tmp[s] = tmp]
    OBVIOUS
  <2> HIDE DEF r, d
  <2>3. d = [ver |-> r.ver, file |-> [r.file EXCEPT ![s] = file],
             tmp |-> [r.tmp EXCEPT ![s] = tmp], whole |-> r.whole]
    BY <2>1, <2>2, TwoFields, Zenon
  <2> QED BY <2>3 DEF r
<1>4. /\ [disk[n].file EXCEPT ![s] = file] \in Files
      /\ [disk[n].tmp EXCEPT ![s] = tmp] \in Files
  BY <1>2 DEF Files
<1>5. d \in Dir /\ d.ver = Last(disk).ver
  BY <1>2, <1>3, <1>4 DEF Dir, Last
<1>6. disk' = [disk EXCEPT ![n] = d]
  <2>1. disk \in [1..n -> Dir]
    BY LenProperties
  <2> QED BY <1>1, <2>1 DEF InDir
<1>7. Edited /\ Last(disk') = d
  <2> HIDE DEF d
  <2> QED BY <1>5, <1>6, EditLast DEF n
<1> QED
  BY <1>3, <1>7 DEF Last

LEMMA EditKeepsOrder ==
    ASSUME Order, Edited, excess = <<>>, excess' = <<>>, torn => torn'
    PROVE  Order'
<1>1. ~Begun /\ ~Begun' /\ Len(excess) = 0 /\ Len(excess') = 0
  BY DEF Begun
<1>2. Top = Len(disk) /\ Top' = Len(disk)
  BY <1>1 DEF Top, Edited
<1>3. Named'
  BY <1>1 DEF Order, Named, Edited
<1>4. Room'
  BY DEF Room
<1>5. Kept'
  BY <1>1 DEF Kept
<1>6. Ordered'
  BY <1>1, <1>2 DEF Order, Ordered, Edited
<1> QED
  BY <1>3, <1>4, <1>5, <1>6 DEF Order

LEMMA EditKeepsWhole ==
    ASSUME WholeDirs, Survives, Edited, excess' = <<>>, UNCHANGED complete,
           ~Last(disk).whole, ~Last(disk').whole
    PROVE  WholeDirs' /\ NewestIsComplete' /\ Survives'
<1>1. Top' = Len(disk) /\ ~disk[Len(disk)].whole /\ ~disk'[Len(disk)].whole
  BY DEF Top, Begun, Edited, Last
<1>2. WholeDirs'
  BY <1>1 DEF WholeDirs, Edited
<1>3. NewestIsComplete'
  BY <1>1 DEF NewestIsComplete
<1>4. Survives'
  BY <1>1 DEF Survives, Edited
<1> QED
  BY <1>2, <1>3, <1>4

\* What a step of one shard's goroutine does to the directory.
Stepped(s) ==
    /\ UNCHANGED <<excess, complete, torn, cache>>
    /\ disk' \in Seq(Dir) /\ disk' # <<>>
    /\ Edited \/ UNCHANGED disk
    /\ ~Last(disk').whole
    /\ job' \in [Shard -> {"none", "create", "write", "rename", "done"}]
    /\ seen' \in [Shard -> SUBSET Key]
    /\ faults' \in 0..MaxFaults /\ (faults' = 0 => faults = 0)
    /\ \A r \in Shard : r # s =>
        /\ job'[r] = job[r] /\ seen'[r] = seen[r]
        /\ Last(disk').file[r] = Last(disk).file[r]
        /\ Last(disk').tmp[r] = Last(disk).tmp[r]
    /\ job'[s] # "create"
    /\ job'[s] \in {"write", "rename"} => Last(disk').file[s] = Nil
    /\ job'[s] = "rename" /\ faults' = 0 => Last(disk').tmp[s] = seen'[s]
    /\ job'[s] = "done" /\ Last(disk').file[s] # Nil => Last(disk').tmp[s] = Nil
    /\ job'[s] = "done" /\ faults' = 0 => Last(disk').file[s] = seen'[s]

\* The facts a step of the dump needs about its directory.
DumpFacts ==
    /\ disk \in Seq(Dir) /\ disk # <<>>
    /\ Last(disk) \in Dir /\ ~Last(disk).whole
    /\ Last(disk).file \in Files /\ Last(disk).tmp \in Files
    /\ \A k \in Shard : Content(k) \subseteq Key

LEMMA DumpHasFacts ==
    ASSUME TypeOK, Control, app = "dump"
    PROVE  DumpFacts
<1>1. disk \in Seq(Dir) /\ disk # <<>> /\ ~Last(disk).whole
  BY DEF TypeOK, DumpTypeOK, Control
<1>2. Last(disk) \in Dir
  BY <1>1, EmptySeq, ElementOfSeq DEF Last
<1>3. \A k \in Shard : Content(k) \subseteq Key
  BY DEF TypeOK, DumpTypeOK, Content
<1>4. Last(disk).file \in Files /\ Last(disk).tmp \in Files
  BY <1>2 DEF Dir
<1> QED
  BY <1>1, <1>2, <1>3, <1>4 DEF DumpFacts

\* The directory after InDir.
LEMMA InDirWrites ==
    ASSUME DumpFacts, NEW s \in Shard, NEW file \in (SUBSET Key) \cup {Nil},
           NEW tmp \in (SUBSET Key) \cup {Nil}, InDir(s, file, tmp)
    PROVE  /\ disk' \in Seq(Dir) /\ disk' # <<>> /\ Edited /\ ~Last(disk').whole
           /\ Last(disk').file[s] = file /\ Last(disk').tmp[s] = tmp
           /\ \A r \in Shard : r # s => /\ Last(disk').file[r] = Last(disk).file[r]
                                        /\ Last(disk').tmp[r] = Last(disk).tmp[r]
<1>1. /\ Edited /\ Last(disk').whole = Last(disk).whole
      /\ Last(disk').file = [Last(disk).file EXCEPT ![s] = file]
      /\ Last(disk').tmp = [Last(disk).tmp EXCEPT ![s] = tmp]
  BY InDirEdits DEF DumpFacts
<1>2. Last(disk).file \in Files /\ Last(disk).tmp \in Files /\ ~Last(disk).whole
  BY DEF DumpFacts
<1> HIDE DEF Last
<1>3. ~Last(disk').whole
  BY <1>1, <1>2
<1>4. Last(disk').file[s] = file /\ Last(disk').tmp[s] = tmp
  BY <1>1, <1>2 DEF Files
<1>5. \A r \in Shard : r # s => /\ Last(disk').file[r] = Last(disk).file[r]
                                /\ Last(disk').tmp[r] = Last(disk).tmp[r]
  BY <1>1, <1>2 DEF Files
<1> QED
  BY <1>1, <1>3, <1>4, <1>5 DEF Edited

\* The goroutine goes on to its next step.
LEMMA GoesOn ==
    ASSUME TypeOK, NEW s \in Shard, NEW from,
           NEW to \in {"write", "rename", "done"}, Goes(s, from, to)
    PROVE  /\ job[s] = from /\ job'[s] = to
           /\ job' \in [Shard -> {"none", "create", "write", "rename", "done"}]
           /\ \A r \in Shard : r # s => job'[r] = job[r]
BY DEF Goes, TypeOK, DumpTypeOK

LEMMA Faulty ==
    ASSUME TypeOK, Fault
    PROVE  faults' \in 0..MaxFaults /\ faults' # 0
BY DumpAssumption DEF Fault, TypeOK, DumpTypeOK

LEMMA CreateSteps ==
    ASSUME TypeOK, Dumping, app = "dump", DumpFacts, NEW s \in Shard,
           Create(s) \/ CreateFails(s)
    PROVE  Stepped(s)
<1> USE DEF Stepped
<1>1. seen \in [Shard -> SUBSET Key] /\ faults \in 0..MaxFaults
  BY DEF TypeOK, DumpTypeOK
<1>2. CASE Create(s)
  <2>1. InDir(s, Nil, {}) /\ Goes(s, "create", "write")
    BY <1>2 DEF Create
  <2>2. {} \in (SUBSET Key) \cup {Nil} /\ Nil \in (SUBSET Key) \cup {Nil}
    OBVIOUS
  <2>3. job'[s] = "write" /\ UNCHANGED <<cache, seen, excess, faults, complete, torn>>
    BY <1>2, <2>1, GoesOn DEF Create
  <2> QED BY <1>1, <2>1, <2>2, <2>3, InDirWrites, GoesOn
<1>3. CASE CreateFails(s)
  <2>1. /\ Goes(s, "create", "done") /\ Fault
        /\ UNCHANGED <<cache, disk, seen, excess, complete, torn>>
    BY <1>3 DEF CreateFails
  <2>2. job[s] = "create" /\ job'[s] = "done" /\ faults' # 0 /\ faults' \in 0..MaxFaults
    BY <2>1, GoesOn, Faulty
  <2>3. Last(disk').file[s] = Nil /\ disk' = disk
    BY <2>1, <2>2 DEF Dumping, Last
  <2> QED BY <1>1, <2>1, <2>2, <2>3, GoesOn DEF DumpFacts, Last
<1> QED BY <1>2, <1>3

LEMMA WriteSteps ==
    ASSUME TypeOK, DumpFacts, NEW s \in Shard, Write(s) \/ WriteFails(s)
    PROVE  Stepped(s)
<1> USE DEF Stepped
<1>1. seen \in [Shard -> SUBSET Key] /\ faults \in 0..MaxFaults
  BY DEF TypeOK, DumpTypeOK
<1>2. Content(s) \in SUBSET Key /\ Nil \in (SUBSET Key) \cup {Nil}
  BY DEF DumpFacts
<1>3. ASSUME seen' = [seen EXCEPT ![s] = Content(s)]
      PROVE  /\ seen' \in [Shard -> SUBSET Key] /\ seen'[s] = Content(s)
             /\ \A r \in Shard : r # s => seen'[r] = seen[r]
  BY <1>1, <1>2, <1>3
<1>4. CASE Write(s)
  <2>1. /\ InDir(s, Nil, Content(s)) /\ Goes(s, "write", "rename")
        /\ seen' = [seen EXCEPT ![s] = Content(s)]
        /\ UNCHANGED <<cache, excess, faults, complete, torn>>
    BY <1>4 DEF Write
  <2>2. job'[s] = "rename"
    BY <2>1, GoesOn
  <2> QED BY <1>1, <1>2, <1>3, <2>1, <2>2, InDirWrites, GoesOn
<1>5. CASE WriteFails(s)
  <2>1. PICK written \in SUBSET Content(s) : InDir(s, Nil, written)
    BY <1>5 DEF WriteFails
  <2>2. /\ Goes(s, "write", "rename") /\ Fault
        /\ seen' = [seen EXCEPT ![s] = Content(s)]
        /\ UNCHANGED <<cache, excess, complete, torn>>
    BY <1>5 DEF WriteFails
  <2>3. job'[s] = "rename" /\ faults' # 0 /\ faults' \in 0..MaxFaults
    BY <2>2, GoesOn, Faulty
  <2>4. written \in (SUBSET Key) \cup {Nil}
    BY <1>2
  <2> QED BY <1>1, <1>2, <1>3, <2>1, <2>2, <2>3, <2>4, InDirWrites, GoesOn
<1> QED BY <1>4, <1>5

LEMMA RenameSteps ==
    ASSUME TypeOK, Dumping, app = "dump", DumpFacts, NEW s \in Shard, Rename(s)
    PROVE  Stepped(s)
<1> USE DEF Stepped
<1>1. seen \in [Shard -> SUBSET Key] /\ faults \in 0..MaxFaults
  BY DEF TypeOK, DumpTypeOK
<1>2. Goes(s, "rename", "done") /\ UNCHANGED <<cache, seen, excess, complete, torn>>
  BY DEF Rename
<1>3. job[s] = "rename" /\ job'[s] = "done"
  BY <1>2, GoesOn
<1>4. Last(disk).file[s] = Nil /\ (faults = 0 => Last(disk).tmp[s] = seen[s])
  BY <1>3 DEF Dumping
<1>5. CASE InDir(s, Last(disk).tmp[s], Nil) /\ UNCHANGED faults
  <2>1. Last(disk).tmp[s] \in (SUBSET Key) \cup {Nil}
    BY DEF DumpFacts, Files
  <2> QED BY <1>1, <1>2, <1>3, <1>4, <1>5, <2>1, InDirWrites, GoesOn
<1>6. CASE Fault /\ UNCHANGED disk
  <2>1. faults' # 0 /\ faults' \in 0..MaxFaults /\ disk' = disk
    BY <1>6, Faulty
  <2>2. Last(disk') = Last(disk)
    BY <2>1
  <2> QED BY <1>1, <1>2, <1>3, <1>4, <2>1, <2>2, GoesOn DEF DumpFacts
<1> QED BY <1>5, <1>6 DEF Rename

LEMMA SteppedKeepsDumping ==
    ASSUME Dumping, app = "dump", NEW s \in Shard, Stepped(s)
    PROVE  Dumping'
<1> SUFFICES ASSUME NEW r \in Shard
             PROVE  /\ job'[r] = "create" => Last(disk').tmp[r] = Nil
                    /\ job'[r] \in {"create", "write", "rename"} => Last(disk').file[r] = Nil
                    /\ job'[r] = "rename" /\ faults' = 0 => Last(disk').tmp[r] = seen'[r]
                    /\ job'[r] = "done" /\ Last(disk').file[r] # Nil => Last(disk').tmp[r] = Nil
                    /\ job'[r] = "done" /\ faults' = 0 => Last(disk').file[r] = seen'[r]
  BY DEF Dumping, Last
<1> HIDE DEF Last
<1>1. CASE r = s
  BY <1>1 DEF Stepped
<1>2. CASE r # s
  <2>1. /\ job'[r] = job[r] /\ seen'[r] = seen[r] /\ (faults' = 0 => faults = 0)
        /\ Last(disk').file[r] = Last(disk).file[r] /\ Last(disk').tmp[r] = Last(disk).tmp[r]
    BY <1>2 DEF Stepped
  <2> QED BY <2>1 DEF Dumping
<1> QED BY <1>1, <1>2

LEMMA DumpShardKeeps ==
    ASSUME IInv, NEW s \in Shard, DumpShard(s)
    PROVE  IInv'
<1>1. /\ app = "dump" /\ UNCHANGED <<process, graceful, skipped, starts>>
      /\ Create(s) \/ CreateFails(s) \/ Write(s) \/ WriteFails(s) \/ Rename(s)
  BY DEF DumpShard
<1>2. DumpFacts /\ TypeOK /\ Dumping /\ Control /\ Order /\ WholeDirs /\ Survives
  BY <1>1, DumpHasFacts DEF IInv, Dumps
<1>3. Stepped(s)
  BY <1>1, <1>2, CreateSteps, WriteSteps, RenameSteps
<1>4. UNCHANGED <<main, app, serve, shut, ctxDone, handler, enabled, graceful, skipped, starts>>
  BY <1>1 DEF process
<1>5. excess = <<>> /\ excess' = <<>> /\ ~graceful /\ ~Last(disk).whole
  BY <1>1, <1>2, <1>3 DEF Control, DumpFacts, Stepped
<1>6. TypeOK'
  BY <1>2, <1>3, <1>4 DEF TypeOK, DumpTypeOK, Stepped
<1>7. Control'
  BY <1>1, <1>2, <1>3, <1>4 DEF Control, Stepped, Last
<1>8. Edited
  <2>1. UNCHANGED disk => Edited
    BY <1>2, EmptySeq DEF Edited, DumpFacts
  <2> QED BY <1>3, <2>1 DEF Stepped
<1>9. Order'
  BY <1>2, <1>3, <1>5, <1>8, EditKeepsOrder DEF Stepped
<1>10. Dumping'
  BY <1>1, <1>2, <1>3, SteppedKeepsDumping
<1>11. WholeDirs' /\ NewestIsComplete' /\ Survives'
  BY <1>2, <1>3, <1>5, <1>8, EditKeepsWhole DEF Stepped
<1>12. IsDumped' /\ JustLoaded'
  BY <1>1, <1>4, <1>5 DEF IsDumped, JustLoaded, Loaded
<1> QED
  BY <1>6, <1>7, <1>9, <1>10, <1>11, <1>12 DEF IInv, Dumps

-----------------------------------------------------------------------------
(* The process starts and ends, and its dump starts and ends.              *)

LEMMA StartKeeps ==
    ASSUME IInv, Start
    PROVE  IInv'
<1>1. /\ main = "down" /\ main' = "load" /\ graceful' = FALSE /\ faults' = 0
      /\ starts < MaxStarts /\ starts' = starts + 1
      /\ enabled' \in BOOLEAN /\ skipped' = FALSE
      /\ UNCHANGED <<cache, disk, job, seen, excess, complete, torn, app, serve, shut,
                     ctxDone, handler>>
  BY DEF Start
<1>2. TypeOK /\ Control /\ Order /\ Dumps
  BY DEF IInv
<1>3. app = "none" /\ excess = <<>> /\ Len(excess) = 0
  BY <1>1, <1>2 DEF Control
<1>4. TypeOK'
  <2>1. faults' \in 0..MaxFaults /\ starts' \in 0..MaxStarts
    BY <1>1, <1>2, DumpAssumption, AppAssumption DEF TypeOK
  <2>2. DumpTypeOK'
    BY <1>1, <1>2, <2>1 DEF TypeOK, DumpTypeOK
  <2> QED BY <1>1, <1>2, <2>1, <2>2 DEF TypeOK
<1>5. Control'
  BY <1>1, <1>2, <1>3 DEF Control
<1>6. Begun' = Begun /\ ~Begun /\ Top' = Top
  BY <1>1, <1>3 DEF Begun, Top
<1>7. Order'
  BY <1>1, <1>2, <1>3, <1>6 DEF Order, Named, Room, Kept, Ordered
<1>8. Dumping' /\ IsDumped' /\ JustLoaded'
  BY <1>1, <1>3 DEF Dumping, IsDumped, JustLoaded, Loaded
<1>9. WholeDirs' /\ NewestIsComplete' /\ Survives'
  BY <1>1, <1>2, <1>6 DEF Dumps, WholeDirs, NewestIsComplete, Survives, Records
<1> QED
  BY <1>4, <1>5, <1>7, <1>8, <1>9 DEF IInv, Dumps

LEMMA EndsKeeps ==
    ASSUME IInv, NEW ok \in BOOLEAN, Ends(ok), ok => app = "done", main # "down"
    PROVE  IInv'
<1>1. /\ Dies /\ main' = "down" /\ app' = "none" /\ serve' = "none" /\ shut' = "none"
      /\ ctxDone' = FALSE /\ handler' = "none" /\ enabled' = FALSE
      /\ graceful' = ok /\ UNCHANGED <<skipped, starts>>
  BY DEF Ends
<1>2. TypeOK /\ Control /\ Order /\ Dumps
  BY DEF IInv
<1>3. /\ cache' = {} /\ job' = [s \in Shard |-> "none"] /\ seen' = [s \in Shard |-> {}]
      /\ torn' = (torn \/ Begun) /\ excess' = <<>> /\ UNCHANGED <<faults, complete>>
  BY <1>1 DEF Dies
<1>4. disk \in Seq(Dir) /\ Len(disk) \in Nat
  BY <1>2, LenProperties DEF TypeOK, DumpTypeOK
<1> DEFINE Cut == /\ app = "dump" /\ excess = <<>> /\ Edited
                  /\ ~Last(disk).whole /\ ~Last(disk').whole
<1>5. UNCHANGED disk \/ Cut
  <2> DEFINE writing == {s \in Shard : job[s] = "write"}
  <2>1. CASE writing = {}
    BY <1>1, <2>1 DEF Dies
  <2>2. CASE writing # {}
    <3>1. app = "dump"
      BY <1>2, <2>2 DEF Control
    <3>2. DumpFacts
      BY <1>2, <3>1, DumpHasFacts
    <3>3. PICK written \in [writing -> SUBSET cache] :
             disk' = [disk EXCEPT ![Len(disk)].tmp =
                        [s \in Shard |-> IF s \in writing THEN written[s] ELSE @[s]]]
      BY <1>1, <2>2 DEF Dies
    <3> DEFINE n == Len(disk)
               tmp == [s \in Shard |-> IF s \in writing THEN written[s] ELSE disk[n].tmp[s]]
               d == [disk[n] EXCEPT !.tmp = tmp]
    <3>4. n \in 1..n
      BY <3>2, EmptySeq DEF DumpFacts
    <3>5. disk' = [disk EXCEPT ![n] = d]
      BY <3>3
    <3>6. cache \subseteq Key
      BY <1>2 DEF TypeOK, DumpTypeOK
    <3>7. tmp \in Files
      <4>1. disk[n].tmp \in Files
        BY <3>2 DEF DumpFacts, Last
      <4>2. \A s \in writing : written[s] \in (SUBSET Key) \cup {Nil}
        BY <3>6
      <4>3. \A s \in Shard : disk[n].tmp[s] \in (SUBSET Key) \cup {Nil}
        BY <4>1 DEF Files
      <4> QED BY <4>2, <4>3 DEF Files
    <3>8. d \in Dir /\ d.ver = Last(disk).ver /\ ~d.whole
      <4> HIDE DEF tmp
      <4> QED BY <3>2, <3>7 DEF Dir, DumpFacts, Last
    <3>9. Edited /\ Last(disk') = d
      <4> HIDE DEF d
      <4> QED BY <3>2, <3>5, <3>8, EditLast DEF DumpFacts, n
    <3>10. excess = <<>>
      BY <1>2, <3>1 DEF Control
    <3> HIDE DEF d
    <3> QED BY <3>1, <3>2, <3>8, <3>9, <3>10 DEF DumpFacts
  <2> QED BY <2>1, <2>2
<1>6. disk' \in Seq(Dir)
  <2>1. UNCHANGED disk => disk' \in Seq(Dir)
    BY <1>4
  <2>2. Cut => disk' \in Seq(Dir)
    BY DEF Edited
  <2> HIDE DEF Cut
  <2> QED BY <1>5, <2>1, <2>2
<1>7. TypeOK'
  <2>1. excess' \in Seq(Nat \ {0}) /\ job' \in [Shard -> {"none", "create", "write", "rename", "done"}]
    BY <1>3, EmptySeq
  <2>2. seen' \in [Shard -> SUBSET Key] /\ cache' \subseteq Key
    BY <1>3
  <2>3. torn' \in BOOLEAN
    <3>1. (torn \/ Begun) \in BOOLEAN
      BY <1>2 DEF Begun
    <3> QED BY <1>3, <3>1, Zenon
  <2>4. faults' \in 0..MaxFaults /\ complete' \in (SUBSET Key) \cup {Nil}
    BY <1>2, <1>3 DEF TypeOK, DumpTypeOK
  <2>5. DumpTypeOK'
    BY <1>6, <2>1, <2>2, <2>3, <2>4 DEF DumpTypeOK
  <2> HIDE DEF Cut
  <2> QED BY <1>1, <1>2, <2>5 DEF TypeOK
<1>8. Control'
  BY <1>1, <1>3 DEF Control
<1>9. ~Begun' /\ Len(excess') = 0 /\ Top' = Len(disk')
  BY <1>3 DEF Begun, Top
<1>10. Order'
  <2>1. CASE Cut
    BY <1>2, <1>3, <2>1, EditKeepsOrder
  <2>2. CASE UNCHANGED disk
    <3>1. Named' /\ Room' /\ Kept'
      BY <1>2, <1>3, <1>9, <2>2 DEF Order, Named, Room, Kept
    <3>2. ~torn' => ~torn /\ ~Begun
      BY <1>3
    <3>3. Ordered'
      BY <1>2, <1>9, <2>2, <3>2 DEF Order, Ordered, Top
    <3> QED BY <3>1, <3>3 DEF Order
  <2> QED BY <1>5, <2>1, <2>2
<1>11. WholeDirs' /\ NewestIsComplete' /\ Survives'
  <2>1. CASE Cut
    BY <1>2, <1>3, <2>1, EditKeepsWhole DEF Dumps
  <2>2. CASE UNCHANGED disk
    <3>1. WholeDirs' /\ Survives'
      BY <1>2, <1>3, <2>2 DEF Dumps, WholeDirs, Survives
    <3>2. ~torn' => ~torn /\ Top' = Top
      BY <1>3, <1>9, <2>2 DEF Top
    <3>3. NewestIsComplete'
      BY <1>2, <1>3, <2>2, <3>2 DEF Dumps, NewestIsComplete, Records
    <3> QED BY <3>1, <3>3
  <2> QED BY <1>5, <2>1, <2>2
<1>12. Dumping' /\ JustLoaded'
  BY <1>1 DEF Dumping, JustLoaded, Loaded
<1>13. IsDumped'
  <2> SUFFICES ASSUME ok, faults = 0, ~skipped
               PROVE  disk' # <<>> /\ disk'[Top'].whole
    BY <1>1, <1>3 DEF IsDumped
  <2>1. app = "done" /\ excess = <<>> /\ disk' = disk
    BY <1>2, <1>5 DEF Control
  <2>2. Top' = Top
    BY <1>9, <2>1 DEF Top, Begun
  <2> QED BY <1>2, <2>1, <2>2 DEF Dumps, IsDumped
<1> QED
  BY <1>7, <1>8, <1>10, <1>11, <1>12, <1>13 DEF IInv, Dumps

LEMMA CloseKeeps ==
    ASSUME IInv, Close
    PROVE  IInv'
<1>1. app = "stop" /\ UNCHANGED <<main, serve, shut, ctxDone, handler, enabled, graceful, starts>>
  BY DEF Close
<1>2. TypeOK /\ Control /\ Order /\ Dumps
  BY DEF IInv
<1>3. main \notin {"down", "load"} /\ ~graceful /\ excess = <<>> /\ Len(excess) = 0
  BY <1>1, <1>2 DEF Control
<1>4. disk \in Seq(Dir) /\ Len(disk) \in Nat
  BY <1>2, LenProperties DEF TypeOK, DumpTypeOK
<1>5. CASE app' = "closed" /\ DumpRefused /\ UNCHANGED skipped
  <2>1. /\ UNCHANGED <<cache, disk, job, seen, excess, complete, torn>>
        /\ faults' # 0 /\ faults' \in 0..MaxFaults
    BY <1>2, <1>5, Faulty DEF DumpRefused
  <2>2. Begun' = Begun /\ ~Begun /\ Top' = Top
    BY <1>3, <2>1 DEF Begun, Top
  <2>3. TypeOK'
    BY <1>1, <1>2, <1>5, <2>1 DEF TypeOK, DumpTypeOK
  <2>4. Control'
    BY <1>1, <1>2, <1>3, <1>5, <2>1 DEF Control
  <2>5. Order'
    BY <1>2, <1>3, <2>1, <2>2 DEF Order, Named, Room, Kept, Ordered
  <2>6. WholeDirs' /\ NewestIsComplete' /\ Survives'
    BY <1>2, <2>1, <2>2 DEF Dumps, WholeDirs, NewestIsComplete, Survives, Records
  <2>7. Dumping' /\ IsDumped' /\ JustLoaded'
    BY <1>5, <2>1 DEF Dumping, IsDumped, JustLoaded, Loaded
  <2> QED BY <2>3, <2>4, <2>5, <2>6, <2>7 DEF IInv, Dumps
<1>6. CASE app' = "dump" /\ DumpStarts /\ UNCHANGED skipped
  <2> DEFINE d == [ver |-> Newest + 1, file |-> NoFiles, tmp |-> NoFiles, whole |-> FALSE]
             n == Len(disk)
  <2>1. /\ disk' = Append(disk, d) /\ job' = [s \in Shard |-> "create"]
        /\ UNCHANGED <<cache, seen, excess, faults, complete, torn>>
    BY <1>6 DEF DumpStarts, nextVersionDir
  <2>2. /\ Newest \in Nat /\ \A i \in 1..n : disk[i].ver <= Newest
    BY <1>4, NewestIsGreatest
  <2>3. NoFiles \in Files
    BY DEF NoFiles, Files
  <2>4. d \in Dir
    BY <2>2, <2>3 DEF Dir
  <2>5. /\ disk' \in Seq(Dir) /\ disk' # <<>> /\ Len(disk') = n + 1
        /\ \A i \in 1..n : disk'[i] = disk[i]
        /\ disk'[n + 1] = d
    <3> HIDE DEF d
    <3> QED BY <1>4, <2>1, <2>4, AppendProperties
  <2>6. Last(disk') = d
    BY <2>5 DEF Last
  <2>7. ~Begun /\ ~Begun' /\ Top = n /\ Top' = n + 1
    BY <1>3, <2>1, <2>5 DEF Begun, Top
  <2>8. \A i \in 1..n : disk[i].ver \in Nat
    <3>1. \A i \in 1..n : disk[i] \in Dir
      BY <1>4, ElementOfSeq
    <3> QED BY <3>1 DEF Dir
  <2>9. TypeOK'
    <3>1. job' \in [Shard -> {"none", "create", "write", "rename", "done"}]
      BY <2>1
    <3>2. DumpTypeOK'
      BY <1>2, <2>1, <2>5, <3>1 DEF TypeOK, DumpTypeOK
    <3> QED BY <1>1, <1>2, <1>6, <3>2 DEF TypeOK
  <2>10. Control'
    BY <1>1, <1>2, <1>3, <1>6, <2>1, <2>5, <2>6 DEF Control
  <2>11. \A i \in 1..(n + 1) : i # n + 1 => i \in 1..n
    BY <1>4
  <2>12. \A i \in 1..n : disk'[i].ver = disk[i].ver /\ disk'[i].ver < disk'[n + 1].ver
    BY <2>2, <2>5, <2>8
  <2>13. Named'
    <3>1. ASSUME NEW i \in 1..(n + 1), NEW j \in 1..(n + 1), disk'[i].ver = disk'[j].ver
          PROVE  i = j
      <4>1. \A x \in 1..n : disk'[x].ver # disk'[n + 1].ver
        BY <2>2, <2>5, <2>8
      <4> QED BY <1>2, <2>11, <2>12, <3>1, <4>1 DEF Order, Named
    <3> QED BY <1>3, <2>1, <2>5, <3>1 DEF Named
  <2>14. Room' /\ Kept'
    BY <1>3, <2>1, <2>7 DEF Room, Kept
  <2>15. Ordered'
    <3> SUFFICES ASSUME ~torn, NEW i \in 1..(n + 1), NEW j \in 1..(n + 1), i < j
                 PROVE  disk'[i].ver < disk'[j].ver
      BY <2>1, <2>7 DEF Ordered
    <3>1. i \in 1..n
      BY <1>4
    <3>2. CASE j = n + 1
      BY <2>12, <3>1, <3>2
    <3>3. CASE j \in 1..n
      BY <1>2, <2>7, <2>12, <3>1, <3>3 DEF Order, Ordered
    <3> QED BY <2>11, <3>2, <3>3
  <2>16. Dumping'
    <3>1. \A s \in Shard : job'[s] = "create" /\ Last(disk').tmp[s] = Nil /\ Last(disk').file[s] = Nil
      BY <2>1, <2>6 DEF NoFiles
    <3> HIDE DEF Last
    <3> QED BY <3>1 DEF Dumping
  <2>17. WholeDirs'
    <3>1. ~disk'[n + 1].whole
      BY <2>5
    <3>2. \A i \in 1..n : disk'[i].whole =>
            disk'[i].tmp = NoFiles /\ \A s \in Shard : disk'[i].file[s] # Nil
      BY <1>2, <2>5 DEF Dumps, WholeDirs
    <3> QED BY <2>5, <2>11, <3>1, <3>2 DEF WholeDirs
  <2>18. NewestIsComplete'
    BY <2>5, <2>7 DEF NewestIsComplete
  <2>19. Survives'
    <3> SUFFICES ASSUME complete # Nil
                 PROVE  \/ \E i \in 1..(n + 1) : disk'[i].whole
                        \/ MaxVersions > 0 /\ n + 1 >= MaxVersions
      BY <2>1, <2>5 DEF Survives
    <3>1. CASE \E i \in 1..n : disk[i].whole
      <4>1. PICK i \in 1..n : disk[i].whole
        BY <3>1
      <4>2. i \in 1..(n + 1)
        BY <1>4
      <4> QED BY <2>5, <4>1, <4>2
    <3>2. CASE MaxVersions > 0 /\ n >= MaxVersions
      BY <1>4, <3>2, DumpAssumption
    <3> QED BY <1>2, <3>1, <3>2 DEF Dumps, Survives
  <2>20. IsDumped' /\ JustLoaded'
    BY <1>1, <1>3, <1>6 DEF IsDumped, JustLoaded, Loaded
  <2> QED BY <2>9, <2>10, <2>13, <2>14, <2>15, <2>16, <2>17, <2>18, <2>19, <2>20
          DEF IInv, Order, Dumps
<1>7. CASE app' = "closed" /\ skipped' = TRUE /\ UNCHANGED <<cache, dumper>>
  <2>1. UNCHANGED <<cache, disk, job, seen, excess, faults, complete, torn>>
    BY <1>7 DEF dumper
  <2>2. TypeOK'
    BY <1>1, <1>2, <1>7, <2>1 DEF TypeOK, DumpTypeOK
  <2>3. Control'
    BY <1>1, <1>2, <1>3, <1>7, <2>1 DEF Control
  <2>4. Order'
    BY <1>2, <1>7, QuietKeepsOrder
  <2>5. JustLoaded'
    BY <1>7 DEF JustLoaded, Loaded
  <2>6. Dumps'
    BY <1>2, <1>7, <2>5, QuietKeepsDumps DEF Finishing
  <2> QED BY <2>2, <2>3, <2>4, <2>6 DEF IInv
<1> QED
  BY <1>5, <1>6, <1>7 DEF Close

LEMMA DumpedKeeps ==
    ASSUME IInv, Dumped
    PROVE  IInv'
<1> DEFINE n == Len(disk)
           all == UNION {seen[s] : s \in Shard}
           d == [Last(disk) EXCEPT !.whole = Whole(Last(disk))]
<1>1. /\ app = "dump" /\ app' = "rotate"
      /\ UNCHANGED <<main, serve, shut, ctxDone, handler, enabled, graceful, skipped, starts>>
      /\ \A s \in Shard : job[s] = "done"
      /\ disk' = [disk EXCEPT ![n].whole = Whole(Last(disk))]
      /\ complete' = IF Whole(Last(disk)) THEN all ELSE complete
      /\ excess' = IF MaxVersions > 0 THEN rotateVersionDirs(MaxVersions) ELSE <<>>
      /\ job' = [s \in Shard |-> "none"] /\ seen' = [s \in Shard |-> {}]
      /\ UNCHANGED <<cache, faults, torn>>
  BY DEF Dumped, DumpEnds
<1>2. TypeOK /\ Control /\ Order /\ Dumps /\ DumpFacts
  BY <1>1, DumpHasFacts DEF IInv
<1>3. main \notin {"down", "load"} /\ ~graceful /\ excess = <<>> /\ ~Last(disk).whole
  BY <1>1, <1>2 DEF Control
<1>4. disk \in Seq(Dir) /\ n \in Nat \ {0} /\ n \in 1..n /\ disk[n] \in Dir
  BY <1>2, EmptySeq DEF DumpFacts, Last
<1>5. d \in Dir /\ d.ver = Last(disk).ver /\ d.whole = Whole(Last(disk))
      /\ d.file = Last(disk).file /\ d.tmp = Last(disk).tmp
  <2>1. Whole(Last(disk)) \in BOOLEAN
    BY DEF Whole
  <2> QED BY <1>2, <2>1 DEF DumpFacts, Dir
<1>6. Edited /\ Last(disk') = d
  <2>1. disk' = [disk EXCEPT ![n] = d]
    BY <1>1 DEF Last
  <2> HIDE DEF d
  <2> QED BY <1>2, <1>5, <2>1, EditLast DEF DumpFacts, n
<1>7. disk' \in Seq(Dir) /\ disk' # <<>> /\ Len(disk') = n /\ disk'[n] = d
  BY <1>6 DEF Edited, Last
<1>8. \A i \in 1..n : disk[i].ver \in Nat \ {0} /\ disk'[i].ver = disk[i].ver
  <2>1. \A i \in 1..n : disk[i] \in Dir
    BY <1>4, ElementOfSeq
  <2> QED BY <1>6, <2>1 DEF Dir, Edited
<1> HIDE DEF d, all
<1>9. /\ excess' \in Seq(Nat \ {0})
      /\ \A i \in 1..Len(excess') : i \in 1..n /\ i # n /\ excess'[i] = disk[i].ver
      /\ excess' # <<>> => MaxVersions > 0 /\ n >= MaxVersions + Len(excess')
                           /\ excess'[1] = disk[1].ver /\ n # 1
  <2>1. CASE MaxVersions > 0 /\ ~(n < MaxVersions)
    <3> DEFINE m == n - MaxVersions
    <3>1. m \in Nat /\ m < n
      BY <1>4, <2>1, DumpAssumption
    <3>2. excess' = [i \in 1..m |-> disk[i].ver]
      BY <1>1, <2>1 DEF rotateVersionDirs
    <3>3. \A i \in 1..m : i \in 1..n /\ i # n
      BY <1>4, <3>1
    <3>4. \A i \in 1..m : disk[i].ver \in Nat \ {0}
      BY <1>8, <3>3
    <3>5. excess' \in Seq(Nat \ {0})
      <4> HIDE DEF m
      <4> QED BY <3>1, <3>2, <3>4
    <3>6. Len(excess') = m
      <4> HIDE DEF m
      <4> QED BY <3>1, <3>2
    <3>7. excess' # <<>> => m # 0
      BY <3>5, <3>6, EmptySeq
    <3>8. m # 0 => 1 \in 1..m /\ n # 1
      BY <3>1, <1>4
    <3>9. n >= MaxVersions + m
      BY <1>4, DumpAssumption
    <3> HIDE DEF m
    <3> QED BY <2>1, <3>2, <3>3, <3>5, <3>6, <3>7, <3>8, <3>9
  <2>2. CASE MaxVersions > 0 /\ n < MaxVersions
    <3>1. excess' = [i \in 1..0 |-> disk[i].ver]
      BY <1>1, <2>2 DEF rotateVersionDirs
    <3>2. excess' = <<>>
      BY <3>1
    <3> QED BY <3>2, EmptySeq
  <2>3. CASE ~(MaxVersions > 0)
    BY <1>1, <2>3, EmptySeq
  <2> QED BY <2>1, <2>2, <2>3
<1>10. ~Begun' /\ Top' = n
  <2>1. ASSUME excess' # <<>> PROVE Last(disk').ver # Head(excess')
    <3>1. Head(excess') = disk[1].ver /\ n # 1
      BY <1>9, <2>1
    <3>2. 1 \in 1..n
      BY <1>4
    <3>3. Last(disk').ver = disk[n].ver
      BY <1>4, <1>7, <1>8 DEF Last
    <3> QED BY <1>2, <1>4, <3>1, <3>2, <3>3 DEF Order, Named
  <2> QED BY <1>7, <2>1 DEF Begun, Top
<1>11. ~Begun /\ Top = n
  BY <1>3 DEF Begun, Top
<1>12. TypeOK'
  <2>1. /\ job' \in [Shard -> {"none", "create", "write", "rename", "done"}]
        /\ seen' \in [Shard -> SUBSET Key]
    BY <1>1
  <2>2. complete' \in (SUBSET Key) \cup {Nil}
    BY <1>1, <1>2 DEF TypeOK, DumpTypeOK, all
  <2>3. DumpTypeOK'
    BY <1>1, <1>2, <1>7, <1>9, <2>1, <2>2 DEF TypeOK, DumpTypeOK
  <2> QED BY <1>1, <1>2, <2>3 DEF TypeOK
<1>13. Control'
  BY <1>1, <1>3 DEF Control
<1>14. Order'
  <2>1. Named'
    <3>1. \A i, j \in 1..n : disk'[i].ver = disk'[j].ver => i = j
      BY <1>2, <1>8 DEF Order, Named
    <3>2. \A i \in 1..Len(excess') : excess'[i] = disk'[i].ver /\ i \in 1..n
      BY <1>8, <1>9
    <3> QED BY <1>7, <3>1, <3>2 DEF Named
  <2>2. Room'
    BY <1>7, <1>9 DEF Room
  <2>3. Kept'
    <3>1. \A i \in 1..Len(excess') : excess'[i] # disk'[n].ver
      BY <1>2, <1>4, <1>8, <1>9 DEF Order, Named
    <3> QED BY <1>10, <3>1 DEF Kept
  <2>4. Ordered'
    BY <1>1, <1>2, <1>8, <1>10, <1>11 DEF Order, Ordered
  <2> QED BY <2>1, <2>2, <2>3, <2>4 DEF Order
<1>15. Whole(Last(disk)) => \A s \in Shard : d.file[s] = seen[s] /\ d.file[s] # Nil /\ d.tmp[s] = Nil
  <2> SUFFICES ASSUME Whole(Last(disk)), NEW s \in Shard
               PROVE  d.file[s] = seen[s] /\ d.file[s] # Nil /\ d.tmp[s] = Nil
    OBVIOUS
  <2>1. d.file[s] = seen[s]
    BY <1>5 DEF Whole
  <2>2. seen[s] # Nil
    BY <1>2, DumpAssumption DEF TypeOK, DumpTypeOK
  <2> QED BY <1>1, <1>2, <1>5, <2>1, <2>2 DEF Dumps, Dumping
<1>16. WholeDirs'
  <2>1. d.whole => d.tmp = NoFiles
    <3>1. d.tmp \in Files
      BY <1>2, <1>5 DEF DumpFacts
    <3> QED BY <1>5, <1>15, <3>1 DEF NoFiles, Files
  <2>2. d.whole => d.tmp = NoFiles /\ \A s \in Shard : d.file[s] # Nil
    BY <1>5, <1>15, <2>1
  <2> QED BY <1>2, <1>6, <1>7, <2>2 DEF WholeDirs, Dumps, Edited
<1>17. IsDumped'
  <2> SUFFICES ASSUME faults = 0 PROVE disk' # <<>> /\ disk'[n].whole
    BY <1>1, <1>10 DEF IsDumped
  <2>1. \A s \in Shard : Last(disk).file[s] = seen[s]
    BY <1>1, <1>2 DEF Dumps, Dumping
  <2>2. Whole(Last(disk))
    BY <2>1 DEF Whole
  <2> QED BY <1>5, <1>7, <2>2
<1>18. NewestIsComplete'
  <2> SUFFICES ASSUME d.whole PROVE complete' = Records(d.file)
    BY <1>7, <1>10 DEF NewestIsComplete, Records
  <2>1. \A s \in Shard : d.file[s] = seen[s] /\ d.file[s] # Nil
    BY <1>5, <1>15
  <2>2. Records(d.file) = all
    BY <2>1 DEF Records, all
  <2> QED BY <1>1, <1>5, <2>2
<1>19. Survives'
  <2>1. CASE Whole(Last(disk))
    BY <1>4, <1>5, <1>7, <2>1 DEF Survives
  <2>2. CASE ~Whole(Last(disk))
    <3>1. complete' = complete
      BY <1>1, <2>2
    <3>2. \A i \in 1..n : disk[i].whole => disk'[i].whole
      BY <1>3, <1>6 DEF Edited, Last
    <3> QED BY <1>2, <1>7, <3>1, <3>2 DEF Dumps, Survives
  <2> QED BY <2>1, <2>2
<1>20. Dumping' /\ JustLoaded'
  BY <1>1 DEF Dumping, JustLoaded, Loaded
<1> QED
  BY <1>12, <1>13, <1>14, <1>16, <1>17, <1>18, <1>19, <1>20 DEF IInv, Dumps

-----------------------------------------------------------------------------
(* The rotation.                                                           *)

\* What the rotation goes by: the directory it removes is not the newest one.
LEMMA VictimFacts ==
    ASSUME TypeOK, Order, excess # <<>>
    PROVE  /\ disk \in Seq(Dir) /\ Len(disk) \in Nat /\ Len(disk) >= 1
           /\ excess \in Seq(Nat \ {0}) /\ Len(excess) \in Nat /\ Len(excess) >= 1
           /\ Head(excess) = excess[1]
           /\ Victim \in 1..Len(disk) /\ disk[Victim].ver = excess[1]
           /\ Begun => Victim = Len(disk)
           /\ ~Begun => Victim # Len(disk)
           /\ MaxVersions > 0 /\ Len(disk) >= MaxVersions + Len(excess)
<1>1. disk \in Seq(Dir) /\ excess \in Seq(Nat \ {0})
  BY DEF TypeOK, DumpTypeOK
<1>2. Len(disk) \in Nat /\ DOMAIN disk = 1..Len(disk) /\ Len(excess) \in Nat /\ Len(excess) >= 1
  BY <1>1, LenProperties, EmptySeq
<1>3. Head(excess) = excess[1] /\ 1 \in 1..Len(excess)
  BY <1>1, <1>2
<1>4. \E j \in 1..Len(disk) : disk[j].ver = excess[1]
  BY <1>3 DEF Order, Named
<1>5. Victim \in 1..Len(disk) /\ disk[Victim].ver = excess[1]
  BY <1>2, <1>3, <1>4 DEF Victim
<1>6. Len(disk) >= 1
  BY <1>2, <1>5
<1>7. Begun => Victim = Len(disk)
  <2>1. Begun => disk[Len(disk)].ver = disk[Victim].ver
    BY <1>3, <1>5 DEF Begun, Last
  <2>2. Len(disk) \in 1..Len(disk)
    BY <1>2, <1>6
  <2> QED BY <1>5, <2>1, <2>2 DEF Order, Named
<1>8. ~Begun => Victim # Len(disk)
  BY <1>3, <1>5 DEF Begun, Last
<1>9. MaxVersions > 0 /\ Len(disk) >= MaxVersions + Len(excess)
  BY DEF Order, Room
<1> QED
  BY <1>1, <1>2, <1>3, <1>5, <1>6, <1>7, <1>8, <1>9

\* The rotation changes nothing else.
Rotates ==
    /\ app = "rotate" /\ app' = "rotate"
    /\ UNCHANGED <<main, serve, shut, ctxDone, handler, enabled, graceful, skipped, starts>>
    /\ UNCHANGED <<cache, job, seen, complete>>

LEMMA RotatesKeeps ==
    ASSUME TypeOK, Control, Rotates, disk' \in Seq(Dir), excess' \in Seq(Nat \ {0}),
           faults' \in 0..MaxFaults, torn' \in BOOLEAN
    PROVE  TypeOK' /\ Control' /\ Dumping' /\ JustLoaded'
<1>1. TypeOK'
  BY DEF TypeOK, DumpTypeOK, Rotates
<1>2. Control'
  BY DEF Control, Rotates
<1>3. Dumping' /\ JustLoaded'
  BY DEF Dumping, JustLoaded, Loaded, Rotates
<1> QED
  BY <1>1, <1>2, <1>3

LEMMA ThreeFields ==
    ASSUME NEW v, NEW f, NEW t, NEW w, NEW S, NEW x, NEW r,
           r = [ver |-> v, file |-> f, tmp |-> t, whole |-> w]
    PROVE  [r EXCEPT !.file = [s \in Shard |-> IF s \in S THEN @[s] ELSE Nil],
                     !.tmp = [s \in Shard |-> IF s \in S THEN @[s] ELSE Nil],
                     !.whole = x] =
           [ver |-> v, file |-> [s \in Shard |-> IF s \in S THEN f[s] ELSE Nil],
            tmp |-> [s \in Shard |-> IF s \in S THEN t[s] ELSE Nil], whole |-> x]
<1> DEFINE F == [s \in Shard |-> IF s \in S THEN f[s] ELSE Nil]
           T == [s \in Shard |-> IF s \in S THEN t[s] ELSE Nil]
           one == [r EXCEPT !.file = F]
           two == [one EXCEPT !.tmp = T]
<1>1. r.file = f /\ one.tmp = t
  OBVIOUS
<1>2. [r EXCEPT !.file = [s \in Shard |-> IF s \in S THEN @[s] ELSE Nil],
                !.tmp = [s \in Shard |-> IF s \in S THEN @[s] ELSE Nil],
                !.whole = x] = [two EXCEPT !.whole = x]
  BY <1>1
<1>3. [two EXCEPT !.whole = x] = [ver |-> v, file |-> F, tmp |-> T, whole |-> x]
  <2> HIDE DEF F, T
  <2>1. one = [ver |-> v, file |-> F, tmp |-> t, whole |-> w]
    OBVIOUS
  <2> HIDE DEF one
  <2>2. two = [ver |-> v, file |-> F, tmp |-> T, whole |-> w]
    BY <2>1
  <2> HIDE DEF two
  <2> QED BY <2>2
<1> QED
  BY <1>2, <1>3

\* What is left of a directory r.
LEMMA FilesGo ==
    ASSUME NEW r, NEW S, NEW l,
           r = [ver |-> r.ver, file |-> r.file, tmp |-> r.tmp, whole |-> r.whole],
           l = [r EXCEPT !.file = [s \in Shard |-> IF s \in S THEN @[s] ELSE Nil],
                         !.tmp = [s \in Shard |-> IF s \in S THEN @[s] ELSE Nil],
                         !.whole = FALSE]
    PROVE  l = [ver |-> r.ver, file |-> [s \in Shard |-> IF s \in S THEN r.file[s] ELSE Nil],
                tmp |-> [s \in Shard |-> IF s \in S THEN r.tmp[s] ELSE Nil], whole |-> FALSE]
<1>1. PICK no : no = FALSE
  OBVIOUS
<1>2. l = [r EXCEPT !.file = [s \in Shard |-> IF s \in S THEN @[s] ELSE Nil],
                    !.tmp = [s \in Shard |-> IF s \in S THEN @[s] ELSE Nil],
                    !.whole = no]
  BY <1>1
<1>3. l = [ver |-> r.ver, file |-> [s \in Shard |-> IF s \in S THEN r.file[s] ELSE Nil],
           tmp |-> [s \in Shard |-> IF s \in S THEN r.tmp[s] ELSE Nil], whole |-> no]
  BY <1>2, ThreeFields
<1> QED
  BY <1>1, <1>3

\* A removal that begins makes its directory the last one.
LEMMA RemoveFilesKeeps ==
    ASSUME IInv, Rotates, RemoveFiles
    PROVE  IInv'
<1> DEFINE n == Len(disk)
           v == Victim
<1>1. TypeOK /\ Control /\ Order /\ Dumps
  BY DEF IInv
<1>2. excess # <<>> /\ ~Begun /\ UNCHANGED <<cache, job, seen, excess, faults, complete, torn>>
  BY DEF RemoveFiles
<1>3. /\ disk \in Seq(Dir) /\ n \in Nat /\ n >= 1
      /\ Len(excess) \in Nat /\ Len(excess) >= 1 /\ Head(excess) = excess[1]
      /\ v \in 1..n /\ disk[v].ver = excess[1] /\ v # n
      /\ MaxVersions > 0 /\ n >= MaxVersions + Len(excess)
  BY <1>1, <1>2, VictimFacts
<1>4. PICK S \in SUBSET Shard :
        disk' = Append(RemoveAt(disk, v),
                  [disk[v] EXCEPT !.file = [s \in Shard |-> IF s \in S THEN @[s] ELSE Nil],
                                  !.tmp = [s \in Shard |-> IF s \in S THEN @[s] ELSE Nil],
                                  !.whole = FALSE])
  BY DEF RemoveFiles
<1> DEFINE left == [ver |-> disk[v].ver,
                    file |-> [s \in Shard |-> IF s \in S THEN disk[v].file[s] ELSE Nil],
                    tmp |-> [s \in Shard |-> IF s \in S THEN disk[v].tmp[s] ELSE Nil],
                    whole |-> FALSE]
<1>5. disk[v] \in Dir
  BY <1>3, ElementOfSeq
<1>6. disk' = Append(RemoveAt(disk, v), left)
  <2>1. disk[v] = [ver |-> disk[v].ver, file |-> disk[v].file, tmp |-> disk[v].tmp,
                   whole |-> disk[v].whole]
    BY <1>5 DEF Dir
  <2> DEFINE r == disk[v]
             l == [r EXCEPT !.file = [s \in Shard |-> IF s \in S THEN @[s] ELSE Nil],
                            !.tmp = [s \in Shard |-> IF s \in S THEN @[s] ELSE Nil],
                            !.whole = FALSE]
  <2>2. l = left
    <3>1. l = [r EXCEPT !.file = [s \in Shard |-> IF s \in S THEN @[s] ELSE Nil],
                        !.tmp = [s \in Shard |-> IF s \in S THEN @[s] ELSE Nil],
                        !.whole = FALSE]
      OBVIOUS
    <3>2. r = [ver |-> r.ver, file |-> r.file, tmp |-> r.tmp, whole |-> r.whole]
      BY <2>1
    <3> HIDE DEF l, r
    <3>3. l = [ver |-> r.ver, file |-> [s \in Shard |-> IF s \in S THEN r.file[s] ELSE Nil],
               tmp |-> [s \in Shard |-> IF s \in S THEN r.tmp[s] ELSE Nil], whole |-> FALSE]
      BY <3>1, <3>2, FilesGo
    <3> QED BY <3>3 DEF r
  <2>3. disk' = Append(RemoveAt(disk, v), l)
    BY <1>4
  <2> HIDE DEF l, left
  <2> QED BY <2>2, <2>3
<1>7. left \in Dir
  BY <1>5 DEF Dir, Files
<1>8. left.ver = excess[1] /\ ~left.whole
  BY <1>3
<1> HIDE DEF left, v
<1>9. /\ RemoveAt(disk, v) \in Seq(Dir) /\ Len(RemoveAt(disk, v)) = n - 1
      /\ \A j \in 1..(n - 1) : RemoveAt(disk, v)[j] = IF j < v THEN disk[j] ELSE disk[j + 1]
  BY <1>3, RemoveAtProperties
<1>10. /\ disk' \in Seq(Dir) /\ Len(disk') = n /\ disk'[n] = left /\ disk' # <<>>
       /\ \A j \in 1..(n - 1) : disk'[j] = IF j < v THEN disk[j] ELSE disk[j + 1]
  <2>1. n - 1 \in Nat /\ n - 1 + 1 = n
    BY <1>3
  <2> QED BY <1>6, <1>7, <1>9, <2>1, AppendProperties
<1>11. n - 1 \in 1..(n - 1) /\ disk'[n - 1] = disk[n]
  <2>1. v <= n - 1 /\ v >= 1
    BY <1>3
  <2>2. n - 1 \in 1..(n - 1) /\ ~(n - 1 < v) /\ n - 1 + 1 = n
    BY <1>3, <2>1
  <2> QED BY <1>10, <2>2
<1>12. Top = n /\ Begun' /\ Top' = n - 1
  BY <1>2, <1>3, <1>8, <1>10 DEF Begun, Top, Last
\* from[j] is where the directory at j was before.
<1> DEFINE from == [j \in 1..n |-> IF j = n THEN v ELSE IF j < v THEN j ELSE j + 1]
<1>13. /\ \A j \in 1..n : from[j] \in 1..n /\ disk'[j].ver = disk[from[j]].ver
       /\ \A j \in 1..n : j # n => disk'[j] = disk[from[j]]
       /\ \A i, j \in 1..n : from[i] = from[j] => i = j
       /\ \A i, j \in 1..(n - 1) : i < j => from[i] < from[j]
       /\ \A i \in 1..n : i # v => \E j \in 1..n : j # n /\ from[j] = i
  <2>1. \A j \in 1..n : from[j] \in 1..n
    BY <1>3
  <2>2. \A j \in 1..n : j # n => j \in 1..(n - 1) /\ disk'[j] = disk[from[j]]
    BY <1>3, <1>10
  <2>3. \A j \in 1..n : disk'[j].ver = disk[from[j]].ver
    BY <1>3, <1>8, <1>10, <2>2
  <2>4. \A i, j \in 1..n : from[i] = from[j] => i = j
    BY <1>3
  <2>5. \A i, j \in 1..(n - 1) : i < j => from[i] < from[j]
    BY <1>3
  <2>6. ASSUME NEW i \in 1..n, i # v PROVE \E j \in 1..n : j # n /\ from[j] = i
    <3>1. CASE i < v
      <4>1. i \in 1..n /\ i # n /\ from[i] = i
        BY <1>3, <3>1
      <4> QED BY <4>1
    <3>2. CASE i > v
      <4>1. i - 1 \in 1..n /\ i - 1 # n /\ from[i - 1] = i
        BY <1>3, <3>2
      <4> QED BY <4>1
    <3> QED BY <1>3, <2>6, <3>1, <3>2
  <2> QED BY <2>1, <2>2, <2>3, <2>4, <2>5, <2>6
<1> HIDE DEF from
<1>14. TypeOK' /\ Control' /\ Dumping' /\ JustLoaded'
  BY <1>1, <1>2, <1>10, RotatesKeeps DEF TypeOK, DumpTypeOK
<1>15. Named'
  <2>1. ASSUME NEW i \in 1..n, NEW j \in 1..n, disk'[i].ver = disk'[j].ver
        PROVE  i = j
    <3>1. /\ from[i] \in 1..n /\ from[j] \in 1..n
          /\ disk[from[i]].ver = disk[from[j]].ver
      BY <1>13, <2>1
    <3>2. from[i] = from[j]
      BY <1>1, <3>1 DEF Order, Named
    <3> QED BY <1>13, <3>2
  <2>2. ASSUME NEW i \in 1..Len(excess) PROVE \E j \in 1..n : disk'[j].ver = excess[i]
    <3>1. PICK k \in 1..n : disk[k].ver = excess[i]
      BY <1>1 DEF Order, Named
    <3>2. CASE k = v
      BY <1>3, <1>8, <1>10, <3>1, <3>2 DEF v
    <3>3. CASE k # v
      BY <1>13, <3>1, <3>3
    <3> QED BY <3>2, <3>3
  <2> QED BY <1>1, <1>2, <1>10, <2>1, <2>2 DEF Order, Named
<1>16. Room'
  BY <1>2, <1>3, <1>10 DEF Room
<1>17. Kept'
  BY <1>1, <1>2, <1>3, <1>11, <1>12 DEF Order, Kept
<1>18. Ordered'
  <2> SUFFICES ASSUME ~torn
               PROVE  /\ \A i, j \in 1..(n - 1) : i < j => disk'[i].ver < disk'[j].ver
                      /\ disk'[n].ver < disk'[n - 1].ver
    BY <1>2, <1>10, <1>12 DEF Ordered
  <2>1. \A i, j \in 1..n : i < j => disk[i].ver < disk[j].ver
    BY <1>1, <1>12 DEF Order, Ordered
  <2>2. \A i \in 1..(n - 1) : i \in 1..n
    BY <1>3
  <2>3. v < n /\ n \in 1..n
    BY <1>3 DEF v
  <2>4. disk'[n].ver = disk[v].ver /\ v \in 1..n
    BY <1>3, <1>8, <1>10 DEF v
  <2>5. ASSUME NEW i \in 1..(n - 1), NEW j \in 1..(n - 1), i < j
        PROVE  disk'[i].ver < disk'[j].ver
    <3>1. /\ i \in 1..n /\ j \in 1..n /\ from[i] < from[j]
          /\ from[i] \in 1..n /\ from[j] \in 1..n
      BY <1>13, <2>2, <2>5
    <3>2. disk[from[i]].ver < disk[from[j]].ver
      BY <2>1, <3>1
    <3> QED BY <1>13, <3>1, <3>2
  <2>6. disk[v].ver < disk[n].ver
    BY <2>1, <2>3, <2>4
  <2> QED BY <1>11, <2>4, <2>5, <2>6
<1>19. WholeDirs'
  BY <1>1, <1>8, <1>10, <1>13 DEF Dumps, WholeDirs
<1>20. IsDumped'
  BY <1>1, <1>2, <1>10, <1>11, <1>12 DEF Rotates, Dumps, IsDumped
<1>21. NewestIsComplete'
  <2>1. disk # <<>>
    BY <1>3
  <2> QED BY <1>1, <1>2, <1>11, <1>12, <2>1 DEF Dumps, NewestIsComplete, Records
<1>22. Survives'
  BY <1>3, <1>10, DumpAssumption DEF Survives
<1> QED
  BY <1>14, <1>15, <1>16, <1>17, <1>18, <1>19, <1>20, <1>21, <1>22 DEF IInv, Order, Dumps

\* The rest of a rotation: the newest directory is not the next one to go.
LEMMA NextIsOlder ==
    ASSUME Order, excess # <<>>, excess \in Seq(Nat \ {0}), disk \in Seq(Dir),
           excess' = Tail(excess), disk' # <<>>,
           disk'[Len(disk')] = disk[Top],
           faults = 0 \/ ~torn
    PROVE  /\ ~Begun'
           /\ \A i \in 1..Len(excess') : excess'[i] # disk'[Len(disk')].ver
<1>1. \A i \in 1..Len(excess) : excess[i] # disk[Top].ver
  BY DEF Order, Kept
<1>2. /\ Tail(excess) \in Seq(Nat \ {0}) /\ Len(Tail(excess)) = Len(excess) - 1
      /\ \A i \in 1..Len(Tail(excess)) : Tail(excess)[i] = excess[i + 1]
      /\ Len(excess) \in Nat
  BY HeadTailProperties, LenProperties
<1>3. \A i \in 1..Len(excess') : i + 1 \in 1..Len(excess) /\ excess'[i] = excess[i + 1]
  BY <1>2
<1>4. \A i \in 1..Len(excess') : excess'[i] # disk[Top].ver
  BY <1>1, <1>3
<1>5. excess' # <<>> => 1 \in 1..Len(excess') /\ Head(excess') = excess'[1]
  BY <1>2, EmptySeq
<1> QED
  BY <1>4, <1>5 DEF Begun, Last

LEMMA RemoveDirKeeps ==
    ASSUME IInv, Rotates, RemoveDir
    PROVE  IInv'
<1> DEFINE n == Len(disk)
           v == Victim
           m == Len(disk')
<1>1. TypeOK /\ Control /\ Order /\ Dumps
  BY DEF IInv
<1>2. excess # <<>> /\ excess' = Tail(excess) /\ UNCHANGED <<cache, job, seen, complete>>
  BY DEF RemoveDir
<1>3. /\ disk \in Seq(Dir) /\ n \in Nat /\ n >= 1
      /\ excess \in Seq(Nat \ {0}) /\ Len(excess) \in Nat /\ Len(excess) >= 1
      /\ v \in 1..n /\ disk[v].ver = excess[1]
      /\ Begun => v = n
      /\ ~Begun => v # n
      /\ MaxVersions > 0 /\ n >= MaxVersions + Len(excess)
  BY <1>1, <1>2, VictimFacts
<1>4. n >= 2 /\ MaxVersions \in Nat /\ n - 1 >= MaxVersions + (Len(excess) - 1)
  BY <1>3, DumpAssumption
<1>5. /\ excess' \in Seq(Nat \ {0}) /\ Len(excess') = Len(excess) - 1
      /\ \A i \in 1..Len(excess') : i + 1 \in 1..Len(excess) /\ excess'[i] = excess[i + 1]
  <2>1. /\ Tail(excess) \in Seq(Nat \ {0}) /\ Len(Tail(excess)) = Len(excess) - 1
        /\ \A i \in 1..Len(Tail(excess)) : Tail(excess)[i] = excess[i + 1]
    BY <1>2, <1>3, HeadTailProperties
  <2> QED BY <1>2, <1>3, <2>1
<1>6. \A i, j \in 1..Len(excess') : excess'[i] = excess'[j] => i = j
  <2> SUFFICES ASSUME NEW i \in 1..Len(excess'), NEW j \in 1..Len(excess'),
                      excess'[i] = excess'[j]
               PROVE  i = j
    OBVIOUS
  <2>1. i + 1 = j + 1
    BY <1>1, <1>5 DEF Order, Named
  <2> QED BY <2>1
<1>12. ASSUME NEW i \in 1..Len(excess') PROVE \E k \in 1..n : disk[k].ver = excess'[i]
  <2>1. i + 1 \in 1..Len(excess) /\ excess'[i] = excess[i + 1]
    BY <1>5
  <2>2. \E k \in 1..n : disk[k].ver = excess[i + 1]
    BY <1>1, <2>1 DEF Order, Named
  <2> QED BY <2>1, <2>2
<1>7. \A i \in 1..Len(excess') : excess'[i] # excess[1]
  <2> SUFFICES ASSUME NEW i \in 1..Len(excess') PROVE excess'[i] # excess[1]
    OBVIOUS
  <2>1. i + 1 # 1 /\ 1 \in 1..Len(excess)
    BY <1>3
  <2> QED BY <1>1, <1>5, <2>1 DEF Order, Named
<1> HIDE DEF v
<1>8. CASE disk' = RemoveAt(disk, v) /\ UNCHANGED <<faults, torn>>
  <2>1. /\ disk' \in Seq(Dir) /\ m = n - 1
        /\ \A j \in 1..m : disk'[j] = IF j < v THEN disk[j] ELSE disk[j + 1]
    BY <1>3, <1>8, RemoveAtProperties
  <2>2. m >= 1 /\ m \in Nat /\ disk' # <<>>
    BY <1>4, <2>1, EmptySeq
  <2> DEFINE from == [j \in 1..m |-> IF j < v THEN j ELSE j + 1]
  <2>3. /\ \A j \in 1..m : from[j] \in 1..n /\ disk'[j] = disk[from[j]]
        /\ \A i, j \in 1..m : from[i] = from[j] => i = j
        /\ \A i, j \in 1..m : i < j => from[i] < from[j]
        /\ \A i \in 1..n : i # v => \E j \in 1..m : from[j] = i
    <3>1. \A j \in 1..m : from[j] \in 1..n /\ disk'[j] = disk[from[j]]
      BY <1>3, <2>1
    <3>2. \A i, j \in 1..m : from[i] = from[j] => i = j
      BY <1>3
    <3>3. \A i, j \in 1..m : i < j => from[i] < from[j]
      BY <1>3
    <3>4. ASSUME NEW i \in 1..n, i # v PROVE \E j \in 1..m : from[j] = i
      <4>1. CASE i < v
        <5>1. i \in 1..m /\ from[i] = i
          BY <1>3, <2>1, <4>1
        <5> QED BY <5>1
      <4>2. CASE i > v
        <5>1. i - 1 \in 1..m /\ from[i - 1] = i
          BY <1>3, <2>1, <4>2
        <5> QED BY <5>1
      <4> QED BY <1>3, <3>4, <4>1, <4>2
    <3> QED BY <3>1, <3>2, <3>3, <3>4
  <2> HIDE DEF from
  <2>4. m \in 1..m /\ disk'[m] = disk[Top]
    <3>1. CASE Begun
      <4>1. Top = n - 1 /\ v = n
        BY <1>3, <3>1 DEF Top
      <4> QED BY <1>3, <2>1, <2>2, <4>1
    <3>2. CASE ~Begun
      <4>1. Top = n /\ v < n
        BY <1>3, <3>2 DEF Top
      <4>2. ~(m < v) /\ m + 1 = n
        BY <1>3, <2>1, <4>1
      <4> QED BY <2>1, <2>2, <4>1, <4>2
    <3> QED BY <3>1, <3>2
  <2>5. faults = 0 \/ ~torn =>
          ~Begun' /\ \A i \in 1..Len(excess') : excess'[i] # disk'[m].ver
    BY <1>1, <1>2, <1>3, <2>2, <2>4, NextIsOlder
  <2>6. faults = 0 \/ ~torn => Top' = m /\ disk'[Top'] = disk[Top]
    BY <2>4, <2>5 DEF Top
  <2>7. TypeOK' /\ Control' /\ Dumping' /\ JustLoaded'
    BY <1>1, <1>5, <1>8, <2>1, RotatesKeeps DEF TypeOK, DumpTypeOK
  <2>8. Named'
    <3>1. ASSUME NEW i \in 1..m, NEW j \in 1..m, disk'[i].ver = disk'[j].ver
          PROVE  i = j
      <4>1. from[i] \in 1..n /\ from[j] \in 1..n /\ disk[from[i]].ver = disk[from[j]].ver
        BY <2>3, <3>1
      <4>2. from[i] = from[j]
        BY <1>1, <4>1 DEF Order, Named
      <4> QED BY <2>3, <4>2
    <3>2. ASSUME NEW i \in 1..Len(excess') PROVE \E j \in 1..m : disk'[j].ver = excess'[i]
      <4>1. PICK k \in 1..n : disk[k].ver = excess'[i]
        BY <1>12
      <4>2. k # v
        BY <1>3, <1>7, <4>1
      <4> QED BY <2>3, <4>1, <4>2
    <3> QED BY <1>6, <3>1, <3>2 DEF Named
  <2>9. Room'
    BY <1>3, <1>4, <1>5, <2>1 DEF Room
  <2>10. Kept'
    BY <1>8, <2>5, <2>6 DEF Kept
  <2>11. Ordered'
    <3> SUFFICES ASSUME ~torn, NEW i \in 1..m, NEW j \in 1..m, i < j
                 PROVE  disk'[i].ver < disk'[j].ver
      BY <1>8, <2>5, <2>6 DEF Ordered
    <3>1. /\ from[i] < from[j] /\ from[i] \in 1..n /\ from[j] \in 1..n
          /\ disk'[i] = disk[from[i]] /\ disk'[j] = disk[from[j]]
      BY <2>3
    <3>2. from[i] \in 1..Top /\ from[j] \in 1..Top
      <4>1. CASE Begun
        <5>1. Top = n - 1 /\ v = n
          BY <1>3, <4>1 DEF Top
        <5>2. i < v /\ j < v
          BY <1>3, <2>1, <5>1
        <5>3. from[i] = i /\ from[j] = j
          BY <5>2 DEF from
        <5> QED BY <1>3, <2>1, <5>1, <5>3
      <4>2. CASE ~Begun
        BY <3>1, <4>2 DEF Top
      <4> QED BY <4>1, <4>2
    <3> QED BY <1>1, <3>1, <3>2 DEF Order, Ordered
  <2>12. WholeDirs'
    BY <1>1, <2>3 DEF Dumps, WholeDirs
  <2>13. IsDumped'
    BY <1>1, <1>8, <2>2, <2>6 DEF Rotates, Dumps, IsDumped
  <2>14. NewestIsComplete'
    <3>1. disk # <<>>
      BY <1>3
    <3> QED BY <1>1, <1>2, <1>8, <2>6, <3>1 DEF Dumps, NewestIsComplete, Records
  <2>15. Survives'
    <3>1. m >= MaxVersions
      BY <1>3, <1>4, <2>1
    <3> QED BY <1>3, <3>1 DEF Survives
  <2> QED BY <2>7, <2>8, <2>9, <2>10, <2>11, <2>12, <2>13, <2>14, <2>15
          DEF IInv, Order, Dumps
<1>9. CASE Fault /\ torn' = (torn \/ Begun) /\ UNCHANGED disk
  <2>1. faults' # 0 /\ faults' \in 0..MaxFaults
    BY <1>1, <1>9, Faulty
  <2>2. torn' \in BOOLEAN
    <3>1. (torn \/ Begun) \in BOOLEAN
      BY <1>1 DEF Begun
    <3> QED BY <1>9, <3>1, Zenon
  <2>3. TypeOK' /\ Control' /\ Dumping' /\ JustLoaded'
    <3>1. disk' \in Seq(Dir) /\ excess' \in Seq(Nat \ {0})
      BY <1>3, <1>5, <1>9
    <3> QED BY <1>1, <2>1, <2>2, <3>1, RotatesKeeps
  <2>4. ~torn' => ~torn /\ Top = n /\ disk' # <<>> /\ disk'[Len(disk')] = disk[Top]
    <3>1. disk' = disk /\ disk # <<>>
      BY <1>3, <1>9
    <3>2. ~torn' => ~torn /\ ~Begun
      BY <1>9
    <3> QED BY <3>1, <3>2 DEF Top
  <2>5. ~torn' => ~Begun' /\ \A i \in 1..Len(excess') : excess'[i] # disk'[Len(disk')].ver
    BY <1>1, <1>2, <1>3, <2>4, NextIsOlder
  <2>6. ~torn' => Top' = n
    BY <1>9, <2>5 DEF Top
  <2>7. Named'
    <3>1. disk' = disk
      BY <1>9
    <3>2. \A i \in 1..Len(excess') : \E k \in 1..Len(disk') : disk'[k].ver = excess'[i]
      BY <1>12, <3>1
    <3> QED BY <1>1, <1>6, <3>1, <3>2 DEF Order, Named
  <2>8. Room'
    BY <1>3, <1>4, <1>5, <1>9 DEF Room
  <2>9. Kept'
    BY <1>9, <2>1, <2>5, <2>6 DEF Kept
  <2>10. Ordered'
    BY <1>1, <1>9, <2>4, <2>5, <2>6 DEF Order, Ordered
  <2>11. WholeDirs' /\ Survives'
    BY <1>1, <1>2, <1>9 DEF Dumps, WholeDirs, Survives
  <2>12. IsDumped'
    BY <2>1 DEF IsDumped
  <2>13. NewestIsComplete'
    BY <1>1, <1>2, <1>9, <2>4, <2>6 DEF Dumps, NewestIsComplete, Records
  <2> QED BY <2>3, <2>7, <2>8, <2>9, <2>10, <2>11, <2>12, <2>13 DEF IInv, Order, Dumps
<1>10. \/ disk' = RemoveAt(disk, v) /\ UNCHANGED <<faults, torn>>
       \/ Fault /\ torn' = (torn \/ Begun) /\ UNCHANGED disk
  BY DEF RemoveDir, v
<1> QED
  BY <1>8, <1>9, <1>10

LEMMA RotateKeeps ==
    ASSUME IInv, Rotate
    PROVE  IInv'
<1>1. app = "rotate" /\ UNCHANGED <<main, serve, shut, ctxDone, handler, enabled, graceful, skipped, starts>>
  BY DEF Rotate
<1>2. CASE RemoveFiles /\ UNCHANGED app
  BY <1>1, <1>2, RemoveFilesKeeps DEF Rotates, RemoveFiles
<1>3. CASE RemoveDir /\ UNCHANGED app
  BY <1>1, <1>3, RemoveDirKeeps DEF Rotates, RemoveDir
<1>4. CASE excess = <<>> /\ app' = "closed" /\ UNCHANGED <<cache, dumper>>
  <2>1. TypeOK /\ Control /\ Order /\ Dumps
    BY DEF IInv
  <2>2. TypeOK'
    BY <1>1, <1>4, <2>1 DEF TypeOK, DumpTypeOK, dumper
  <2>3. Control'
    BY <1>1, <1>4, <2>1 DEF Control, dumper
  <2>4. Order'
    BY <1>4, <2>1, QuietKeepsOrder
  <2>5. JustLoaded'
    BY <1>4 DEF JustLoaded, Loaded
  <2>6. Dumps'
    BY <1>1, <1>4, <2>1, <2>5, QuietKeepsDumps DEF Finishing
  <2> QED BY <2>2, <2>3, <2>4, <2>6 DEF IInv
<1> QED
  BY <1>1, <1>2, <1>3, <1>4 DEF Rotate

-----------------------------------------------------------------------------
(* The theorems.                                                           *)

LEMMA Stutters ==
    ASSUME IInv, UNCHANGED vars
    PROVE  IInv'
<1>1. UNCHANGED <<cache, dumper, main, app, serve, shut, ctxDone, handler, enabled, graceful, skipped, starts>>
  BY DEF vars, process
<1>2. TypeOK /\ Control /\ Order /\ Dumps
  BY DEF IInv
<1>3. TypeOK'
  BY <1>1, <1>2 DEF TypeOK, DumpTypeOK, dumper
<1>4. Control'
  BY <1>1, <1>2 DEF Control, dumper
<1>5. Order'
  BY <1>1, <1>2, QuietKeepsOrder
<1>6. JustLoaded'
  BY <1>1, <1>2, StaysLoaded DEF Loaded, dumper
<1>7. Dumps'
  BY <1>1, <1>2, <1>6, QuietKeepsDumps DEF Finishing
<1> QED
  BY <1>3, <1>4, <1>5, <1>7 DEF IInv

LEMMA NextKeeps ==
    ASSUME IInv, [Next]_vars
    PROVE  IInv'
<1>1. CASE Start
  BY <1>1, StartKeeps
<1>2. CASE Refused
  BY <1>2, EndsKeeps DEF Refused
<1>3. CASE Success
  BY <1>3, EndsKeeps DEF Success
<1>4. CASE Timeout
  BY <1>4, EndsKeeps DEF Timeout
<1>5. CASE Killed
  BY <1>5, EndsKeeps DEF Killed
<1>6. CASE Close
  BY <1>6, CloseKeeps
<1>7. CASE \E s \in Shard : DumpShard(s)
  BY <1>7, DumpShardKeeps
<1>8. CASE Dumped
  BY <1>8, DumpedKeeps
<1>9. CASE Rotate
  BY <1>9, RotateKeeps
<1>10. CASE QuietNext
  BY <1>10, QuietKeeps
<1>11. CASE UNCHANGED vars
  BY <1>11, Stutters
<1> QED
  BY <1>1, <1>2, <1>3, <1>4, <1>5, <1>6, <1>7, <1>8, <1>9, <1>10, <1>11
  DEF Next, QuietNext

\* Types, control, order of the versions and what they hold are kept by every
\* step of the process, by its end and by its next start.
THEOREM Invariance == Spec => []IInv
<1>1. Init => IInv
  BY Initially
<1>2. IInv /\ [Next]_vars => IInv'
  BY NextKeeps
<1> QED
  BY <1>1, <1>2, PTL DEF Spec

\* The state of the process and of the disk keeps its types through every
\* crash, failed dump and rotation (cmd/main.go, pkg/storage/lru/dumper.go).
THEOREM AppTypeCorrect == Spec => []TypeOK
<1>1. IInv => TypeOK
  BY DEF IInv
<1> QED
  BY <1>1, Invariance, PTL

\* Version numbers follow the times of modification as long as no removal has
\* stopped halfway: rotateVersionDirs and getLatestVersionDir, which go by the
\* time, and nextVersionDir, which goes by the name, mean the same version.
THEOREM VersionsAlwaysGrow == Spec => []VersionsGrow
<1>1. IInv => VersionsGrow
  BY DEF IInv, Order, Ordered, VersionsGrow, Top
<1> QED
  BY <1>1, Invariance, PTL

\* Whatever requests, evictions and timeouts come in between, a process that
\* says it was shut down gracefully, had no failing file operation and did not
\* find the cache switched off when it closed, left a newest version with every
\* shard complete in it (main.go, App.Start, Storage.Close, GET /cache/off).
THEOREM GracefulIsDumped == Spec => []GracefulMeansDumped
<1>1. IInv => GracefulMeansDumped
  <2> SUFFICES ASSUME IInv, graceful, main = "down", faults = 0, ~skipped
               PROVE  disk # <<>> /\ Last(disk).whole
    BY DEF GracefulMeansDumped
  <2>1. excess = <<>>
    BY DEF IInv, Control
  <2>2. Top = Len(disk)
    BY <2>1 DEF Top, Begun
  <2> QED BY <2>2 DEF IInv, Dumps, IsDumped, Last
<1> QED
  BY <1>1, Invariance, PTL

\* A process that starts after a complete dump restores only its entries, neither
\* older ones nor those of a dump that was cut short; and all of them, unless
\* what it restored fills memory to the threshold of the evictor, from where on
\* admission refuses entries (dumper.go load, Storage.Set).
THEOREM LastDumpIsRestored == Spec => []RestoresLastDump
<1>1. IInv => RestoresLastDump
  <2> SUFFICES ASSUME IInv, Loaded, ~torn, NEW i \in DOMAIN disk,
                      disk[i].ver = Newest, disk[i].whole
               PROVE  cache = complete \/ (cache \subseteq complete /\ cache \in Full)
    BY DEF RestoresLastDump
  <2> DEFINE n == Len(disk)
  <2>1. /\ disk \in Seq(Dir) /\ n \in Nat /\ i \in 1..n
        /\ \A j \in 1..n : disk[j] \in Dir
    BY LenProperties, ElementOfSeq DEF IInv, TypeOK, DumpTypeOK
  <2>2. excess = <<>>
    BY DEF IInv, Control, Loaded
  <2>3. ~Begun /\ Top = n
    BY <2>2 DEF Begun, Top
  <2>4. n \in 1..n /\ disk # <<>>
    BY <2>1
  <2>5. disk[n].ver <= Newest /\ Newest \in Nat
    BY <2>1, <2>4, NewestIsGreatest
  <2>6. disk[i].ver \in Nat /\ disk[n].ver \in Nat
    BY <2>1, <2>4 DEF Dir
  <2>7. i = n
    <3>1. i < n => disk[i].ver < disk[n].ver
      BY <2>1, <2>3, <2>4 DEF IInv, Order, Ordered
    <3> QED BY <2>1, <2>5, <2>6, <3>1
  <2>8. disk[n].tmp = NoFiles
    BY <2>4, <2>7 DEF IInv, Dumps, WholeDirs
  <2>9. Selected(disk[n]) = disk[n].file /\ Readable(disk[n])
    BY <2>8 DEF Selected, Readable, NoFiles
  <2>10. cache \in Restored(disk[n])
    BY <2>4 DEF IInv, Dumps, JustLoaded, getLatestVersionDir, Last
  <2>11. complete = Records(disk[n].file)
    BY <2>3, <2>4, <2>7 DEF IInv, Dumps, NewestIsComplete
  <2> QED BY <2>9, <2>10, <2>11 DEF Restored
<1> QED
  BY <1>1, Invariance, PTL

\* Rotation goes by age and not by content, and still takes the last complete
\* dump only when as many newer versions as are to be kept are on disk.
THEOREM CompleteDumpSurvives == Spec => []CompleteSurvivesRotation
<1>1. IInv => CompleteSurvivesRotation
  BY DEF IInv, Dumps, Survives, CompleteSurvivesRotation
<1> QED
  BY <1>1, Invariance, PTL
===============================================================================
