--------------------------------- MODULE Dump ---------------------------------
(***************************************************************************)
(* The dumper of pkg/storage/lru: the version directories on disk, the     *)
(* goroutines that write one file per shard, the rotation and the load.    *)
(*                                                                         *)
(* disk is the version directories, the least recently modified first: a   *)
(* directory is only written between its creation and the next one, so the *)
(* order of creation is the order of modification, but for one that is     *)
(* being removed: that modifies it.  A file is the set of entries whose    *)
(* records are complete in it.                                             *)
(***************************************************************************)
EXTENDS Integers, Sequences, FiniteSets, SequencesExt

CONSTANTS
    Nil,
    Key,          \* what the cache may hold
    Shard,
    ShardOf,      \* ShardOf[k]
    MaxVersions,  \* data.dump.max_versions; 0: no rotation
    Gzip,         \* data.dump.gzip
    Full,         \* the caches that fill memory to the evictor's threshold
    MaxFaults     \* bound: file operations that fail in one process

ASSUME DumpAssumption ==
    /\ ShardOf \in [Key -> Shard]
    /\ MaxVersions \in Nat /\ MaxFaults \in Nat
    /\ Gzip \in BOOLEAN
    /\ Full \subseteq SUBSET Key
    /\ \A S \in Full, T \in SUBSET Key : S \subseteq T => T \in Full
    /\ \A S \in SUBSET Key : Nil # S

VARIABLES
    cache,     \* the entries in the storage
    disk,      \* the version directories
    job,       \* job[s]: the next step of the goroutine that dumps shard s
    seen,      \* seen[s]: what the dump found in shard s
    excess,    \* the versions that the rotation has yet to remove
    faults,    \* history: file operations that failed in this process
    complete,  \* history: what the last complete dump holds, or Nil
    torn       \* history: was a removal given up halfway?

dumper == <<disk, job, seen, excess, faults, complete, torn>>

Files == [Shard -> (SUBSET Key) \cup {Nil}]
\* whole: has each shard's file all its records?  Not known to the code.
Dir == [ver : Nat \ {0}, file : Files, tmp : Files, whole : BOOLEAN]

DumpTypeOK ==
    /\ cache \subseteq Key
    /\ disk \in Seq(Dir)
    /\ job \in [Shard -> {"none", "create", "write", "rename", "done"}]
    /\ seen \in [Shard -> SUBSET Key]
    /\ excess \in Seq(Nat \ {0})
    /\ faults \in 0..MaxFaults
    /\ complete \in (SUBSET Key) \cup {Nil}
    /\ torn \in BOOLEAN

NoFiles == [s \in Shard |-> Nil]

\* The disk is empty, or an earlier process has left a complete dump.
Inherited ==
    \/ disk = <<>> /\ complete = Nil
    \/ \E S \in SUBSET Key :
        /\ complete = S
        /\ disk = <<[ver   |-> 1,
                    file  |-> [s \in Shard |-> {k \in S : ShardOf[k] = s}],
                    tmp   |-> NoFiles,
                    whole |-> TRUE]>>

DumpInit ==
    /\ cache = {}
    /\ Inherited
    /\ job = [s \in Shard |-> "none"]
    /\ seen = [s \in Shard |-> {}]
    /\ excess = <<>>
    /\ faults = 0 /\ torn = FALSE

Content(s) == {k \in cache : ShardOf[k] = s}

-----------------------------------------------------------------------------
\* Mutation: the lowest version instead of the highest.
VersionAfterOldest == IF disk = <<>> THEN 1 ELSE Head(disk).ver + 1

\* Mutation: versions are counted from 0.
VersionFromZero == Max({-1} \cup {disk[i].ver : i \in DOMAIN disk}) + 1

Newest == Max({0} \cup {disk[i].ver : i \in DOMAIN disk})

nextVersionDir == Newest + 1

\* Dump up to WalkShards.
DumpStarts ==
    /\ disk' = Append(disk, [ver |-> nextVersionDir, file |-> NoFiles,
                             tmp |-> NoFiles, whole |-> FALSE])
    /\ job' = [s \in Shard |-> "create"]
    /\ UNCHANGED <<cache, seen, excess, faults, complete, torn>>

Fault == faults < MaxFaults /\ faults' = faults + 1

\* A directory cannot be made: Dump returns the error.
DumpRefused == Fault /\ UNCHANGED <<cache, disk, job, seen, excess, complete, torn>>

Goes(s, from, to) == job[s] = from /\ job' = [job EXCEPT ![s] = to]

\* The directory that is being written is the last one.
InDir(s, file, tmp) ==
    disk' = [disk EXCEPT ![Len(disk)].file[s] = file, ![Len(disk)].tmp[s] = tmp]

Create(s) ==
    /\ Goes(s, "create", "write")
    /\ InDir(s, Nil, {})
    /\ UNCHANGED <<cache, seen, excess, faults, complete, torn>>

CreateFails(s) ==
    /\ Fault /\ Goes(s, "create", "done")
    /\ UNCHANGED <<cache, disk, seen, excess, complete, torn>>

\* The shard is walked under its lock, the buffer flushed and the file closed.
Write(s) ==
    /\ Goes(s, "write", "rename")
    /\ InDir(s, Nil, Content(s))
    /\ seen' = [seen EXCEPT ![s] = Content(s)]
    /\ UNCHANGED <<cache, excess, faults, complete, torn>>

\* The disk is full.  Errors of Write are counted, those of Flush and Close are
\* not; the count only decides what Dump returns, and that is only logged.
WriteFails(s) ==
    /\ Fault /\ Goes(s, "write", "rename")
    /\ \E written \in SUBSET Content(s) :
        written # Content(s) /\ InDir(s, Nil, written)
    /\ seen' = [seen EXCEPT ![s] = Content(s)]
    /\ UNCHANGED <<cache, excess, complete, torn>>

\* The file gets its final name whatever happened to its content.
Rename(s) ==
    /\ Goes(s, "rename", "done")
    /\ \/ InDir(s, Last(disk).tmp[s], Nil) /\ UNCHANGED faults
       \/ Fault /\ UNCHANGED disk
    /\ UNCHANGED <<cache, seen, excess, complete, torn>>

\* Mutation: one version too few is kept.
KeepOneLess(max) ==
    [i \in 1..(IF Len(disk) < max THEN 0 ELSE Len(disk) - max + 1) |-> disk[i].ver]

\* The versions to remove: all but the max most recently modified ones.
rotateVersionDirs(max) ==
    [i \in 1..(IF Len(disk) < max THEN 0 ELSE Len(disk) - max) |-> disk[i].ver]

Whole(dir) == \A s \in Shard : dir.file[s] = seen[s]

\* All shards are done: old versions are to go, whatever failures there were.
DumpEnds ==
    /\ \A s \in Shard : job[s] = "done"
    /\ disk' = [disk EXCEPT ![Len(disk)].whole = Whole(Last(disk))]
    /\ complete' = IF Whole(Last(disk)) THEN UNION {seen[s] : s \in Shard} ELSE complete
    /\ excess' = IF MaxVersions > 0 THEN rotateVersionDirs(MaxVersions) ELSE <<>>
    /\ job' = [s \in Shard |-> "none"]
    /\ seen' = [s \in Shard |-> {}]
    /\ UNCHANGED <<cache, faults, torn>>

Victim == CHOOSE i \in DOMAIN disk : disk[i].ver = Head(excess)
HasFiles(dir) == dir.file # NoFiles \/ dir.tmp # NoFiles

\* A removal that has begun made its directory the last one modified.
Begun == excess # <<>> /\ Last(disk).ver = Head(excess)

\* RemoveAll: some files of the directory are gone.
RemoveFiles ==
    /\ excess # <<>> /\ ~Begun
    /\ HasFiles(disk[Victim])
    /\ \E S \in SUBSET Shard :
        LET dir  == disk[Victim]
            Kept(f) == [s \in Shard |-> IF s \in S THEN f[s] ELSE Nil]
            left == [dir EXCEPT !.file = Kept(@), !.tmp = Kept(@), !.whole = FALSE]
        IN  /\ left.file # dir.file \/ left.tmp # dir.tmp
            /\ disk' = Append(RemoveAt(disk, Victim), left)
    /\ UNCHANGED <<cache, job, seen, excess, faults, complete, torn>>

\* The directory goes, or stays when a file operation has failed.
RemoveDir ==
    /\ excess # <<>>
    /\ Begun \/ ~HasFiles(disk[Victim])
    /\ \/ disk' = RemoveAt(disk, Victim) /\ UNCHANGED <<faults, torn>>
       \/ Fault /\ torn' = (torn \/ Begun) /\ UNCHANGED disk
    /\ excess' = Tail(excess)
    /\ UNCHANGED <<cache, job, seen, complete>>

\* The process ends.  Of a file that was being written any part is on disk.
Dies ==
    /\ LET writing == {s \in Shard : job[s] = "write"}
       IN  \/ writing = {} /\ UNCHANGED disk
          \/ /\ writing # {}
             /\ \E written \in [writing -> SUBSET cache] :
                 /\ \A s \in writing : written[s] \subseteq Content(s)
                 /\ disk' = [disk EXCEPT ![Len(disk)].tmp =
                              [s \in Shard |-> IF s \in writing THEN written[s] ELSE @[s]]]
    /\ cache' = {}
    /\ job' = [s \in Shard |-> "none"]
    /\ seen' = [s \in Shard |-> {}]
    /\ torn' = (torn \/ Begun)
    /\ excess' = <<>>
    /\ UNCHANGED <<faults, complete>>

-----------------------------------------------------------------------------
(* load.                                                                   *)

\* extractLatestTimestamp and filterFilesByTimestamp: all files of a directory
\* have one timestamp T, but what is compared is "T" for a complete file and
\* "T.dump.tmp" for another, and the larger one selects the files.
Selected(dir) == IF \E s \in Shard : dir.tmp[s] # Nil THEN dir.tmp ELSE dir.file

\* The reader unzips only names that end in .gz.
Readable(dir) == ~(Gzip /\ Selected(dir) = dir.tmp /\ dir.tmp # NoFiles)

Records(files) == UNION {files[s] : s \in {t \in Shard : files[t] # Nil}}

\* Mutation: the version that was modified first.
OldestVersionDir == disk[1]

getLatestVersionDir == Last(disk)

\* What a load may leave in the cache, which is empty before it: what cannot be
\* read is counted and skipped, and the rest is handed to the storage's Set.
\* From the entry on that fills memory, admission may refuse any; nothing is
\* evicted yet, and the records of a version have different map keys, so that
\* none replaces another.
Restored(dir) ==
    LET records == IF Readable(dir) THEN Records(Selected(dir)) ELSE {}
    IN  {records} \cup {S \in Full : S \subseteq records}

\* Load before anything else runs.
Load ==
    /\ cache' \in IF disk = <<>> THEN {{}} ELSE Restored(getLatestVersionDir)
    /\ UNCHANGED dumper

\* LoadVersion: the version the user selects.
LoadVersion(i) ==
    /\ cache' \in Restored(disk[i])
    /\ UNCHANGED dumper
===============================================================================
