--------------------------- MODULE CacheFileProofs ---------------------------
(***************************************************************************)
(* Proofs about the cache file protocol, for any number of processes and   *)
(* commands, with and without faults.                                      *)
(***************************************************************************)
EXTENDS CacheFile, TLAPS

Ready(file, step) ==
    /\ step = "sync" => file.written
    /\ step \in {"persist", "backup", "backupOut", "out", "removeStale", "restore",
                 "stage", "fresh", "replace"} => file.written /\ file.synced

Steps == IF platform = "posix" THEN PosixSteps ELSE WindowsSteps

(* What FilesAreWhole says of one directory. *)
Whole(d, last) ==
    /\ \A n \in Names : Exists(d, n) => d[n].written /\ d[n].synced
    /\ \A n \in Names : d[n].number <= last
    /\ Exists(d, "out") /\ Exists(d, "backup") => d["backup"].number < d["out"].number

LEMMA WholeBoth == FilesAreWhole <=> Whole(cache, installs) /\ Whole(disk, installs)
BY DEF FilesAreWhole, Whole

LEMMA NothingTyped == Nothing \in Files /\ Nothing.number = 0
BY DEF Nothing, Files

LEMMA OnePlatform ==
    ASSUME TypeOK
    PROVE  platform \in {"posix", "windows"}
BY CacheAssumption DEF TypeOK

(* A step of one process: what it must respect at its own place and in the
   directory for the invariant to hold after it. *)
StepOf(p, s) ==
    /\ pc[p] # "idle" /\ pc' = [pc EXCEPT ![p] = s] /\ s \in Steps
    /\ UNCHANGED <<platform, before>>
    /\ temp' \in [Processes -> Files] /\ \A q \in Processes \ {p} : temp'[q] = temp[q]
    /\ Ready(temp'[p], s)
    /\ lints' \in [Processes -> BOOLEAN]
    /\ result' \in [Processes -> {"none", "ok", "error"}]
    /\ runs' \in Nat
    /\ loaded' \in [Processes -> {"none", "baseline", "unavailable", "error"}]
    /\ \A q \in Processes \ {p} : loaded'[q] = loaded[q]
    /\ \/ loaded' = loaded
       \/ platform = "posix" /\ Exists(before[p], "out") => loaded'[p] \notin {"unavailable", "error"}

(* How such a step may change the directory. *)
FilesMay(s) ==
    /\ cache' \in [Names -> Files] /\ disk' \in [Names -> Files]
    /\ installs' \in Nat /\ acked' \in Nat
    /\ Whole(cache', installs') /\ Whole(disk', installs')
    /\ platform = "posix" =>
           /\ acked' <= disk'["out"].number /\ disk'["out"].number <= cache'["out"].number
           /\ Exists(cache, "out") => Exists(cache', "out")
    /\ platform \notin Shared =>
           /\ s \in {"removeStale", "removeBackup"} => Exists(cache', "out")
           /\ Present(cache) => Present(cache')

LEMMA StepCacheInv ==
    ASSUME CacheInv, NEW p \in Processes, NEW s, StepOf(p, s), FilesMay(s)
    PROVE  CacheInv'
<1> USE DEF CacheInv
<1>1. TypeOK /\ platform' = platform /\ before' = before /\ pc \in [Processes -> Steps]
      /\ pc' \in [Processes -> Steps] /\ pc'[p] = s
      /\ \A q \in Processes \ {p} : pc'[q] = pc[q]
  BY DEF StepOf, TypeOK, Steps
<1>2. TypeOK'
  BY <1>1 DEF StepOf, FilesMay, TypeOK, Steps
<1>3. TempIsReady'
  <2> SUFFICES ASSUME NEW q \in Processes PROVE Ready(temp'[q], pc'[q])
    BY DEF TempIsReady, Ready
  <2>1. CASE q = p
    BY <1>1, <2>1 DEF StepOf
  <2>2. CASE q # p
    BY <1>1, <2>2 DEF StepOf, TempIsReady, Ready
  <2>3. QED
    BY <2>1, <2>2
<1>4. FilesAreWhole'
  BY DEF FilesMay, FilesAreWhole, Whole
<1>5. PosixInv'
  <2> SUFFICES ASSUME platform = "posix" PROVE PosixInv'
    BY <1>1 DEF PosixInv
  <2>1. acked' <= disk'["out"].number /\ disk'["out"].number <= cache'["out"].number
        /\ (Exists(cache, "out") => Exists(cache', "out"))
    BY DEF FilesMay
  <2>2. ASSUME NEW q \in Processes, pc'[q] # "idle", Exists(before[q], "out")
        PROVE  Exists(cache', "out")
    <3>1. pc[q] # "idle"
      BY <1>1, <2>2 DEF StepOf
    <3>2. QED
      BY <2>1, <2>2, <3>1 DEF PosixInv
  <2>3. QED
    BY <1>1, <2>1, <2>2 DEF PosixInv
<1>6. SerialInv'
  <2> SUFFICES ASSUME platform \notin Shared PROVE SerialInv'
    BY <1>1 DEF SerialInv
  <2>1. \A q \in Processes : pc[q] # "idle" => q = p
    BY DEF SerialInv, StepOf
  <2>2. \A q \in Processes : pc'[q] # "idle" => q = p
    BY <1>1, <2>1
  <2>3. Present(before[p]) => Present(cache')
    BY DEF SerialInv, StepOf, FilesMay
  <2>4. s \in {"removeStale", "removeBackup"} => Exists(cache', "out")
    BY DEF FilesMay
  <2>5. ASSUME NEW q \in Processes
        PROVE  /\ pc'[q] \in {"removeStale", "removeBackup"} => Exists(cache', "out")
               /\ pc'[q] # "idle" /\ Present(before'[q]) => Present(cache')
    BY <1>1, <2>2, <2>3, <2>4
  <2>6. QED
    BY <1>1, <2>2, <2>5 DEF SerialInv
<1>7. LintFindsCache'
  <2> SUFFICES ASSUME platform = "posix", NEW q \in Processes,
                      loaded'[q] \in {"unavailable", "error"}
               PROVE  ~Exists(before[q], "out")
    BY <1>1 DEF LintFindsCache
  <2>1. CASE q # p \/ loaded' = loaded
    <3>1. loaded[q] \in {"unavailable", "error"}
      BY <2>1 DEF StepOf
    <3>2. QED
      BY <3>1 DEF LintFindsCache
  <2>2. CASE q = p /\ loaded' # loaded
    BY <2>2 DEF StepOf
  <2>3. QED
    BY <2>1, <2>2
<1>8. QED
  BY <1>2, <1>3, <1>4, <1>5, <1>6, <1>7

LEMMA FilesSame ==
    ASSUME CacheInv, UNCHANGED <<cache, disk, installs, acked>>, NEW s,
           platform \notin Shared /\ s \in {"removeStale", "removeBackup"} => Exists(cache, "out")
    PROVE  FilesMay(s)
BY WholeBoth DEF CacheInv, TypeOK, PosixInv, FilesMay

(* A look at a path, or a step of the preparation. *)
LEMMA ProceedInv ==
    ASSUME CacheInv, NEW p \in Processes, NEW from, NEW s, UNCHANGED platform,
           Proceed(p, from, s), from # "idle", s \in Steps, Ready(temp[p], s),
           platform \notin Shared /\ s \in {"removeStale", "removeBackup"} => Exists(cache, "out")
    PROVE  CacheInv'
<1>1. /\ pc[p] = from /\ pc' = [pc EXCEPT ![p] = s]
      /\ UNCHANGED <<cache, disk, temp, lints, result, loaded, runs, installs, acked, before>>
  BY DEF Proceed, Goto
<1>2. FilesMay(s)
  BY <1>1, FilesSame
<1>3. StepOf(p, s)
  BY <1>1 DEF StepOf, CacheInv, TypeOK
<1>4. QED
  BY <1>2, <1>3, StepCacheInv

(* The sync returns; what it did to the directory is apart. *)
LEMMA ReturnInv ==
    ASSUME CacheInv, NEW p \in Processes, NEW how \in {"ok", "error"}, Return(p, how),
           pc[p] # "idle", UNCHANGED <<platform, lints, loaded, runs, before>>,
           FilesMay(IF lints[p] THEN "prepare" ELSE "idle")
    PROVE  CacheInv'
<1> DEFINE s == IF lints[p] THEN "prepare" ELSE "idle"
<1>1. s \in {"prepare", "idle"} /\ s \in Steps
  BY DEF Steps, PosixSteps, WindowsSteps
<1>2. pc' = [pc EXCEPT ![p] = s] /\ result' = [result EXCEPT ![p] = how]
      /\ temp' = [temp EXCEPT ![p] = Nothing]
  BY DEF Return, Goto
<1> HIDE DEF s
<1>3. /\ temp' \in [Processes -> Files] /\ \A q \in Processes \ {p} : temp'[q] = temp[q]
      /\ result' \in [Processes -> {"none", "ok", "error"}]
  BY <1>2, NothingTyped DEF CacheInv, TypeOK
<1>4. Ready(temp'[p], s)
  BY <1>1 DEF Ready
<1>5. StepOf(p, s)
  BY <1>1, <1>2, <1>3, <1>4 DEF StepOf, CacheInv, TypeOK
<1>6. FilesMay(s)
  BY DEF s
<1>7. QED
  BY <1>5, <1>6, StepCacheInv

LEMMA FailInv ==
    ASSUME CacheInv, NEW p \in Processes, Fail(p), pc[p] # "idle", UNCHANGED platform
    PROVE  CacheInv'
<1>1. Return(p, "error")
      /\ UNCHANGED <<cache, disk, lints, loaded, runs, installs, acked, before>>
  BY DEF Fail
<1>2. FilesMay(IF lints[p] THEN "prepare" ELSE "idle")
  BY <1>1, FilesSame
<1>3. QED
  BY <1>1, <1>2, ReturnInv

(* write_cache up to the synchronized temporary file. *)
LEMMA WriteInv ==
    ASSUME CacheInv, NEW p \in Processes, WriteSteps(p), UNCHANGED platform
    PROVE  CacheInv'
<1> USE DEF CacheInv
<1>0. temp \in [Processes -> Files] /\ pc \in [Processes -> Steps]
      /\ {"create", "write", "sync"} \subseteq Steps
      /\ (IF platform = "windows" THEN "backup" ELSE "persist") \in Steps
  BY OnePlatform DEF TypeOK, Steps, PosixSteps, WindowsSteps
<1>1. CASE Populate(p)
  <2>1. Ready(temp[p], "create")
    BY DEF Ready
  <2>2. QED
    BY <1>0, <1>1, <2>1, ProceedInv DEF Populate
<1>2. CASE PopulateFails(p) \/ CreateTempFails(p) \/ WriteTempFails(p) \/ SyncTempFails(p)
  BY <1>2, FailInv DEF PopulateFails, CreateTempFails, WriteTempFails, SyncTempFails
<1>3. ASSUME NEW file \in Files, NEW s \in Steps, pc[p] # "idle",
             temp' = [temp EXCEPT ![p] = file], Goto(p, s), Ready(file, s),
             s \notin {"removeStale", "removeBackup"},
             UNCHANGED <<cache, disk, lints, result, loaded, runs, installs, acked, before>>
      PROVE  CacheInv'
  <2>1. FilesMay(s)
    BY <1>3, FilesSame
  <2>2. temp' \in [Processes -> Files] /\ temp'[p] = file
        /\ \A q \in Processes \ {p} : temp'[q] = temp[q]
    BY <1>0, <1>3
  <2>3. StepOf(p, s)
    BY <1>3, <2>2 DEF StepOf, TypeOK, Goto
  <2>4. QED
    BY <2>1, <2>3, StepCacheInv
<1>4. CASE CreateTemp(p)
  <2>1. Ready(Nothing, "write")
    BY DEF Ready
  <2>2. QED
    BY <1>0, <1>3, <1>4, <2>1, NothingTyped DEF CreateTemp
<1>5. CASE WriteTemp(p)
  <2> DEFINE file == [temp[p] EXCEPT !.written = TRUE]
  <2>1. temp[p] \in Files
    BY <1>0
  <2>2. file \in Files /\ file.written
    BY <2>1 DEF Files
  <2>3. temp' = [temp EXCEPT ![p] = file]
    BY <1>5 DEF WriteTemp
  <2> HIDE DEF file
  <2>4. Ready(file, "sync")
    BY <2>2 DEF Ready
  <2>5. QED
    BY <1>0, <1>3, <1>5, <2>2, <2>3, <2>4 DEF WriteTemp
<1>6. CASE SyncTemp(p)
  <2> DEFINE file == [temp[p] EXCEPT !.synced = TRUE]
             s == IF platform = "windows" THEN "backup" ELSE "persist"
  <2>1. temp[p] \in Files /\ temp[p].written
    BY <1>0, <1>6 DEF SyncTemp, TempIsReady
  <2>2. file \in Files /\ file.synced /\ file.written
    BY <2>1 DEF Files
  <2>3. temp' = [temp EXCEPT ![p] = file] /\ Goto(p, s)
    BY <1>6 DEF SyncTemp
  <2> HIDE DEF file
  <2>4. Ready(file, s) /\ s \in Steps /\ s \notin {"removeStale", "removeBackup"}
    BY <1>0, <2>2 DEF Ready
  <2> HIDE DEF s
  <2>5. QED
    BY <1>3, <1>6, <2>2, <2>3, <2>4 DEF SyncTemp
<1>7. QED
  BY <1>1, <1>2, <1>4, <1>5, <1>6 DEF WriteSteps

LEMMA LintInv ==
    ASSUME CacheInv, NEW p \in Processes, LintSteps(p), UNCHANGED platform
    PROVE  CacheInv'
<1> USE DEF CacheInv
<1>0. {"load", "idle"} \subseteq Steps
  BY DEF Steps, PosixSteps, WindowsSteps
<1>1. CASE CacheExists(p)
  <2>1. Ready(temp[p], "load")
    BY DEF Ready
  <2>2. QED
    BY <1>0, <1>1, <2>1, ProceedInv DEF CacheExists
<1>2. ASSUME NEW found \in {"baseline", "unavailable", "error"}, Ends(p, found), pc[p] # "idle",
             found # "baseline" /\ platform = "posix" => ~Exists(cache, "out")
      PROVE  CacheInv'
  <2>1. /\ loaded' = [loaded EXCEPT ![p] = found] /\ pc' = [pc EXCEPT ![p] = "idle"]
        /\ UNCHANGED <<cache, disk, temp, lints, result, runs, installs, acked, before>>
    BY <1>2 DEF Ends, Goto
  <2>2. /\ loaded' \in [Processes -> {"none", "baseline", "unavailable", "error"}]
        /\ loaded'[p] = found /\ \A q \in Processes \ {p} : loaded'[q] = loaded[q]
    BY <2>1 DEF TypeOK
  <2>3. platform = "posix" /\ Exists(before[p], "out") => found = "baseline"
    BY <1>2 DEF PosixInv
  <2>4. Ready(temp[p], "idle")
    BY DEF Ready
  <2>5. StepOf(p, "idle")
    BY <1>0, <1>2, <2>1, <2>2, <2>3, <2>4 DEF StepOf, TypeOK
  <2>6. FilesMay("idle")
    BY <2>1, FilesSame
  <2>7. QED
    BY <2>5, <2>6, StepCacheInv
<1>3. CASE NoCacheFound(p)
  BY <1>2, <1>3 DEF NoCacheFound
<1>4. CASE Load(p)
  <2>1. Exists(cache, "out") => cache["out"].written
    BY DEF FilesAreWhole, Names
  <2>2. QED
    BY <1>2, <1>4, <2>1 DEF Load
<1>5. QED
  BY <1>1, <1>3, <1>4 DEF LintSteps
-----------------------------------------------------------------------------
(* What replace_cache does to the directory. *)

LEMMA PersistedWhole ==
    ASSUME CacheInv, NEW p \in Processes, temp[p].written, temp[p].synced
    PROVE  /\ Persisted(p) \in [Names -> Files] /\ installs + 1 \in Nat
           /\ Whole(Persisted(p), installs + 1) /\ Whole(disk, installs + 1)
           /\ Persisted(p)["out"].number = installs + 1
           /\ Exists(Persisted(p), "out") /\ Present(Persisted(p))
<1> USE DEF CacheInv
<1> DEFINE number == installs + 1
           file == [temp[p] EXCEPT !.number = number]
<1>1. temp[p] \in Files /\ installs \in Nat /\ cache \in [Names -> Files]
      /\ disk \in [Names -> Files]
  BY DEF TypeOK
<1>2. file \in Files /\ file.number = number /\ file.written /\ file.synced
  <2>1. number \in Nat
    BY <1>1
  <2> HIDE DEF number
  <2>2. file.number = number /\ file.written = temp[p].written /\ file.synced = temp[p].synced
        /\ file \in Files
    BY <1>1, <2>1 DEF Files
  <2>3. QED
    BY <2>2
<1>3. Persisted(p) = [cache EXCEPT !["out"] = file]
  BY DEF Persisted
<1> HIDE DEF file
<1>4. /\ Persisted(p) \in [Names -> Files] /\ Persisted(p)["out"] = file
      /\ Persisted(p)["backup"] = cache["backup"] /\ cache["backup"] \in Files
  BY <1>1, <1>2, <1>3 DEF Names
<1>5. Whole(cache, installs) /\ Whole(disk, installs)
  BY WholeBoth
<1>6. \A n \in Names : disk[n].number \in Nat
  <2>1. \A n \in Names : disk[n] \in Files
    BY <1>1
  <2>2. QED
    BY <2>1 DEF Files
<1>7. Whole(disk, installs + 1)
  BY <1>1, <1>5, <1>6 DEF Whole
<1>8. cache["backup"].number \in Nat /\ cache["backup"].number <= installs
      /\ (Exists(cache, "backup") => cache["backup"].written /\ cache["backup"].synced)
  BY <1>4, <1>5 DEF Whole, Names, Files
<1>9. Whole(Persisted(p), installs + 1)
  BY <1>1, <1>2, <1>4, <1>8 DEF Whole, Names, Exists
<1>10. QED
  BY <1>1, <1>2, <1>4, <1>7, <1>9 DEF Exists, Present, Names

LEMMA MovedWhole ==
    ASSUME CacheInv, NEW from \in Names, NEW to \in Names \ {from}, Exists(cache, from)
    PROVE  /\ Moved(from, to) \in [Names -> Files] /\ Whole(Moved(from, to), installs)
           /\ Present(Moved(from, to))
<1> USE DEF CacheInv
<1>1. cache \in [Names -> Files] /\ installs \in Nat /\ Whole(cache, installs)
  BY WholeBoth DEF TypeOK
<1>2. /\ Moved(from, to) \in [Names -> Files] /\ Moved(from, to)[to] = cache[from]
      /\ Moved(from, to)[from] = Nothing
  BY <1>1, NothingTyped DEF Moved
<1>3. /\ cache[from].number \in Nat /\ cache[from].number <= installs
      /\ cache[from].written /\ cache[from].synced
  BY <1>1 DEF Whole, Files
<1>4. \A n \in Names : n = from \/ n = to
  BY DEF Names
<1>5. QED
  BY <1>1, <1>2, <1>3, <1>4, NothingTyped DEF Whole, Exists, Present, Names

LEMMA RemovedWhole ==
    ASSUME CacheInv
    PROVE  /\ Removed("backup") \in [Names -> Files] /\ Whole(Removed("backup"), installs)
           /\ Removed("backup")["out"] = cache["out"]
           /\ Exists(cache, "out") => Present(Removed("backup"))
<1> USE DEF CacheInv
<1>1. cache \in [Names -> Files] /\ installs \in Nat /\ Whole(cache, installs)
  BY WholeBoth DEF TypeOK
<1>2. /\ Removed("backup") \in [Names -> Files] /\ Removed("backup")["out"] = cache["out"]
      /\ Removed("backup")["backup"] = Nothing
  BY <1>1, NothingTyped DEF Removed, Names
<1>3. QED
  BY <1>1, <1>2, NothingTyped DEF Whole, Exists, Present, Names

(* A process at a step of its build only. *)
LEMMA BuildOf ==
    ASSUME CacheInv, NEW p \in Processes
    PROVE  /\ pc[p] \in {"persist", "directory"} => platform # "windows"
           /\ pc[p] \in {"backup", "backupOut", "out", "removeStale", "restore", "stage", "fresh",
                          "replace", "putBack", "removeBackup"} => platform # "posix"
BY OnePlatform DEF CacheInv, TypeOK, PosixSteps, WindowsSteps

(* replace_cache elsewhere than on Windows. *)
LEMMA ReplaceInv ==
    ASSUME CacheInv, NEW p \in Processes, ReplaceSteps(p), UNCHANGED platform
    PROVE  CacheInv'
<1> USE DEF CacheInv
<1>1. CASE InstallFails(p) \/ SyncDirectoryFails(p)
  BY <1>1, FailInv DEF InstallFails, SyncDirectoryFails
<1>2. CASE Install(p)
  <2>1. /\ pc[p] = "persist" /\ cache' = Persisted(p) /\ installs' = installs + 1
        /\ temp' = [temp EXCEPT ![p] = Nothing] /\ pc' = [pc EXCEPT ![p] = "directory"]
        /\ UNCHANGED <<disk, lints, result, loaded, runs, acked, before>>
    BY <1>2 DEF Install, Persist, Goto
  <2>2. temp[p].written /\ temp[p].synced
    BY <2>1 DEF TempIsReady
  <2>3. /\ Persisted(p) \in [Names -> Files] /\ installs + 1 \in Nat
        /\ Whole(Persisted(p), installs + 1) /\ Whole(disk, installs + 1)
        /\ Persisted(p)["out"].number = installs + 1
        /\ Exists(Persisted(p), "out") /\ Present(Persisted(p))
    BY <2>2, PersistedWhole
  <2>4. disk["out"].number <= installs + 1
    BY <2>3 DEF Whole, Names
  <2>5. FilesMay("directory")
    BY <2>1, <2>3, <2>4 DEF FilesMay, TypeOK, PosixInv
  <2>6. "directory" \in Steps
    BY <2>1, BuildOf, OnePlatform DEF Steps, PosixSteps
  <2>7. temp' \in [Processes -> Files] /\ \A q \in Processes \ {p} : temp'[q] = temp[q]
    BY <2>1, NothingTyped DEF TypeOK
  <2>8. Ready(temp'[p], "directory")
    BY DEF Ready
  <2>9. StepOf(p, "directory")
    BY <2>1, <2>6, <2>7, <2>8 DEF StepOf, TypeOK
  <2>10. QED
    BY <2>5, <2>9, StepCacheInv
<1>3. CASE SyncDirectory(p)
  <2>1. /\ pc[p] = "directory" /\ disk' = cache /\ acked' = cache["out"].number
        /\ Return(p, "ok") /\ UNCHANGED <<cache, lints, loaded, runs, installs, before>>
    BY <1>3 DEF SyncDirectory
  <2>2. cache \in [Names -> Files] /\ cache["out"].number \in Nat /\ Whole(cache, installs)
    BY WholeBoth DEF TypeOK, Names, Files
  <2>3. \A s \in {"prepare", "idle"} : FilesMay(s)
    BY <2>1, <2>2 DEF FilesMay, TypeOK
  <2>4. QED
    BY <2>1, <2>3, ReturnInv
<1>4. QED
  BY <1>1, <1>2, <1>3 DEF ReplaceSteps

(* replace_cache on Windows. *)
LEMMA ReplaceWindowsInv ==
    ASSUME CacheInv, NEW p \in Processes, ReplaceStepsWindows(p), UNCHANGED platform
    PROVE  CacheInv'
<1> USE DEF CacheInv
<1>0. ASSUME pc[p] \in {"backup", "backupOut", "out", "removeStale", "restore", "stage", "fresh",
                        "replace", "putBack", "removeBackup"}
      PROVE  /\ platform # "posix" /\ Steps = WindowsSteps
             /\ (pc[p] \notin {"putBack", "removeBackup"} => temp[p].written /\ temp[p].synced)
  BY <1>0, BuildOf DEF Steps, TempIsReady
<1>1. CASE BackupExists(p)
  <2> DEFINE s == IF Exists(cache, "backup") THEN "backupOut" ELSE "out"
  <2>1. pc[p] = "backup" /\ Proceed(p, "backup", s)
    BY <1>1 DEF BackupExists, Proceed
  <2>2. s \in Steps /\ s \notin {"removeStale", "removeBackup"} /\ Ready(temp[p], s)
    BY <1>0, <2>1 DEF WindowsSteps, Ready
  <2> HIDE DEF s
  <2>3. QED
    BY <2>1, <2>2, ProceedInv
<1>2. CASE OutExistsToo(p)
  <2> DEFINE s == IF Exists(cache, "out") THEN "removeStale" ELSE "restore"
  <2>1. pc[p] = "backupOut" /\ Proceed(p, "backupOut", s)
    BY <1>2 DEF OutExistsToo, Proceed
  <2>2. s \in Steps /\ Ready(temp[p], s)
        /\ (s \in {"removeStale", "removeBackup"} => Exists(cache, "out"))
    BY <1>0, <2>1 DEF WindowsSteps, Ready
  <2> HIDE DEF s
  <2>3. QED
    BY <2>1, <2>2, ProceedInv
<1>3. CASE OutExists(p)
  <2> DEFINE s == IF Exists(cache, "out") THEN "stage" ELSE "fresh"
  <2>1. pc[p] = "out" /\ Proceed(p, "out", s)
    BY <1>3 DEF OutExists, Proceed
  <2>2. s \in Steps /\ s \notin {"removeStale", "removeBackup"} /\ Ready(temp[p], s)
    BY <1>0, <2>1 DEF WindowsSteps, Ready
  <2> HIDE DEF s
  <2>3. QED
    BY <2>1, <2>2, ProceedInv
<1>4. CASE ReplaceFails(p)
  <2>1. pc[p] = "replace" /\ Proceed(p, "replace", "putBack")
    BY <1>4 DEF ReplaceFails, Proceed
  <2>2. "putBack" \in Steps /\ Ready(temp[p], "putBack")
    BY <1>0, <2>1 DEF WindowsSteps, Ready
  <2>3. QED
    BY <2>1, <2>2, ProceedInv
<1>5. CASE StageFails(p)
  <2>1. DOMAIN Source = {"removeStale", "restore", "stage", "removeBackup"}
    BY DEF Source
  <2>2. pc[p] # "idle" /\ Fail(p)
    BY <1>5, <2>1 DEF StageFails
  <2>3. QED
    BY <2>2, FailInv
<1>6. CASE InstallFreshFails(p) \/ PutBackFails(p)
  BY <1>6, FailInv DEF InstallFreshFails, PutBackFails
<1>7. ASSUME NEW files \in [Names -> Files], NEW from, NEW s, Change(p, from, s, files),
             from \in {"removeStale", "restore", "stage"}, s \in {"out", "replace"},
             Whole(files, installs), platform \notin Shared => Present(files)
      PROVE  CacheInv'
  <2>1. /\ pc[p] = from /\ cache' = files /\ pc' = [pc EXCEPT ![p] = s]
        /\ UNCHANGED <<disk, temp, lints, result, loaded, runs, installs, acked, before>>
    BY <1>7 DEF Change, Goto
  <2>2. platform # "posix" /\ s \in Steps /\ Ready(temp[p], s)
    BY <1>0, <1>7, <2>1 DEF WindowsSteps, Ready
  <2>3. FilesMay(s)
    BY <1>7, <2>1, <2>2, WholeBoth DEF FilesMay, TypeOK
  <2>4. StepOf(p, s)
    BY <1>7, <2>1, <2>2 DEF StepOf, TypeOK
  <2>5. QED
    BY <2>3, <2>4, StepCacheInv
<1>8. CASE RemoveStale(p)
  <2>1. Change(p, "removeStale", "out", Removed("backup")) /\ pc[p] = "removeStale"
    BY <1>8 DEF RemoveStale, Change
  <2>2. platform \notin Shared => Exists(cache, "out")
    BY <2>1 DEF SerialInv
  <2>3. QED
    BY <1>7, <2>1, <2>2, RemovedWhole
<1>9. CASE Restore(p)
  <2>1. /\ Moved("backup", "out") \in [Names -> Files] /\ Whole(Moved("backup", "out"), installs)
        /\ Present(Moved("backup", "out"))
    BY <1>9, MovedWhole DEF Restore, Names
  <2>2. QED
    BY <1>7, <1>9, <2>1 DEF Restore
<1>10. CASE Stage(p)
  <2>1. /\ Moved("out", "backup") \in [Names -> Files] /\ Whole(Moved("out", "backup"), installs)
        /\ Present(Moved("out", "backup"))
    BY <1>10, MovedWhole DEF Stage, Names
  <2>2. QED
    BY <1>7, <1>10, <2>1 DEF Stage
<1>11. ASSUME pc[p] \in {"fresh", "replace"}, cache' = Persisted(p), installs' = installs + 1,
              disk' = disk, acked' \in {acked, installs + 1},
              NEW s
       PROVE  FilesMay(s)
  <2>1. temp[p].written /\ temp[p].synced /\ platform # "posix"
    BY <1>0, <1>11
  <2>2. /\ Persisted(p) \in [Names -> Files] /\ installs + 1 \in Nat
        /\ Whole(Persisted(p), installs + 1) /\ Whole(disk, installs + 1)
        /\ Exists(Persisted(p), "out") /\ Present(Persisted(p))
    BY <2>1, PersistedWhole
  <2>3. QED
    BY <1>11, <2>1, <2>2 DEF FilesMay, TypeOK
<1>12. CASE InstallFresh(p)
  <2>1. /\ pc[p] = "fresh" /\ cache' = Persisted(p) /\ installs' = installs + 1
        /\ acked' = installs + 1 /\ Return(p, "ok")
        /\ UNCHANGED <<disk, lints, loaded, runs, before>>
    BY <1>12 DEF InstallFresh, Persist
  <2>2. FilesMay(IF lints[p] THEN "prepare" ELSE "idle")
    BY <1>11, <2>1
  <2>3. QED
    BY <2>1, <2>2, ReturnInv
<1>13. CASE Replace(p)
  <2>1. /\ pc[p] = "replace" /\ cache' = Persisted(p) /\ installs' = installs + 1
        /\ temp' = [temp EXCEPT ![p] = Nothing] /\ pc' = [pc EXCEPT ![p] = "removeBackup"]
        /\ UNCHANGED <<disk, lints, result, loaded, runs, acked, before>>
    BY <1>13 DEF Replace, Persist, Goto
  <2>2. FilesMay("removeBackup")
    BY <1>11, <2>1
  <2>3. "removeBackup" \in Steps
    BY <1>0, <2>1 DEF WindowsSteps
  <2>4. temp' \in [Processes -> Files] /\ \A q \in Processes \ {p} : temp'[q] = temp[q]
    BY <2>1, NothingTyped DEF TypeOK
  <2>5. Ready(temp'[p], "removeBackup")
    BY DEF Ready
  <2>6. StepOf(p, "removeBackup")
    BY <2>1, <2>3, <2>4, <2>5 DEF StepOf, TypeOK
  <2>7. QED
    BY <2>2, <2>6, StepCacheInv
<1>14. ASSUME pc[p] \in {"removeBackup", "putBack"}, NEW how \in {"ok", "error"}, Return(p, how),
              cache' \in [Names -> Files], Whole(cache', installs),
              platform \notin Shared => Present(cache'),
              acked' \in Nat, UNCHANGED <<disk, lints, loaded, runs, installs, before>>
       PROVE  CacheInv'
  <2>1. platform # "posix"
    BY <1>0, <1>14
  <2>2. \A s \in {"prepare", "idle"} : FilesMay(s)
    BY <1>14, <2>1, WholeBoth DEF FilesMay, TypeOK
  <2>3. QED
    BY <1>14, <2>2, ReturnInv
<1>15. CASE RemoveBackup(p)
  <2>1. /\ pc[p] = "removeBackup" /\ cache' = Removed("backup") /\ acked' = cache["out"].number
        /\ Return(p, "ok") /\ UNCHANGED <<disk, lints, loaded, runs, installs, before>>
    BY <1>15 DEF RemoveBackup
  <2>2. platform \notin Shared => Exists(cache, "out")
    BY <2>1 DEF SerialInv
  <2>3. cache["out"].number \in Nat
    BY DEF TypeOK, Names, Files
  <2>4. QED
    BY <1>14, <2>1, <2>2, <2>3, RemovedWhole
<1>16. CASE PutBack(p)
  <2>1. /\ pc[p] = "putBack" /\ cache' = Moved("backup", "out") /\ Exists(cache, "backup")
        /\ Return(p, "error") /\ UNCHANGED <<disk, lints, loaded, runs, installs, acked, before>>
    BY <1>16 DEF PutBack
  <2>2. /\ Moved("backup", "out") \in [Names -> Files] /\ Whole(Moved("backup", "out"), installs)
        /\ Present(Moved("backup", "out"))
    BY <2>1, MovedWhole DEF Names
  <2>3. QED
    BY <1>14, <2>1, <2>2 DEF TypeOK
<1>17. QED
  BY <1>1, <1>2, <1>3, <1>4, <1>5, <1>6, <1>8, <1>9, <1>10, <1>12, <1>13, <1>15, <1>16
  DEF ReplaceStepsWindows
(* A command starts. *)
LEMMA StartInv ==
    ASSUME CacheInv, NEW p \in Processes, StartSync(p) \/ StartLint(p) \/ StartLintOffline(p),
           UNCHANGED platform
    PROVE  CacheInv'
<1> USE DEF CacheInv
<1>1. PICK s \in {"populate", "prepare"}, loads \in BOOLEAN : Start(p, s, loads)
  BY DEF StartSync, StartLint, StartLintOffline
<1>2. /\ pc[p] = "idle" /\ (platform \notin Shared => \A q \in Processes : pc[q] = "idle")
      /\ runs' = runs + 1 /\ lints' = [lints EXCEPT ![p] = loads]
      /\ result' = [result EXCEPT ![p] = "none"] /\ loaded' = [loaded EXCEPT ![p] = "none"]
      /\ before' = [before EXCEPT ![p] = cache] /\ pc' = [pc EXCEPT ![p] = s]
      /\ UNCHANGED <<cache, disk, temp, installs, acked>>
  BY <1>1 DEF Start, Goto
<1>3. /\ pc'[p] = s /\ \A q \in Processes \ {p} : pc'[q] = pc[q]
      /\ before'[p] = cache /\ \A q \in Processes \ {p} : before'[q] = before[q]
      /\ loaded'[p] = "none" /\ \A q \in Processes \ {p} : loaded'[q] = loaded[q]
  BY <1>2 DEF TypeOK
<1>4. TypeOK'
  <2>1. s \in Steps /\ pc \in [Processes -> Steps]
    BY DEF Steps, PosixSteps, WindowsSteps, TypeOK
  <2>2. pc' \in [Processes -> Steps]
    BY <1>2, <2>1
  <2>3. /\ lints' \in [Processes -> BOOLEAN] /\ runs' \in Nat
        /\ result' \in [Processes -> {"none", "ok", "error"}]
        /\ loaded' \in [Processes -> {"none", "baseline", "unavailable", "error"}]
        /\ before' \in [Processes -> [Names -> Files]]
    BY <1>2 DEF TypeOK
  <2>4. QED
    BY <1>2, <2>2, <2>3 DEF TypeOK, Steps
<1>5. TempIsReady' /\ FilesAreWhole'
  BY <1>2, <1>3 DEF TempIsReady, FilesAreWhole
<1>6. PosixInv'
  BY <1>2, <1>3 DEF PosixInv
<1>7. SerialInv'
  <2> SUFFICES ASSUME platform \notin Shared PROVE SerialInv'
    BY DEF SerialInv
  <2>1. \A q \in Processes : pc'[q] # "idle" => q = p
    BY <1>2, <1>3
  <2>2. pc'[p] \notin {"removeStale", "removeBackup"}
    BY <1>3
  <2>3. QED
    BY <1>2, <1>3, <2>1, <2>2 DEF SerialInv
<1>8. LintFindsCache'
  BY <1>3 DEF LintFindsCache
<1>9. QED
  BY <1>4, <1>5, <1>6, <1>7, <1>8

LEMMA CrashInv ==
    ASSUME CacheInv, NEW p \in Processes, Crash(p), UNCHANGED platform
    PROVE  CacheInv'
<1> USE DEF CacheInv
<1>1. /\ pc[p] # "idle" /\ pc' = [pc EXCEPT ![p] = "idle"] /\ temp' = [temp EXCEPT ![p] = Nothing]
      /\ UNCHANGED <<cache, disk, lints, result, loaded, runs, installs, acked, before>>
  BY DEF Crash, Goto
<1>2. temp' \in [Processes -> Files] /\ \A q \in Processes \ {p} : temp'[q] = temp[q]
  BY <1>1, NothingTyped DEF TypeOK
<1>3. "idle" \in Steps /\ Ready(temp'[p], "idle")
  BY DEF Steps, PosixSteps, WindowsSteps, Ready
<1>4. StepOf(p, "idle")
  BY <1>1, <1>2, <1>3 DEF StepOf, TypeOK
<1>5. FilesMay("idle")
  BY <1>1, FilesSame
<1>6. QED
  BY <1>4, <1>5, StepCacheInv

LEMMA WriteBackInv ==
    ASSUME CacheInv, WriteBack, UNCHANGED platform
    PROVE  CacheInv'
<1> USE DEF CacheInv
<1>1. /\ disk' = cache
      /\ UNCHANGED <<platform, cache, temp, pc, lints, result, loaded, runs, installs, acked, before>>
  BY DEF WriteBack
<1>2. cache \in [Names -> Files] /\ cache["out"].number \in Nat /\ disk["out"].number \in Nat
      /\ acked \in Nat
  BY DEF TypeOK, Names, Files
<1>3. TypeOK' /\ TempIsReady' /\ SerialInv' /\ LintFindsCache'
  BY <1>1 DEF TypeOK, TempIsReady, SerialInv, LintFindsCache
<1>4. FilesAreWhole'
  BY <1>1 DEF FilesAreWhole
<1>5. PosixInv'
  BY <1>1, <1>2 DEF PosixInv
<1>6. QED
  BY <1>3, <1>4, <1>5

(* After a power failure the directory is the device's, whole as that was. *)
LEMMA PowerLossWhole ==
    ASSUME CacheInv
    PROVE  /\ AfterPowerLoss \in [Names -> Files] /\ Whole(AfterPowerLoss, installs)
           /\ \A n \in Names : AfterPowerLoss[n].number = disk[n].number
<1> USE DEF CacheInv
<1>1. disk \in [Names -> Files] /\ Whole(disk, installs)
  BY WholeBoth DEF TypeOK
<1>2. ASSUME NEW n \in Names
      PROVE  /\ AfterPowerLoss[n] \in Files /\ AfterPowerLoss[n].number = disk[n].number
             /\ (Exists(disk, n) => AfterPowerLoss[n].written /\ AfterPowerLoss[n].synced)
  <2> DEFINE kept == disk[n].written /\ disk[n].synced
             file == [disk[n] EXCEPT !.written = kept]
  <2>1. disk[n] \in Files
    BY <1>1
  <2>2. kept \in BOOLEAN /\ (Exists(disk, n) => kept /\ disk[n].synced)
    BY <1>1 DEF Whole
  <2>3. AfterPowerLoss[n] = file
    BY DEF AfterPowerLoss
  <2> HIDE DEF kept
  <2>4. file \in Files /\ file.number = disk[n].number /\ file.written = kept
        /\ file.synced = disk[n].synced
    BY <2>1, <2>2 DEF Files
  <2>5. QED
    BY <2>2, <2>3, <2>4
<1>3. AfterPowerLoss \in [Names -> Files]
  <2>1. AfterPowerLoss = [n \in Names |-> AfterPowerLoss[n]]
    BY DEF AfterPowerLoss
  <2>2. QED
    BY <1>2, <2>1
<1>4. Whole(AfterPowerLoss, installs)
  BY <1>1, <1>2 DEF Whole, Exists, Names
<1>5. QED
  BY <1>2, <1>3, <1>4

LEMMA PowerLossInv ==
    ASSUME CacheInv, PowerLoss, UNCHANGED platform
    PROVE  CacheInv'
<1> USE DEF CacheInv
<1>1. /\ cache' = AfterPowerLoss /\ disk' = AfterPowerLoss
      /\ pc' = [p \in Processes |-> "idle"] /\ temp' = [p \in Processes |-> Nothing]
      /\ UNCHANGED <<platform, lints, result, loaded, runs, installs, acked, before>>
  BY DEF PowerLoss
<1>2. /\ AfterPowerLoss \in [Names -> Files] /\ Whole(AfterPowerLoss, installs)
      /\ AfterPowerLoss["out"].number = disk["out"].number
      /\ disk["out"].number \in Nat /\ acked \in Nat
  BY PowerLossWhole DEF Names, TypeOK, Files
<1>3. TypeOK'
  <2>1. pc' \in [Processes -> Steps] /\ temp' \in [Processes -> Files]
    BY <1>1, NothingTyped DEF Steps, PosixSteps, WindowsSteps
  <2>2. QED
    BY <1>1, <1>2, <2>1 DEF TypeOK, Steps
<1>4. TempIsReady' /\ SerialInv'
  BY <1>1 DEF TempIsReady, SerialInv
<1>5. FilesAreWhole'
  BY <1>1, <1>2 DEF FilesAreWhole, Whole
<1>6. PosixInv'
  BY <1>1, <1>2 DEF PosixInv
<1>7. LintFindsCache'
  BY <1>1 DEF LintFindsCache
<1>8. QED
  BY <1>3, <1>4, <1>5, <1>6, <1>7

LEMMA InitCacheInv == Init => CacheInv
<1> SUFFICES ASSUME Init PROVE CacheInv
  OBVIOUS
<1> USE DEF Init
<1>1. OldCache \in Files /\ OldCache.number = 1 /\ OldCache.written /\ OldCache.synced
  BY DEF OldCache, Files
<1>2. cache \in [Names -> Files] /\ cache["backup"] = Nothing
      /\ cache["out"] \in {Nothing, OldCache}
  BY <1>1, NothingTyped DEF Names
<1>3. TypeOK
  BY <1>2, NothingTyped DEF TypeOK, PosixSteps, WindowsSteps
<1>4. TempIsReady /\ SerialInv /\ LintFindsCache
  BY DEF TempIsReady, SerialInv, LintFindsCache
<1>5. FilesAreWhole
  BY <1>1, <1>2, NothingTyped DEF FilesAreWhole, Exists, Names
<1>6. PosixInv
  BY <1>1, <1>2, NothingTyped DEF PosixInv
<1>7. QED
  BY <1>3, <1>4, <1>5, <1>6 DEF CacheInv

LEMMA NextCacheInv == CacheInv /\ [Next]_vars => CacheInv'
<1>1. ASSUME CacheInv, Next PROVE CacheInv'
  <2>1. UNCHANGED platform /\ Step
    BY <1>1 DEF Next
  <2>2. QED
    BY <1>1, <2>1, StartInv, WriteInv, ReplaceInv, ReplaceWindowsInv, LintInv, CrashInv,
       WriteBackInv, PowerLossInv DEF Step
<1>2. ASSUME CacheInv, UNCHANGED vars PROVE CacheInv'
  BY <1>2 DEF vars, CacheInv, TypeOK, TempIsReady, FilesAreWhole, PosixInv, SerialInv, LintFindsCache,
     Exists, Present
<1>3. QED
  BY <1>1, <1>2
-----------------------------------------------------------------------------
(* The inductive invariant of sync, lint and the crashes between their steps. *)
THEOREM CacheInvariant == Spec => []CacheInv
BY InitCacheInv, NextCacheInv, PTL DEF Spec

(* A cache or a backup is a whole payload at every moment of write_cache and  *)
(* replace_cache, and would be after a power failure at that moment, however  *)
(* many processes write at once, on either build.                             *)
THEOREM CacheAlwaysWhole == Spec => []CacheIsWhole
<1>1. CacheInv => CacheIsWhole
  <2> SUFFICES ASSUME CacheInv, NEW n \in Names, NEW d \in {cache, AfterPowerLoss}, Exists(d, n)
               PROVE  d[n].written
    BY DEF CacheIsWhole
  <2>1. CASE d = cache
    BY <2>1 DEF CacheInv, FilesAreWhole
  <2>2. CASE d = AfterPowerLoss
    BY <2>2, PowerLossWhole DEF Whole
  <2>3. QED
    BY <2>1, <2>2
<1>2. QED
  BY <1>1, CacheInvariant, PTL

(* A success that write_cache has reported survives every crash elsewhere     *)
(* than on Windows: neither the directory nor the device goes back behind it. *)
THEOREM OkAlwaysDurable == Spec => []OkIsDurable
<1>1. CacheInv => OkIsDurable
  <2> SUFFICES ASSUME CacheInv, platform = "posix"
               PROVE  cache["out"].number >= acked /\ AfterPowerLoss["out"].number >= acked
    BY DEF OkIsDurable
  <2>1. acked <= disk["out"].number /\ disk["out"].number <= cache["out"].number
    BY DEF CacheInv, PosixInv
  <2>2. AfterPowerLoss["out"].number = disk["out"].number
    BY PowerLossWhole DEF Names
  <2>3. acked \in Nat /\ disk["out"].number \in Nat /\ cache["out"].number \in Nat
    BY DEF CacheInv, TypeOK, Names, Files
  <2>4. QED
    BY <2>1, <2>2, <2>3
<1>2. QED
  BY <1>1, CacheInvariant, PTL

(* Elsewhere than on Windows, prepare_cache and Baseline::load never miss a   *)
(* cache that was there when the lint started, whatever its own refresh and   *)
(* other commands do.                                                         *)
THEOREM LintAlwaysFindsCache == Spec => []LintFindsCache
<1>1. CacheInv => LintFindsCache
  BY DEF CacheInv
<1>2. QED
  BY <1>1, CacheInvariant, PTL

(* replace_cache may remove a backup beside a cache unread: it is older, even *)
(* when several Windows commands run at once.                                 *)
THEOREM BackupAlwaysStale == Spec => []BackupIsStale
<1>1. CacheInv => BackupIsStale
  BY DEF CacheInv, FilesAreWhole, BackupIsStale
<1>2. QED
  BY <1>1, CacheInvariant, PTL

(* The finding about a refresh on Windows that loses the cache needs two      *)
(* commands at a time: where Windows commands do not overlap, a refresh that  *)
(* fails has always left a copy.                                              *)
THEOREM SerialRefreshLosesNothing ==
    ASSUME "windows" \notin Shared
    PROVE  Spec => []FailedRefreshLosesNothing
<1>1. CacheInv => FailedRefreshLosesNothing
  <2> SUFFICES ASSUME CacheInv, NEW p \in Processes, pc[p] = "prepare", Exists(before[p], "out")
               PROVE  Present(cache)
    BY DEF FailedRefreshLosesNothing
  <2>1. Present(before[p])
    BY DEF Present, Names
  <2>2. CASE platform = "posix"
    <3>1. Exists(cache, "out")
      BY <2>2 DEF CacheInv, PosixInv
    <3>2. QED
      BY <3>1 DEF Present, Names
  <2>3. CASE platform = "windows"
    BY <2>1, <2>3 DEF CacheInv, SerialInv
  <2>4. QED
    BY <2>2, <2>3, OnePlatform DEF CacheInv
<1>2. QED
  BY <1>1, CacheInvariant, PTL
(* The steps that touch neither path. *)
LEMMA PathsKept ==
    ASSUME NEW p \in Processes,
           \/ StartSync(p) \/ StartLint(p) \/ StartLintOffline(p)
           \/ WriteSteps(p) \/ LintSteps(p) \/ Crash(p) \/ WriteBack
           \/ InstallFails(p) \/ SyncDirectory(p) \/ SyncDirectoryFails(p)
           \/ BackupExists(p) \/ OutExistsToo(p) \/ OutExists(p) \/ StageFails(p)
           \/ InstallFreshFails(p) \/ ReplaceFails(p) \/ PutBackFails(p)
    PROVE  cache' = cache
<1>1. CASE StartSync(p) \/ StartLint(p) \/ StartLintOffline(p) \/ Crash(p) \/ WriteBack
           \/ SyncDirectory(p)
  BY <1>1 DEF StartSync, StartLint, StartLintOffline, Start, Crash, WriteBack, SyncDirectory
<1>2. CASE WriteSteps(p)
  BY <1>2 DEF WriteSteps, Populate, PopulateFails, CreateTemp, CreateTempFails, WriteTemp,
     WriteTempFails, SyncTemp, SyncTempFails, Proceed, Fail
<1>3. CASE LintSteps(p)
  BY <1>3 DEF LintSteps, CacheExists, NoCacheFound, Load, Proceed, Ends
<1>4. CASE BackupExists(p) \/ OutExistsToo(p) \/ OutExists(p) \/ ReplaceFails(p)
  BY <1>4 DEF BackupExists, OutExistsToo, OutExists, ReplaceFails, Proceed
<1>5. CASE InstallFails(p) \/ SyncDirectoryFails(p) \/ StageFails(p) \/ InstallFreshFails(p)
           \/ PutBackFails(p)
  BY <1>5 DEF InstallFails, SyncDirectoryFails, StageFails, InstallFreshFails, PutBackFails, Fail
<1>6. QED
  BY <1>1, <1>2, <1>3, <1>4, <1>5

LEMMA NextKeepsCopy ==
    ASSUME "windows" \notin Shared, CacheInv, Next, Present(cache), Present(disk)
    PROVE  Present(cache')
<1> USE DEF CacheInv
<1>1. CASE PowerLoss
  <2>1. \A n \in Names : Exists(disk, n) => Exists(AfterPowerLoss, n)
    BY PowerLossWhole DEF Exists
  <2>2. QED
    BY <1>1, <2>1 DEF PowerLoss, Present
<1>2. ASSUME NEW p \in Processes, Install(p) \/ InstallFresh(p) \/ Replace(p)
      PROVE  Present(cache')
  <2>1. cache' = Persisted(p) /\ pc[p] \in {"persist", "fresh", "replace"}
    BY <1>2 DEF Install, InstallFresh, Replace, Persist
  <2>2. temp[p].written /\ temp[p].synced
    BY <2>1 DEF TempIsReady
  <2>3. QED
    BY <2>1, <2>2, PersistedWhole
<1>3. ASSUME NEW p \in Processes, RemoveStale(p) \/ RemoveBackup(p) PROVE Present(cache')
  <2>1. cache' = Removed("backup") /\ pc[p] \in {"removeStale", "removeBackup"}
    BY <1>3 DEF RemoveStale, RemoveBackup, Change
  <2>2. platform \notin Shared
    BY <2>1, BuildOf, OnePlatform
  <2>3. Exists(cache, "out")
    BY <2>1, <2>2 DEF SerialInv
  <2>4. QED
    BY <2>1, <2>3, RemovedWhole
<1>4. ASSUME NEW p \in Processes, Restore(p) \/ Stage(p) \/ PutBack(p) PROVE Present(cache')
  <2>1. \/ cache' = Moved("backup", "out") /\ Exists(cache, "backup")
        \/ cache' = Moved("out", "backup") /\ Exists(cache, "out")
    BY <1>4 DEF Restore, Stage, PutBack, Change
  <2>2. QED
    BY <2>1, MovedWhole DEF Names
<1>5. CASE WriteBack
  BY <1>5 DEF WriteBack
<1>6. QED
  BY <1>1, <1>2, <1>3, <1>4, <1>5, PathsKept
  DEF Next, Step, ReplaceSteps, ReplaceStepsWindows

(* No step of sync or lint and no crash takes the last copy of the cache      *)
(* away, provided Windows commands do not overlap.                            *)
THEOREM CacheNeverLost ==
    ASSUME "windows" \notin Shared
    PROVE  Spec => CacheIsNeverLost
<1>1. CacheInv /\ [Next]_vars => [Present(cache) /\ Present(disk) => Present(cache')]_vars
  BY NextKeepsCopy
<1>2. QED
  BY <1>1, CacheInvariant, PTL DEF Spec, CacheIsNeverLost
=============================================================================
