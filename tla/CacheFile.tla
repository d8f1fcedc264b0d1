------------------------------ MODULE CacheFile ------------------------------
(***************************************************************************)
(* The baseline cache on disk: `safe-migrate sync` writing it              *)
(* (_internal/sync/writer.rs), `lint` refreshing and reading it            *)
(* (prepare_cache and maybe_auto_sync of main.rs, Baseline::load of        *)
(* api.rs), any number of such processes at the same path, and the crashes *)
(* a file protocol exists for.                                             *)
(*                                                                         *)
(* The payload is abstract: what matters of a file is which installation   *)
(* put it there, whether every byte of it was written, and whether its     *)
(* bytes were synchronized to the device.  The file system is external: a  *)
(* rename is atomic and replaces its target, directory entries reach the   *)
(* device in the order they were changed, at any time or when the          *)
(* directory is synchronized, and a file that was not synchronized may     *)
(* lose its bytes in a power failure.                                      *)
(***************************************************************************)
EXTENDS Naturals

CONSTANTS
    Processes,  \* the commands that may run at one time
    Platforms,  \* the builds: which replace_cache is compiled in
    Shared,     \* the builds on which commands run at the same time
    Faults,     \* whether system calls fail, processes are killed, power is lost
    MaxRuns     \* bound: commands started in one behaviour

ASSUME CacheAssumption ==
    /\ Platforms \subseteq {"posix", "windows"} /\ Shared \subseteq Platforms
    /\ Faults \in BOOLEAN /\ MaxRuns \in Nat \ {0}

VARIABLES
    platform, \* one of Platforms, for the whole behaviour
    cache,    \* the directory: the files at the cache path and its backup path
    disk,     \* the directory as a power failure would leave it
    temp,     \* each process's temporary file, under a name no other one uses
    pc,       \* the next step of each process
    lints,    \* whether the process's command is a lint, which loads the cache
    result,   \* how the last sync of each process ended
    loaded,   \* what the last lint of each process found at the cache path
    runs,     \* commands started
    installs, \* history: caches installed, which numbers them
    acked,    \* history: the newest installation a sync has reported
    before    \* history: the directory when the process's command started

vars == <<platform, cache, disk, temp, pc, lints, result, loaded, runs, installs, acked, before>>

Names == {"out", "backup"}
Nothing == [number |-> 0, written |-> FALSE, synced |-> FALSE]
Exists(d, n) == d[n].number > 0
OldCache == [number |-> 1, written |-> TRUE, synced |-> TRUE]

\* The program starts on a directory with or without the cache an earlier sync left.
Init ==
    /\ platform \in Platforms
    /\ cache \in {[n \in Names |-> Nothing],
                  [n \in Names |-> IF n = "out" THEN OldCache ELSE Nothing]}
    /\ disk = cache
    /\ temp = [p \in Processes |-> Nothing]
    /\ pc = [p \in Processes |-> "idle"]
    /\ lints = [p \in Processes |-> FALSE]
    /\ result = [p \in Processes |-> "none"]
    /\ loaded = [p \in Processes |-> "none"]
    /\ runs = 0
    /\ installs = 1
    /\ acked = 0
    /\ before = [p \in Processes |-> cache]

-----------------------------------------------------------------------------
(* Commands                                                                *)

Goto(p, step) == pc' = [pc EXCEPT ![p] = step]

Start(p, step, loads) ==
    /\ pc[p] = "idle"
    /\ platform \notin Shared => \A q \in Processes : pc[q] = "idle"
    /\ runs < MaxRuns
    /\ runs' = runs + 1
    /\ lints' = [lints EXCEPT ![p] = loads]
    /\ result' = [result EXCEPT ![p] = "none"]
    /\ loaded' = [loaded EXCEPT ![p] = "none"]
    /\ before' = [before EXCEPT ![p] = cache]
    /\ Goto(p, step)
    /\ UNCHANGED <<cache, disk, temp, installs, acked>>

\* `safe-migrate sync`; a lint with auto_sync = true; and a lint without it, or
\* with --no-auto-sync.
StartSync(p) == Start(p, "populate", FALSE)
StartLint(p) == Start(p, "populate", TRUE)
StartLintOffline(p) == Start(p, "prepare", TRUE)

\* The sync returns.  Dropping NamedTempFile removes the temporary file; a lint
\* goes on whether or not its refresh succeeded.
Return(p, how) ==
    /\ result' = [result EXCEPT ![p] = how]
    /\ temp' = [temp EXCEPT ![p] = Nothing]
    /\ Goto(p, IF lints[p] THEN "prepare" ELSE "idle")

\* Mutant: a lint whose refresh fails ends there instead of using the old cache.
FailEndsLint(p) ==
    /\ result' = [result EXCEPT ![p] = "error"]
    /\ temp' = [temp EXCEPT ![p] = Nothing]
    /\ loaded' = [loaded EXCEPT ![p] = IF lints[p] THEN "error" ELSE @]
    /\ Goto(p, "idle")
    /\ UNCHANGED <<cache, disk, lints, runs, installs, acked, before>>

Fail(p) ==
    /\ Return(p, "error")
    /\ UNCHANGED <<cache, disk, lints, loaded, runs, installs, acked, before>>

Proceed(p, from, to) ==
    /\ pc[p] = from
    /\ Goto(p, to)
    /\ UNCHANGED <<cache, disk, temp, lints, result, loaded, runs, installs, acked, before>>

-----------------------------------------------------------------------------
(* write_cache: a complete, synchronized temporary file beside the cache   *)

\* The connection, the catalog queries, or validate_semantics may fail.
Populate(p) == Proceed(p, "populate", "create")
PopulateFails(p) == Faults /\ pc[p] = "populate" /\ Fail(p)

CreateTemp(p) ==
    /\ pc[p] = "create"
    /\ temp' = [temp EXCEPT ![p] = Nothing]
    /\ Goto(p, "write")
    /\ UNCHANGED <<cache, disk, lints, result, loaded, runs, installs, acked, before>>
CreateTempFails(p) == Faults /\ pc[p] = "create" /\ Fail(p)

\* Encoding, both size limits, encryption and write_all come before any change
\* to the cache path; each may fail.
WriteTemp(p) ==
    /\ pc[p] = "write"
    /\ temp' = [temp EXCEPT ![p].written = TRUE]
    /\ Goto(p, "sync")
    /\ UNCHANGED <<cache, disk, lints, result, loaded, runs, installs, acked, before>>
WriteTempFails(p) == Faults /\ pc[p] = "write" /\ Fail(p)

\* Mutant: the bytes are not synchronized before the file is installed.
SyncTempSkipped(p) == Proceed(p, "sync", IF platform = "windows" THEN "backup" ELSE "persist")

SyncTemp(p) ==
    /\ pc[p] = "sync"
    /\ temp' = [temp EXCEPT ![p].synced = TRUE]
    /\ Goto(p, IF platform = "windows" THEN "backup" ELSE "persist")
    /\ UNCHANGED <<cache, disk, lints, result, loaded, runs, installs, acked, before>>
SyncTempFails(p) == Faults /\ pc[p] = "sync" /\ Fail(p)

-----------------------------------------------------------------------------
(* replace_cache                                                           *)

Persisted(p) == [cache EXCEPT !["out"] = [temp[p] EXCEPT !.number = installs + 1]]

\* persist: the temporary file is renamed onto the cache path.
Persist(p) ==
    /\ cache' = Persisted(p)
    /\ installs' = installs + 1

\* Elsewhere than on Windows: one rename, then the directory is synchronized.
Install(p) ==
    /\ pc[p] = "persist"
    /\ Persist(p)
    /\ temp' = [temp EXCEPT ![p] = Nothing]
    /\ Goto(p, "directory")
    /\ UNCHANGED <<disk, lints, result, loaded, runs, acked, before>>
InstallFails(p) == Faults /\ pc[p] = "persist" /\ Fail(p)

\* Mutant: success is reported without synchronizing the directory.
SyncDirectorySkipped(p) ==
    /\ pc[p] = "directory"
    /\ acked' = cache["out"].number
    /\ Return(p, "ok")
    /\ UNCHANGED <<cache, disk, lints, loaded, runs, installs, before>>

SyncDirectory(p) ==
    /\ pc[p] = "directory"
    /\ disk' = cache
    /\ acked' = cache["out"].number
    /\ Return(p, "ok")
    /\ UNCHANGED <<cache, lints, loaded, runs, installs, before>>
SyncDirectoryFails(p) == Faults /\ pc[p] = "directory" /\ Fail(p)

\* On Windows: an interrupted replacement is cleaned up, the old cache is moved
\* to the backup path, the new one is installed, and the backup is removed.
\* Each look at a path and each change of one is a step of its own.
BackupExists(p) == Proceed(p, "backup", IF Exists(cache, "backup") THEN "backupOut" ELSE "out")
\* Mutant: any backup counts as stale, with or without a cache beside it.
AnyBackupIsStale(p) == Proceed(p, "backupOut", "removeStale")
OutExistsToo(p) == Proceed(p, "backupOut", IF Exists(cache, "out") THEN "removeStale" ELSE "restore")
OutExists(p) == Proceed(p, "out", IF Exists(cache, "out") THEN "stage" ELSE "fresh")

Removed(n) == [cache EXCEPT ![n] = Nothing]
Moved(from, to) == [cache EXCEPT ![to] = cache[from], ![from] = Nothing]

Change(p, from, to, files) ==
    /\ pc[p] = from
    /\ cache' = files
    /\ Goto(p, to)
    /\ UNCHANGED <<disk, temp, lints, result, loaded, runs, installs, acked, before>>

RemoveStale(p) == Exists(cache, "backup") /\ Change(p, "removeStale", "out", Removed("backup"))
Restore(p) == Exists(cache, "backup") /\ Change(p, "restore", "out", Moved("backup", "out"))
Stage(p) == Exists(cache, "out") /\ Change(p, "stage", "replace", Moved("out", "backup"))

\* Removing or renaming a path another process has just removed or renamed is an
\* error, and so is any failure of the system call.
Source == [removeStale |-> "backup", restore |-> "backup", stage |-> "out", removeBackup |-> "backup"]
StageFails(p) ==
    /\ pc[p] \in DOMAIN Source
    /\ Faults \/ ~Exists(cache, Source[pc[p]])
    /\ Fail(p)

\* No old cache: the new one is installed and the sync is done.
InstallFresh(p) ==
    /\ pc[p] = "fresh"
    /\ Persist(p)
    /\ acked' = installs + 1
    /\ Return(p, "ok")
    /\ UNCHANGED <<disk, lints, loaded, runs, before>>
InstallFreshFails(p) == Faults /\ pc[p] = "fresh" /\ Fail(p)

Replace(p) ==
    /\ pc[p] = "replace"
    /\ Persist(p)
    /\ temp' = [temp EXCEPT ![p] = Nothing]
    /\ Goto(p, "removeBackup")
    /\ UNCHANGED <<disk, lints, result, loaded, runs, acked, before>>
ReplaceFails(p) == Faults /\ Proceed(p, "replace", "putBack")

RemoveBackup(p) ==
    /\ pc[p] = "removeBackup"
    /\ Exists(cache, "backup")
    /\ cache' = Removed("backup")
    /\ acked' = cache["out"].number
    /\ Return(p, "ok")
    /\ UNCHANGED <<disk, lints, loaded, runs, installs, before>>

\* Mutant: the old cache is copied back instead of moved.
PutBackCopied(p) ==
    /\ pc[p] = "putBack"
    /\ Exists(cache, "backup")
    /\ cache' = [cache EXCEPT !["out"] = cache["backup"]]
    /\ Return(p, "error")
    /\ UNCHANGED <<disk, lints, loaded, runs, installs, acked, before>>

\* The installation failed: the old cache is moved back, if that succeeds.
PutBack(p) ==
    /\ pc[p] = "putBack"
    /\ Exists(cache, "backup")
    /\ cache' = Moved("backup", "out")
    /\ Return(p, "error")
    /\ UNCHANGED <<disk, lints, loaded, runs, installs, acked, before>>
PutBackFails(p) == pc[p] = "putBack" /\ Fail(p)

-----------------------------------------------------------------------------
(* prepare_cache: what a lint analyzes against                             *)

Ends(p, found) ==
    /\ loaded' = [loaded EXCEPT ![p] = found]
    /\ Goto(p, "idle")
    /\ UNCHANGED <<cache, disk, temp, lints, result, runs, installs, acked, before>>

CacheExists(p) == Exists(cache, "out") /\ Proceed(p, "prepare", "load")
NoCacheFound(p) == pc[p] = "prepare" /\ ~Exists(cache, "out") /\ Ends(p, "unavailable")

\* Baseline::load opens the path again: a file that is gone by then, or whose
\* payload does not decode, is an error of the command.
Load(p) ==
    /\ pc[p] = "load"
    /\ Ends(p, IF Exists(cache, "out") /\ cache["out"].written THEN "baseline" ELSE "error")

-----------------------------------------------------------------------------
(* Crashes                                                                 *)

\* The process is killed.  Its temporary file stays behind under a name that
\* nothing opens again.
Crash(p) ==
    /\ Faults
    /\ pc[p] # "idle"
    /\ Goto(p, "idle")
    /\ temp' = [temp EXCEPT ![p] = Nothing]
    /\ UNCHANGED <<cache, disk, lints, result, loaded, runs, installs, acked, before>>

\* The operating system writes the directory back.
WriteBack ==
    /\ disk # cache
    /\ disk' = cache
    /\ UNCHANGED <<cache, temp, pc, lints, result, loaded, runs, installs, acked, before>>

\* Power is lost: every process ends and the directory is what the device has of
\* it, in which a file that was not synchronized may have lost its bytes.
AfterPowerLoss == [n \in Names |-> [disk[n] EXCEPT !.written = @ /\ disk[n].synced]]

PowerLoss ==
    /\ Faults
    /\ \E p \in Processes : pc[p] # "idle"
    /\ cache' = AfterPowerLoss
    /\ disk' = AfterPowerLoss
    /\ pc' = [p \in Processes |-> "idle"]
    /\ temp' = [p \in Processes |-> Nothing]
    /\ UNCHANGED <<lints, result, loaded, runs, installs, acked, before>>

-----------------------------------------------------------------------------
WriteSteps(p) ==
    \/ Populate(p) \/ PopulateFails(p) \/ CreateTemp(p) \/ CreateTempFails(p)
    \/ WriteTemp(p) \/ WriteTempFails(p) \/ SyncTemp(p) \/ SyncTempFails(p)

ReplaceSteps(p) ==
    \/ Install(p) \/ InstallFails(p) \/ SyncDirectory(p) \/ SyncDirectoryFails(p)

ReplaceStepsWindows(p) ==
    \/ BackupExists(p) \/ OutExistsToo(p) \/ OutExists(p) \/ RemoveStale(p) \/ Restore(p)
    \/ Stage(p) \/ StageFails(p) \/ InstallFresh(p) \/ InstallFreshFails(p)
    \/ Replace(p) \/ ReplaceFails(p) \/ RemoveBackup(p) \/ PutBack(p) \/ PutBackFails(p)

LintSteps(p) == CacheExists(p) \/ NoCacheFound(p) \/ Load(p)

Step ==
    \/ \E p \in Processes :
        \/ StartSync(p) \/ StartLint(p) \/ StartLintOffline(p)
        \/ WriteSteps(p) \/ ReplaceSteps(p) \/ ReplaceStepsWindows(p) \/ LintSteps(p)
        \/ Crash(p)
    \/ WriteBack
    \/ PowerLoss

Next == Step /\ UNCHANGED platform

Spec == Init /\ [][Next]_vars

-----------------------------------------------------------------------------
(* Properties                                                              *)

\* Every file at the cache path or the backup path is a complete payload, and
\* would be after a power failure (CONTRACT.md: "Sync replaces a cache only
\* after its new payload is complete").
CacheIsWhole ==
    \A n \in Names : \A d \in {cache, AfterPowerLoss} : Exists(d, n) => d[n].written

\* Elsewhere than on Windows, once a sync has reported success no crash brings
\* back an older cache than the one it reported (write_cache synchronizes the
\* file, then its directory).
OkIsDurable ==
    platform = "posix" => cache["out"].number >= acked /\ AfterPowerLoss["out"].number >= acked

\* Elsewhere than on Windows, a lint that started on a directory with a cache
\* analyzes against a complete baseline, whatever other commands do meanwhile and
\* whether or not its own refresh fails (CHANGELOG.md: "Cache writes and
\* refreshes are atomic").
LintFindsCache ==
    platform = "posix" => \A p \in Processes :
        loaded[p] \in {"unavailable", "error"} => ~Exists(before[p], "out")

\* No step, and no crash, takes the last copy of the cache away: it stays at the
\* cache path or at the backup path the next sync restores it from.
Present(d) == \E n \in Names : Exists(d, n)
CacheIsNeverLost == [][Present(cache) /\ Present(disk) => Present(cache')]_vars

\* Where both files exist the backup is the older one, which is what lets
\* replace_cache remove it unread.
BackupIsStale ==
    Exists(cache, "out") /\ Exists(cache, "backup")
        => cache["backup"].number < cache["out"].number

\* A refresh that reports failure leaves a copy of the cache somewhere the next
\* command can reach (CHANGELOG.md: "failed refreshes preserve and reuse the
\* previous readable cache").
FailedRefreshLosesNothing ==
    \A p \in Processes :
        pc[p] = "prepare" /\ result[p] = "error" /\ Exists(before[p], "out") => Present(cache)
-----------------------------------------------------------------------------
(* The inductive invariant behind them                                     *)

Files == [number : Nat, written : BOOLEAN, synced : BOOLEAN]

PosixSteps == {"idle", "populate", "create", "write", "sync", "persist", "directory",
               "prepare", "load"}

WindowsSteps == {"idle", "populate", "create", "write", "sync", "backup", "backupOut", "out",
                 "removeStale", "restore", "stage", "fresh", "replace", "putBack",
                 "removeBackup", "prepare", "load"}

\* The type invariant: the steps a process can be at are those of its build.
TypeOK ==
    /\ platform \in Platforms
    /\ cache \in [Names -> Files] /\ disk \in [Names -> Files]
    /\ temp \in [Processes -> Files]
    /\ pc \in [Processes -> IF platform = "posix" THEN PosixSteps ELSE WindowsSteps]
    /\ lints \in [Processes -> BOOLEAN]
    /\ result \in [Processes -> {"none", "ok", "error"}]
    /\ loaded \in [Processes -> {"none", "baseline", "unavailable", "error"}]
    /\ runs \in Nat /\ installs \in Nat /\ acked \in Nat
    /\ before \in [Processes -> [Names -> Files]]

\* A process that may still install its temporary file has written and
\* synchronized it.
TempIsReady ==
    \A p \in Processes :
        /\ pc[p] = "sync" => temp[p].written
        /\ pc[p] \in {"persist", "backup", "backupOut", "out", "removeStale", "restore",
                       "stage", "fresh", "replace"} => temp[p].written /\ temp[p].synced

\* In the directory and on the device: whole files, numbered by an installation
\* that has been, the backup older than the cache.
FilesAreWhole ==
    \A d \in {cache, disk} :
        /\ \A n \in Names : Exists(d, n) => d[n].written /\ d[n].synced
        /\ \A n \in Names : d[n].number <= installs
        /\ Exists(d, "out") /\ Exists(d, "backup") => d["backup"].number < d["out"].number

\* Elsewhere than on Windows the device lags behind the directory, but not behind
\* what was reported, and a cache seen by a command stays for it to load.
PosixInv ==
    platform = "posix" =>
        /\ acked <= disk["out"].number /\ disk["out"].number <= cache["out"].number
        /\ \A p \in Processes :
               pc[p] # "idle" /\ Exists(before[p], "out") => Exists(cache, "out")

\* Where commands do not run at the same time, a backup is only removed beside a
\* cache, and a command never sees the last copy go.
SerialInv ==
    platform \notin Shared =>
        /\ \A p, q \in Processes : pc[p] # "idle" /\ pc[q] # "idle" => p = q
        /\ \A p \in Processes :
               /\ pc[p] \in {"removeStale", "removeBackup"} => Exists(cache, "out")
               /\ pc[p] # "idle" /\ Present(before[p]) => Present(cache)

CacheInv ==
    TypeOK /\ TempIsReady /\ FilesAreWhole /\ PosixInv /\ SerialInv /\ LintFindsCache
=============================================================================
