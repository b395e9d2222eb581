----------------------------- MODULE ConfigStore -----------------------------
(***************************************************************************)
(* config/store.rs: how concurrent bzr processes update config.toml.       *)
(*                                                                         *)
(* Each process runs Config::update_locked_inner: open config.lock, take   *)
(* its exclusive flock, reload the file, apply the mutation in memory,     *)
(* sweep crash-orphaned temps, write a private temp, fsync it, rename it   *)
(* over config.toml, fsync the directory, release.  Every system call may  *)
(* fail, a process may be killed between any two of them, and the machine  *)
(* may lose power, which leaves what was made durable.                     *)
(*                                                                         *)
(* A configuration is abstracted to the set of updates it reflects, so     *)
(* that a clobbered edit is visible as a missing element.                  *)
(***************************************************************************)
EXTENDS Naturals, FiniteSets

CONSTANTS Procs,                \* process slots (pids)
          NoProc,               \* the lock is free
          MaxUpdates,           \* bound: updates issued per slot
          TempCreateAttempts,   \* TEMP_CREATE_ATTEMPTS
          MaxKills,             \* bound: processes killed
          MaxPowerLosses        \* bound: power failures

ASSUME ConfigStoreAssumption ==
  /\ NoProc \notin Procs
  /\ MaxUpdates \in Nat
  /\ TempCreateAttempts \in Nat \ {0}
  /\ MaxKills \in Nat
  /\ MaxPowerLosses \in Nat

VARIABLES
  disk,       \* what config.toml names now: the file every reader opens
  durable,    \* the files config.toml may name after a power failure
  temps,      \* temp names present beside config.toml
  aged,       \* those of them last modified STALE_TEMP_AGE or longer ago
  lock,       \* holder of the flock on config.lock
  pc,         \* where each process is in update_locked_inner
  lockHeld,   \* LOCK_HELD of each process
  buf,        \* the Config each process holds in memory
  tmp,        \* the temp file each process is writing
  counter,    \* candidate_temp_path's COUNTER of each process
  attempt,    \* candidates write_unique_temp has left
  result,     \* what the call is about to return
  issued,     \* updates each slot has started
  acked,      \* updates whose call returned Ok
  failed,     \* updates whose call returned Err
  kills, powerLosses

procVars == <<lockHeld, buf, tmp, counter, attempt, result>>
fileVars == <<disk, durable, temps, aged>>
doneVars == <<acked, failed>>
envVars  == <<kills, powerLosses>>
vars == <<disk, durable, temps, aged, lock, pc, lockHeld, buf, tmp, counter,
          attempt, result, issued, acked, failed, kills, powerLosses>>

-----------------------------------------------------------------------------
\* The k-th update_locked call made by slot p.
Update == Procs \X (1..MaxUpdates)
UpdateOf(p) == <<p, issued[p]>>

\* "torn": created, or only part of the content written.  config.toml itself
\* is "none" until the first write: read_unvalidated_at maps a missing file
\* to the default config, the one that reflects no update.
File == [data : SUBSET Update, bytes : {"none", "torn", "whole"},
         synced : BOOLEAN]
NoFile == [data |-> {}, bytes |-> "none", synced |-> TRUE]

\* candidate_temp_path: config.toml.<pid>.<counter>.tmp.
TempName == Procs \X Nat
Candidate(p) == <<p, counter[p]>>
\* The name of the temp p created last.
TempOf(p) == <<p, counter[p] - 1>>

Goto(p, from, to) ==
  /\ pc[p] = from
  /\ pc' = [pc EXCEPT ![p] = to]

\* An early `?` return inside the critical section: LockGuard still runs.
FailTo(p, from) ==
  /\ Goto(p, from, "unlock")
  /\ result' = [result EXCEPT ![p] = "err"]

\* `let _ = fs::remove_file(&tmp)`: best effort, the error is dropped.
RemoveTemp(p) == temps' \in {temps, temps \ {TempOf(p)}}

-----------------------------------------------------------------------------
(* update_locked_inner *)

\* The re-entrancy check passes (no guard is alive on this thread), the
\* directory is ensured and config.lock opened; either may fail.
UpdateLocked(p) ==
  /\ issued[p] < MaxUpdates
  /\ ~lockHeld[p]
  /\ pc[p] = "idle"
  /\ issued' = [issued EXCEPT ![p] = @ + 1]
  /\ \/ /\ pc' = [pc EXCEPT ![p] = "try"]
        /\ UNCHANGED failed
     \/ /\ failed' = failed \cup {<<p, issued[p] + 1>>}
        /\ UNCHANGED pc
  /\ UNCHANGED <<fileVars, lock, procVars, acked, envVars>>

\* The lock was granted: LOCK_HELD is set and the guard constructed.
Granted(p, from) ==
  /\ Goto(p, from, "locked")
  /\ lock = NoProc
  /\ lock' = p
  /\ lockHeld' = [lockHeld EXCEPT ![p] = TRUE]

\* acquire_exclusive_lock, first half: try_lock.
TryLock(p) ==
  /\ \/ Granted(p, "try")
     \/ /\ Goto(p, "try", "waiting")
        /\ lock # NoProc
        /\ UNCHANGED <<lock, lockHeld>>
  /\ UNCHANGED <<fileVars, buf, tmp, counter, attempt, result, issued, doneVars,
                 envVars>>

\* acquire_exclusive_lock, second half: the blocking lock() after the notice.
BlockingLock(p) ==
  /\ Granted(p, "waiting")
  /\ UNCHANGED <<fileVars, buf, tmp, counter, attempt, result, issued, doneVars,
                 envVars>>

\* try_lock or lock fails: there is no guard to drop yet.
LockFails(p) ==
  /\ pc[p] \in {"try", "waiting"}
  /\ pc' = [pc EXCEPT ![p] = "idle"]
  /\ failed' = failed \cup {UpdateOf(p)}
  /\ UNCHANGED <<fileVars, lock, procVars, issued, acked, envVars>>

\* Mutant of Reload: the mutation is applied to the copy loaded earlier.
ReloadKeepsOldCopy(p) ==
  /\ Goto(p, "locked", "reloaded")
  /\ UNCHANGED <<fileVars, lock, procVars, issued, doneVars, envVars>>

\* read_unvalidated_at under the lock.
Reload(p) ==
  /\ \/ /\ Goto(p, "locked", "reloaded")
        /\ disk.bytes # "torn"
        /\ buf' = [buf EXCEPT ![p] = disk.data]
        /\ UNCHANGED result
     \/ FailTo(p, "locked") /\ UNCHANGED buf
  /\ UNCHANGED <<fileVars, lock, lockHeld, tmp, counter, attempt, issued,
                 doneVars, envVars>>

\* The mutator and, for update_locked_at, Config::validate: either may
\* refuse, and then nothing is written.
Mutate(p) ==
  /\ \/ /\ Goto(p, "reloaded", "mutated")
        /\ buf' = [buf EXCEPT ![p] = @ \cup {UpdateOf(p)}]
        /\ UNCHANGED result
     \/ FailTo(p, "reloaded") /\ UNCHANGED buf
  /\ UNCHANGED <<fileVars, lock, lockHeld, tmp, counter, attempt, issued,
                 doneVars, envVars>>

\* Mutant of NestedUpdateLocked: no re-entrancy check, the nested call waits
\* for the flock its own process holds.
NestedUpdateWaits(p) ==
  /\ lockHeld[p]
  /\ Goto(p, "reloaded", "waiting")
  /\ UNCHANGED <<fileVars, lock, procVars, issued, doneVars, envVars>>

\* A mutator that calls update_locked itself finds LOCK_HELD set: the nested
\* call returns an error instead of waiting for its own process's flock, and
\* the mutator passes the error on.
NestedUpdateLocked(p) ==
  /\ lockHeld[p]
  /\ FailTo(p, "reloaded")
  /\ UNCHANGED <<fileVars, lock, lockHeld, buf, tmp, counter, attempt, issued,
                 doneVars, envVars>>

-----------------------------------------------------------------------------
(* write_to_disk_at, atomic_write, write_unique_temp *)

\* reap_stale_temps: removes the aged temps; each removal is best effort.
ReapStaleTemps(p) ==
  /\ Goto(p, "mutated", "reaped")
  /\ \E gone \in SUBSET aged :
       /\ temps' = temps \ gone
       /\ aged' = aged \ gone
  /\ attempt' = [attempt EXCEPT ![p] = TempCreateAttempts]
  /\ UNCHANGED <<disk, durable, lock, lockHeld, buf, tmp, counter, result,
                 issued, doneVars, envVars>>

\* create_new on a candidate: taken by an orphan of an earlier process with
\* this pid (next candidate, until the attempts run out), created, or failed.
CreateTemp(p) ==
  /\ counter' = [counter EXCEPT ![p] = @ + 1]
  /\ attempt' = [attempt EXCEPT ![p] = @ - 1]
  /\ \/ /\ Goto(p, "reaped", "reaped")
        /\ Candidate(p) \in temps
        /\ attempt[p] > 1
        /\ UNCHANGED <<temps, tmp, result>>
     \/ /\ Candidate(p) \in temps
        /\ attempt[p] = 1
        /\ FailTo(p, "reaped")
        /\ UNCHANGED <<temps, tmp>>
     \/ /\ Goto(p, "reaped", "created")
        /\ Candidate(p) \notin temps
        /\ temps' = temps \cup {Candidate(p)}
        /\ tmp' = [tmp EXCEPT ![p] = [data |-> {}, bytes |-> "torn",
                                      synced |-> FALSE]]
        /\ UNCHANGED result
     \/ FailTo(p, "reaped") /\ UNCHANGED <<temps, tmp>>
  /\ UNCHANGED <<disk, durable, aged, lock, lockHeld, buf, issued, doneVars,
                 envVars>>

\* write_all; on failure the temp is removed.
WriteTemp(p) ==
  /\ \/ /\ Goto(p, "created", "written")
        /\ tmp' = [tmp EXCEPT ![p].data = buf[p], ![p].bytes = "whole"]
        /\ UNCHANGED <<temps, result>>
     \/ FailTo(p, "created") /\ RemoveTemp(p) /\ UNCHANGED tmp
  /\ aged' = aged \cap temps'
  /\ UNCHANGED <<disk, durable, lock, lockHeld, buf, counter, attempt, issued,
                 doneVars, envVars>>

\* Mutant of SyncTemp: the temp is renamed without having been synced.
SyncTempSkipped(p) ==
  /\ Goto(p, "written", "synced")
  /\ UNCHANGED <<fileVars, lock, procVars, issued, doneVars, envVars>>

\* sync_all on the temp; on failure the temp is removed.
SyncTemp(p) ==
  /\ \/ /\ Goto(p, "written", "synced")
        /\ tmp' = [tmp EXCEPT ![p].synced = TRUE]
        /\ UNCHANGED <<temps, result>>
     \/ FailTo(p, "written") /\ RemoveTemp(p) /\ UNCHANGED tmp
  /\ aged' = aged \cap temps'
  /\ UNCHANGED <<disk, durable, lock, lockHeld, buf, counter, attempt, issued,
                 doneVars, envVars>>

\* rename over config.toml: needs the temp's name to be there still.  Readers
\* see the new file at once; a power failure may bring back an older one
\* until the directory is synced.
Rename(p) ==
  /\ \/ /\ Goto(p, "synced", "renamed")
        /\ TempOf(p) \in temps
        /\ disk' = tmp[p]
        /\ durable' = durable \cup {tmp[p]}
        /\ temps' = temps \ {TempOf(p)}
        /\ UNCHANGED result
     \/ FailTo(p, "synced") /\ RemoveTemp(p) /\ UNCHANGED <<disk, durable>>
  /\ aged' = aged \cap temps'
  /\ UNCHANGED <<lock, lockHeld, buf, tmp, counter, attempt, issued, doneVars,
                 envVars>>

\* Mutant of FsyncParentDir: the directory is not synced.
FsyncParentDirSkipped(p) ==
  /\ Goto(p, "renamed", "unlock")
  /\ result' = [result EXCEPT ![p] = "ok"]
  /\ UNCHANGED <<fileVars, lock, lockHeld, buf, tmp, counter, attempt, issued,
                 doneVars, envVars>>

\* fsync_parent_dir: its error is returned although the rename took effect.
FsyncParentDir(p) ==
  /\ \/ /\ Goto(p, "renamed", "unlock")
        /\ durable' = {disk}
        /\ result' = [result EXCEPT ![p] = "ok"]
     \/ FailTo(p, "renamed") /\ UNCHANGED durable
  /\ UNCHANGED <<disk, temps, aged, lock, lockHeld, buf, tmp, counter, attempt,
                 issued, doneVars, envVars>>

\* LockGuard::drop, and the call returns.
Unlock(p) ==
  /\ Goto(p, "unlock", "idle")
  /\ lock' = NoProc
  /\ lockHeld' = [lockHeld EXCEPT ![p] = FALSE]
  /\ \/ /\ result[p] = "ok"
        /\ acked' = acked \cup {UpdateOf(p)}
        /\ UNCHANGED failed
     \/ /\ result[p] = "err"
        /\ failed' = failed \cup {UpdateOf(p)}
        /\ UNCHANGED acked
  /\ UNCHANGED <<fileVars, buf, tmp, counter, attempt, result, issued,
                 envVars>>

-----------------------------------------------------------------------------
(* The environment *)

\* A process dies (SIGKILL, panic): the kernel drops its flock, its temp stays
\* behind, and a later process may get its pid with a COUNTER of zero.
Kill(p) ==
  /\ kills < MaxKills
  /\ pc[p] # "idle"
  /\ kills' = kills + 1
  /\ pc' = [pc EXCEPT ![p] = "idle"]
  /\ lock' = IF lock = p THEN NoProc ELSE lock
  /\ lockHeld' = [lockHeld EXCEPT ![p] = FALSE]
  /\ counter' = [counter EXCEPT ![p] = 0]
  /\ UNCHANGED <<fileVars, buf, tmp, attempt, result, issued, doneVars,
                 powerLosses>>

\* The machine loses power: every process is gone, config.toml names one of
\* the files the directory may durably hold, and data that was never synced
\* may be cut short.
PowerLoss ==
  /\ powerLosses < MaxPowerLosses
  /\ powerLosses' = powerLosses + 1
  /\ \E f \in durable :
       /\ disk' \in {f, [f EXCEPT !.bytes = IF f.synced THEN @ ELSE "torn"]}
       /\ durable' = {disk'}
  /\ pc' = [p \in Procs |-> "idle"]
  /\ lock' = NoProc
  /\ lockHeld' = [p \in Procs |-> FALSE]
  /\ counter' = [p \in Procs |-> 0]
  /\ UNCHANGED <<temps, aged, buf, tmp, attempt, result, issued, doneVars,
                 kills>>

\* An hour passes for a temp.  Nothing in the code keeps a stopped process
\* from holding its temp that long, so a live temp ages too.
Age(n) ==
  /\ n \in temps \ aged
  /\ aged' = aged \cup {n}
  /\ UNCHANGED <<disk, durable, temps, lock, pc, procVars, issued, doneVars,
                 envVars>>

-----------------------------------------------------------------------------
Init ==
  /\ disk = NoFile
  /\ durable = {NoFile}
  /\ temps = {}
  /\ aged = {}
  /\ lock = NoProc
  /\ pc = [p \in Procs |-> "idle"]
  /\ lockHeld = [p \in Procs |-> FALSE]
  /\ buf = [p \in Procs |-> {}]
  /\ tmp = [p \in Procs |-> NoFile]
  /\ counter = [p \in Procs |-> 0]
  /\ attempt = [p \in Procs |-> 0]
  /\ result = [p \in Procs |-> "ok"]
  /\ issued = [p \in Procs |-> 0]
  /\ acked = {}
  /\ failed = {}
  /\ kills = 0
  /\ powerLosses = 0

\* One step of the call process p is in.
Step(p) ==
  \/ TryLock(p) \/ BlockingLock(p) \/ Reload(p) \/ Mutate(p)
  \/ NestedUpdateLocked(p) \/ ReapStaleTemps(p) \/ CreateTemp(p)
  \/ WriteTemp(p) \/ SyncTemp(p) \/ Rename(p) \/ FsyncParentDir(p)
  \/ Unlock(p)

Next ==
  \/ \E p \in Procs : UpdateLocked(p) \/ Step(p) \/ LockFails(p) \/ Kill(p)
  \/ PowerLoss
  \/ \E n \in temps : Age(n)

Spec == Init /\ [][Next]_vars

\* A running process keeps running: the mutators are non-interactive, and a
\* waiter is let through once the flock stays free.  No failing system call,
\* kill or new call is ever owed.
FairSpec == Spec /\ \A p \in Procs : WF_vars(Step(p))

-----------------------------------------------------------------------------
(* Properties *)

TypeOK ==
  /\ disk \in File
  /\ durable \in SUBSET File
  /\ temps \in SUBSET TempName
  /\ aged \in SUBSET temps
  /\ lock \in Procs \cup {NoProc}
  /\ pc \in [Procs -> {"idle", "try", "waiting", "locked", "reloaded", "mutated",
                       "reaped", "created", "written", "synced", "renamed",
                       "unlock"}]
  /\ lockHeld \in [Procs -> BOOLEAN]
  /\ buf \in [Procs -> SUBSET Update]
  /\ tmp \in [Procs -> File]
  /\ counter \in [Procs -> Nat]
  /\ attempt \in [Procs -> 0..TempCreateAttempts]
  /\ result \in [Procs -> {"ok", "err"}]
  /\ issued \in [Procs -> 0..MaxUpdates]
  /\ acked \in SUBSET Update
  /\ failed \in SUBSET Update
  /\ kills \in 0..MaxKills
  /\ powerLosses \in 0..MaxPowerLosses

\* Between the reload and the release no other process is in the critical
\* section of update_locked_inner, whatever processes were killed before.
CriticalSection == {"locked", "reloaded", "mutated", "reaped", "created",
                    "written", "synced", "renamed", "unlock"}
MutualExclusion ==
  \A p, q \in Procs :
    pc[p] \in CriticalSection /\ pc[q] \in CriticalSection => p = q

\* A reader that opens config.toml at any moment, also after a power failure,
\* finds a complete file or none at all (write_to_disk_at).
ConfigWhole == \A f \in durable \cup {disk} : f.bytes # "torn"

\* An update whose call returned Ok is in the file readers see and in every
\* file a power failure could bring back: neither a concurrent update nor a
\* crash of anybody loses it (the reload under the lock, the two fsyncs).
AckedSurvives ==
  \A f \in durable \cup {disk} : acked \subseteq f.data

\* The temp a process is about to rename is never swept away under it by
\* another process's reap_stale_temps, however long the process was stopped.
LiveTempKept ==
  \A p \in Procs :
    pc[p] \in {"created", "written", "synced"} => TempOf(p) \in temps

\* Every update_locked call of a process that is not killed returns, also
\* when the mutator calls update_locked again.
EveryCallReturns == \A p \in Procs : pc[p] # "idle" ~> pc[p] = "idle"

\* The concurrency design says a failed write leaves the original intact; the
\* update of a call that returned Err must then not be in the file.
FailedWriteLeavesConfig == failed \cap disk.data = {}

\* The store implements the abstract atomic configuration.
Atomic == INSTANCE AtomicConfig WITH config <- disk.data
ImplementsAtomic == Atomic!Spec
=============================================================================
