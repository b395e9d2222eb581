-------------------------- MODULE ConfigStoreProofs --------------------------
(***************************************************************************)
(* Theorems about ConfigStore for any number of processes, calls, kills    *)
(* and power failures.  The argument is layered: types; then who holds the *)
(* flock; then what the lock holder's memory and temp have to do with the  *)
(* file; and last that every step is a step of AtomicConfig.               *)
(***************************************************************************)
EXTENDS ConfigStore, TLAPS

USE ConfigStoreAssumption

-----------------------------------------------------------------------------
(* Types *)

\* TypeOK with what keeps it inductive: an attempt is left where one is about
\* to be used, and a call under way has been issued.
TypeInv ==
  /\ TypeOK
  /\ \A p \in Procs : pc[p] = "reaped" => attempt[p] >= 1
  /\ \A p \in Procs : pc[p] # "idle" => issued[p] >= 1

LEMMA UpdateOfType ==
  ASSUME TypeInv, NEW p \in Procs, pc[p] # "idle"
  PROVE  UpdateOf(p) \in Update
  BY DEF TypeInv, TypeOK, UpdateOf, Update

LEMMA InitTypeInv == Init => TypeInv
  BY DEF Init, TypeInv, TypeOK, File, NoFile

LEMMA NextTypeInv == TypeInv /\ [Next]_vars => TypeInv'
<1> SUFFICES ASSUME TypeInv, [Next]_vars PROVE TypeInv'
  OBVIOUS
<1> USE DEF TypeInv, TypeOK, fileVars, procVars, doneVars, envVars
<1>1. ASSUME NEW p \in Procs, UpdateLocked(p) PROVE TypeInv'
  BY <1>1 DEF UpdateLocked, Update
<1>2. ASSUME NEW p \in Procs, TryLock(p) PROVE TypeInv'
  BY <1>2 DEF TryLock, Granted, Goto
<1>3. ASSUME NEW p \in Procs, BlockingLock(p) PROVE TypeInv'
  BY <1>3 DEF BlockingLock, Granted, Goto
<1>4. ASSUME NEW p \in Procs, LockFails(p) PROVE TypeInv'
  BY <1>4, UpdateOfType DEF LockFails
<1>5. ASSUME NEW p \in Procs, Reload(p) PROVE TypeInv'
  BY <1>5 DEF Reload, Goto, FailTo, File
<1>6. ASSUME NEW p \in Procs, Mutate(p) PROVE TypeInv'
  BY <1>6, UpdateOfType DEF Mutate, Goto, FailTo
<1>7. ASSUME NEW p \in Procs, NestedUpdateLocked(p) PROVE TypeInv'
  BY <1>7 DEF NestedUpdateLocked, Goto, FailTo
<1>8. ASSUME NEW p \in Procs, ReapStaleTemps(p) PROVE TypeInv'
  BY <1>8 DEF ReapStaleTemps, Goto
<1>9. ASSUME NEW p \in Procs, CreateTemp(p) PROVE TypeInv'
  <2>1. /\ pc[p] = "reaped"
        /\ attempt[p] \in 1..TempCreateAttempts
        /\ pc' \in {pc, [pc EXCEPT ![p] = "unlock"], [pc EXCEPT ![p] = "created"]}
    BY <1>9 DEF CreateTemp, Goto, FailTo
  <2>2. /\ counter' \in [Procs -> Nat]
        /\ attempt' \in [Procs -> 0..TempCreateAttempts]
        /\ result' \in [Procs -> {"ok", "err"}]
    BY <1>9, <2>1 DEF CreateTemp, FailTo
  <2>3. Candidate(p) \in TempName
    BY DEF Candidate, TempName
  <2>4. temps' \in SUBSET TempName /\ aged' \in SUBSET temps'
    BY <1>9, <2>3 DEF CreateTemp
  <2>5. tmp' \in [Procs -> File]
    <3>1. [data |-> {}, bytes |-> "torn", synced |-> FALSE] \in File
      BY DEF File
    <3>2. QED
      BY <1>9, <3>1 DEF CreateTemp
  <2>6. \A q \in Procs : pc'[q] = "reaped" => attempt'[q] >= 1
    BY <1>9, <2>1 DEF CreateTemp, Goto, FailTo
  <2>7. QED
    BY <1>9, <2>1, <2>2, <2>4, <2>5, <2>6 DEF CreateTemp
<1>10. ASSUME NEW p \in Procs, WriteTemp(p) PROVE TypeInv'
  <2>1. tmp' \in [Procs -> File]
    <3>1. [tmp[p] EXCEPT !.data = buf[p], !.bytes = "whole"] \in File
      BY DEF File
    <3>2. tmp' \in {tmp, [tmp EXCEPT ![p].data = buf[p], ![p].bytes = "whole"]}
      BY <1>10 DEF WriteTemp
    <3>3. QED
      BY <3>1, <3>2
  <2>2. temps' \in SUBSET temps /\ aged' \in SUBSET temps'
    BY <1>10 DEF WriteTemp, RemoveTemp
  <2>3. QED
    BY <1>10, <2>1, <2>2 DEF WriteTemp, Goto, FailTo
<1>11. ASSUME NEW p \in Procs, SyncTemp(p) PROVE TypeInv'
  <2>1. tmp' \in [Procs -> File]
    <3>1. [tmp[p] EXCEPT !.synced = TRUE] \in File
      BY DEF File
    <3>2. tmp' \in {tmp, [tmp EXCEPT ![p].synced = TRUE]}
      BY <1>11 DEF SyncTemp
    <3>3. QED
      BY <3>1, <3>2
  <2>2. temps' \in SUBSET temps /\ aged' \in SUBSET temps'
    BY <1>11 DEF SyncTemp, RemoveTemp
  <2>3. QED
    BY <1>11, <2>1, <2>2 DEF SyncTemp, Goto, FailTo
<1>12. ASSUME NEW p \in Procs, Rename(p) PROVE TypeInv'
  BY <1>12 DEF Rename, Goto, FailTo, RemoveTemp
<1>13. ASSUME NEW p \in Procs, FsyncParentDir(p) PROVE TypeInv'
  BY <1>13 DEF FsyncParentDir, Goto, FailTo
<1>14. ASSUME NEW p \in Procs, Unlock(p) PROVE TypeInv'
  BY <1>14, UpdateOfType DEF Unlock, Goto
<1>15. ASSUME NEW p \in Procs, Kill(p) PROVE TypeInv'
  BY <1>15 DEF Kill
<1>16. CASE PowerLoss
  <2>1. PICK f \in durable :
          /\ disk' \in {f, [f EXCEPT !.bytes = IF f.synced THEN @ ELSE "torn"]}
          /\ durable' = {disk'}
    BY <1>16 DEF PowerLoss
  <2>2. [f EXCEPT !.bytes = IF f.synced THEN @ ELSE "torn"] \in File
    BY DEF File
  <2>3. QED
    BY <1>16, <2>1, <2>2 DEF PowerLoss
<1>17. ASSUME NEW n \in temps, Age(n) PROVE TypeInv'
  BY <1>17 DEF Age
<1>18. CASE UNCHANGED vars
  BY <1>18 DEF vars
<1>19. QED
  BY <1>1, <1>2, <1>3, <1>4, <1>5, <1>6, <1>7, <1>8, <1>9, <1>10, <1>11,
     <1>12, <1>13, <1>14, <1>15, <1>16, <1>17, <1>18 DEF Next, Step

\* Every variable of update_locked_inner keeps its type: in particular the
\* temp attempts never run below zero and the outcomes name issued calls.
THEOREM TypeCorrect == Spec => []TypeOK
<1>1. TypeInv => TypeOK
  BY DEF TypeInv
<1>2. QED
  BY InitTypeInv, NextTypeInv, <1>1, PTL DEF Spec

-----------------------------------------------------------------------------
(* The lock *)

\* Whoever is past acquire_exclusive_lock holds the flock and has LOCK_HELD.
LockInv ==
  \A p \in Procs : pc[p] \in CriticalSection => lock = p /\ lockHeld[p]

LEMMA NextLockInv == TypeInv /\ LockInv /\ [Next]_vars => LockInv'
<1> SUFFICES ASSUME TypeInv, LockInv, [Next]_vars PROVE LockInv'
  OBVIOUS
<1> USE DEF TypeInv, TypeOK, LockInv, CriticalSection, fileVars, procVars,
            doneVars, envVars
<1>1. ASSUME NEW p \in Procs, UpdateLocked(p) PROVE LockInv'
  BY <1>1 DEF UpdateLocked
<1>2. ASSUME NEW p \in Procs, TryLock(p) \/ BlockingLock(p) PROVE LockInv'
  BY <1>2 DEF TryLock, BlockingLock, Granted, Goto
<1>3. ASSUME NEW p \in Procs, LockFails(p) PROVE LockInv'
  BY <1>3 DEF LockFails
<1>4. ASSUME NEW p \in Procs,
             Reload(p) \/ Mutate(p) \/ NestedUpdateLocked(p) \/ ReapStaleTemps(p)
      PROVE  LockInv'
  BY <1>4 DEF Reload, Mutate, NestedUpdateLocked, ReapStaleTemps, Goto, FailTo
<1>5. ASSUME NEW p \in Procs,
             \/ CreateTemp(p) \/ WriteTemp(p) \/ SyncTemp(p) \/ Rename(p)
             \/ FsyncParentDir(p)
      PROVE  LockInv'
  <2>1. /\ pc[p] \in CriticalSection
        /\ \E to \in CriticalSection : pc' = [pc EXCEPT ![p] = to]
        /\ UNCHANGED <<lock, lockHeld>>
    BY <1>5 DEF CreateTemp, WriteTemp, SyncTemp, Rename, FsyncParentDir, Goto,
                FailTo
  <2>2. QED
    BY <2>1
<1>6. ASSUME NEW p \in Procs, Unlock(p) PROVE LockInv'
  BY <1>6 DEF Unlock, Goto
<1>7. ASSUME NEW p \in Procs, Kill(p) PROVE LockInv'
  BY <1>7 DEF Kill
<1>8. CASE PowerLoss
  BY <1>8 DEF PowerLoss
<1>9. ASSUME NEW n \in temps, Age(n) PROVE LockInv'
  BY <1>9 DEF Age
<1>10. CASE UNCHANGED vars
  BY <1>10 DEF vars
<1>11. QED
  BY <1>1, <1>2, <1>3, <1>4, <1>5, <1>6, <1>7, <1>8, <1>9, <1>10 DEF Next, Step

\* At most one process is between the grant of the flock and its release,
\* for any number of processes killed while they held it.
THEOREM Exclusion == Spec => []MutualExclusion
<1>1. Init => LockInv
  BY DEF Init, LockInv, CriticalSection
<1>2. LockInv => MutualExclusion
  BY DEF LockInv, MutualExclusion
<1>3. QED
  BY InitTypeInv, NextTypeInv, NextLockInv, <1>1, <1>2, PTL DEF Spec

-----------------------------------------------------------------------------
(* The lock holder's memory, its temp, and the file *)

Reloaded == {"reloaded"}
Edited == {"mutated", "reaped", "created", "written", "synced"}
Unwritten == {"try", "waiting", "locked", "reloaded"} \cup Edited
TempAlive == {"created", "written", "synced"}
Files == durable \cup {disk}

\* The copy the lock holder edits is the file as it is now.
BufInv ==
  \A p \in Procs :
    /\ pc[p] \in Reloaded => buf[p] = disk.data
    /\ pc[p] \in Edited => buf[p] = disk.data \cup {UpdateOf(p)}

\* The temp about to be renamed is there, complete and synced.
TempInv ==
  \A p \in Procs :
    /\ pc[p] \in TempAlive => TempOf(p) \in temps
    /\ pc[p] \in {"written", "synced"} =>
         tmp[p].bytes = "whole" /\ tmp[p].data = buf[p]
    /\ pc[p] = "synced" => tmp[p].synced

\* Whatever config.toml names, now or after a power failure, is complete, and
\* reflects every acknowledged update and the one about to be acknowledged, and
\* none that readers do not see now.
FilesInv ==
  /\ \A f \in Files :
       /\ f.bytes # "torn" /\ f.synced
       /\ acked \subseteq f.data /\ f.data \subseteq disk.data
  /\ \A p \in Procs :
       /\ pc[p] = "renamed" => UpdateOf(p) \in disk.data
       /\ pc[p] = "unlock" /\ result[p] = "ok" =>
            \A f \in Files : UpdateOf(p) \in f.data

\* No file reflects an update that was not issued, or not yet written.
FreshInv ==
  \A f \in Files, p \in Procs :
    /\ \A k \in 1..MaxUpdates : k > issued[p] => <<p, k>> \notin f.data
    /\ pc[p] \in Unwritten => UpdateOf(p) \notin f.data

StoreInv == TypeInv /\ LockInv /\ BufInv /\ TempInv /\ FilesInv /\ FreshInv

LEMMA InitStoreInv == Init => StoreInv
<1> SUFFICES ASSUME Init PROVE StoreInv
  OBVIOUS
<1>1. TypeInv
  BY InitTypeInv
<1>2. LockInv /\ BufInv /\ TempInv
  BY DEF Init, LockInv, BufInv, TempInv, CriticalSection, Reloaded, Edited,
         TempAlive
<1>3. FilesInv /\ FreshInv
  BY DEF Init, FilesInv, FreshInv, Files, NoFile, Unwritten, Edited
<1>4. QED
  BY <1>1, <1>2, <1>3 DEF StoreInv

\* No step of one process reaches into the critical section of another.
LEMMA Others ==
  ASSUME StoreInv, NEW p \in Procs, NEW q \in Procs, q # p,
         pc[p] \in CriticalSection
  PROVE  pc[q] \notin CriticalSection
  BY DEF StoreInv, LockInv

\* What the steps that leave the files and the acknowledgements alone must
\* respect, said once for all of them.
LEMMA QuietStep ==
  ASSUME StoreInv, TypeInv', LockInv', NEW p \in Procs,
         UNCHANGED <<disk, durable, acked, issued>>,
         \A q \in Procs \ {p} :
           pc'[q] = pc[q] /\ result'[q] = result[q],
         pc'[p] \in Unwritten => pc[p] \in Unwritten,
         pc'[p] = "renamed" => pc[p] = "renamed",
         pc'[p] = "unlock" /\ result'[p] = "ok" =>
           pc[p] = "unlock" /\ result[p] = "ok"
  PROVE  FilesInv' /\ FreshInv'
<1>1. Files' = Files
  BY DEF Files
<1>2. \A q \in Procs : UpdateOf(q)' = UpdateOf(q)
  BY DEF UpdateOf
<1>3. FilesInv'
  BY <1>1, <1>2 DEF StoreInv, FilesInv
<1>4. FreshInv'
  BY <1>1, <1>2 DEF StoreInv, FreshInv
<1>5. QED
  BY <1>3, <1>4

LEMMA NextDataInv ==
  ASSUME StoreInv, [Next]_vars, TypeInv', LockInv'
  PROVE  BufInv' /\ TempInv' /\ FilesInv' /\ FreshInv'
<1> DEFINE Goal == BufInv' /\ TempInv' /\ FilesInv' /\ FreshInv'
<1> USE DEF fileVars, procVars, doneVars, envVars
<1>0. TypeOK /\ TypeOK' /\ TypeInv /\ LockInv /\ BufInv /\ TempInv /\ FilesInv /\ FreshInv
  BY DEF StoreInv, TypeInv
<1>1. ASSUME NEW p \in Procs, UpdateLocked(p) PROVE Goal
  <2>1. /\ Files' = Files
        /\ issued'[p] = issued[p] + 1
        /\ \A q \in Procs \ {p} : issued'[q] = issued[q] /\ pc'[q] = pc[q]
        /\ pc[p] = "idle" /\ pc'[p] \in {"idle", "try"}
    BY <1>0, <1>1 DEF UpdateLocked, Files, TypeOK
  <2>2. BufInv' /\ TempInv'
    BY <1>0, <1>1, <2>1 DEF UpdateLocked, BufInv, TempInv, Reloaded, Edited,
                            TempAlive, UpdateOf, TempOf
  <2>3. FilesInv'
    BY <1>0, <1>1, <2>1 DEF UpdateLocked, FilesInv, UpdateOf
  <2>4. FreshInv'
    <3>1. SUFFICES ASSUME NEW f \in Files, NEW q \in Procs
                   PROVE  /\ \A k \in 1..MaxUpdates :
                               k > issued'[q] => <<q, k>> \notin f.data
                          /\ pc'[q] \in Unwritten => <<q, issued'[q]>> \notin f.data
      BY <2>1 DEF FreshInv, UpdateOf
    <3>2. CASE q = p
      <4>1. \A k \in 1..MaxUpdates : k > issued[p] => <<p, k>> \notin f.data
        BY <1>0 DEF FreshInv
      <4>2. issued'[p] \in 1..MaxUpdates /\ issued[p] \in Nat
        BY <1>0, <2>1, <1>1 DEF TypeOK, UpdateLocked
      <4>3. QED
        BY <2>1, <3>2, <4>1, <4>2
    <3>3. CASE q # p
      BY <1>0, <2>1, <3>3 DEF FreshInv, UpdateOf
    <3>4. QED
      BY <3>2, <3>3
  <2>5. QED
    BY <2>2, <2>3, <2>4
<1>2. ASSUME NEW p \in Procs, TryLock(p) \/ BlockingLock(p) \/ LockFails(p)
      PROVE  Goal
  <2>1. /\ pc[p] \in {"try", "waiting"}
        /\ pc' \in {[pc EXCEPT ![p] = to] : to \in {"idle", "waiting", "locked"}}
        /\ UNCHANGED <<fileVars, buf, tmp, counter, result, issued, acked>>
    BY <1>2 DEF TryLock, BlockingLock, LockFails, Granted, Goto
  <2>2. BufInv' /\ TempInv'
    BY <1>0, <2>1 DEF BufInv, TempInv, Reloaded, Edited, TempAlive, UpdateOf,
                      TempOf, TypeOK
  <2>3. FilesInv' /\ FreshInv'
    BY <1>0, <2>1, QuietStep DEF TypeOK, Unwritten
  <2>4. QED
    BY <2>2, <2>3
<1>3. ASSUME NEW p \in Procs,
             Reload(p) \/ Mutate(p) \/ NestedUpdateLocked(p) \/ ReapStaleTemps(p)
      PROVE  Goal
  <2>1. /\ pc[p] \in {"locked", "reloaded", "mutated"}
        /\ pc' \in {[pc EXCEPT ![p] = to] :
                      to \in {"reloaded", "mutated", "reaped", "unlock"}}
        /\ pc'[p] = "unlock" => result'[p] = "err"
        /\ result' = [result EXCEPT ![p] = result'[p]]
        /\ UNCHANGED <<disk, durable, tmp, counter, issued, acked>>
    BY <1>0, <1>3 DEF Reload, Mutate, NestedUpdateLocked, ReapStaleTemps, Goto,
                      FailTo, TypeOK
  <2>2. \A q \in Procs \ {p} : pc[q] \notin CriticalSection
    BY <2>1, Others DEF CriticalSection
  <2>3. BufInv'
    BY <1>0, <1>3, <2>1, <2>2
       DEF Reload, Mutate, NestedUpdateLocked, ReapStaleTemps, Goto, FailTo,
           BufInv, Reloaded, Edited, CriticalSection, UpdateOf, TypeOK
  <2>4. TempInv'
    BY <1>0, <2>1, <2>2 DEF TempInv, TempAlive, CriticalSection, TypeOK
  <2>5. FilesInv' /\ FreshInv'
    BY <1>0, <2>1, QuietStep DEF TypeOK, Unwritten, Edited
  <2>6. QED
    BY <2>3, <2>4, <2>5
<1>4. ASSUME NEW p \in Procs, CreateTemp(p) \/ WriteTemp(p) \/ SyncTemp(p)
      PROVE  Goal
  <2>1. /\ pc[p] \in {"reaped", "created", "written"}
        /\ pc' \in {[pc EXCEPT ![p] = to] :
                      to \in {"reaped", "created", "written", "synced", "unlock"}}
        /\ pc'[p] = "unlock" => result'[p] = "err"
        /\ result' = [result EXCEPT ![p] = result'[p]]
        /\ UNCHANGED <<disk, durable, buf, issued, acked>>
    BY <1>0, <1>4 DEF CreateTemp, WriteTemp, SyncTemp, Goto, FailTo, TypeOK
  <2>2. \A q \in Procs \ {p} : pc[q] \notin CriticalSection
    BY <2>1, Others DEF CriticalSection
  <2>3. BufInv'
    BY <1>0, <2>1, <2>2 DEF BufInv, Reloaded, Edited, CriticalSection, UpdateOf,
                            TypeOK
  <2>4. TempInv'
    <3>1. \A q \in Procs \ {p} : pc'[q] = pc[q] /\ pc[q] \notin TempAlive
      BY <1>0, <2>1, <2>2 DEF TypeOK, TempAlive, CriticalSection
    <3>2. CASE CreateTemp(p)
      <4>1. pc'[p] \notin {"written", "synced"}
        BY <1>0, <3>2 DEF CreateTemp, Goto, FailTo, TypeOK
      <4>2. pc'[p] = "created" => TempOf(p)' = Candidate(p) /\ Candidate(p) \in temps'
        BY <1>0, <3>2 DEF CreateTemp, Goto, FailTo, TypeOK, TempOf, Candidate
      <4>3. QED
        BY <3>1, <4>1, <4>2 DEF TempInv, TempAlive
    <3>3. CASE WriteTemp(p)
      <4>1. /\ pc[p] = "created" /\ TempOf(p)' = TempOf(p)
            /\ pc'[p] \in {"written", "unlock"}
            /\ buf' = buf
        BY <1>0, <3>3 DEF WriteTemp, Goto, FailTo, TypeOK, TempOf
      <4>2. pc'[p] = "written" =>
              /\ temps' = temps
              /\ tmp'[p].bytes = "whole" /\ tmp'[p].data = buf[p]
        BY <1>0, <3>3 DEF WriteTemp, Goto, FailTo, TypeOK, File
      <4>3. QED
        BY <1>0, <3>1, <4>1, <4>2 DEF TempInv, TempAlive
    <3>4. CASE SyncTemp(p)
      <4>1. /\ pc[p] = "written" /\ TempOf(p)' = TempOf(p)
            /\ pc'[p] \in {"synced", "unlock"}
            /\ buf' = buf
        BY <1>0, <3>4 DEF SyncTemp, Goto, FailTo, TypeOK, TempOf
      <4>2. pc'[p] = "synced" =>
              /\ temps' = temps
              /\ tmp'[p] = [tmp[p] EXCEPT !.synced = TRUE]
        BY <1>0, <3>4 DEF SyncTemp, Goto, FailTo, TypeOK
      <4>3. pc'[p] = "synced" =>
              /\ tmp'[p].synced
              /\ tmp'[p].bytes = tmp[p].bytes /\ tmp'[p].data = tmp[p].data
        BY <1>0, <4>2 DEF TypeOK, File
      <4>4. QED
        BY <1>0, <3>1, <4>1, <4>2, <4>3 DEF TempInv, TempAlive
    <3>5. QED
      BY <1>4, <3>2, <3>3, <3>4
  <2>5. FilesInv' /\ FreshInv'
    BY <1>0, <2>1, QuietStep DEF TypeOK, Unwritten, Edited
  <2>6. QED
    BY <2>3, <2>4, <2>5
<1>5. ASSUME NEW p \in Procs, Rename(p) PROVE Goal
  <2>1. /\ pc[p] = "synced"
        /\ UNCHANGED <<buf, tmp, issued, acked, counter>>
        /\ pc' \in {[pc EXCEPT ![p] = to] : to \in {"renamed", "unlock"}}
        /\ pc'[p] = "unlock" => result'[p] = "err"
        /\ result' = [result EXCEPT ![p] = result'[p]]
    BY <1>0, <1>5 DEF Rename, Goto, FailTo, TypeOK
  <2>2. \A q \in Procs \ {p} : pc[q] \notin CriticalSection
    BY <2>1, Others DEF CriticalSection
  <2>3. BufInv' /\ TempInv'
    BY <1>0, <2>1, <2>2 DEF BufInv, TempInv, Reloaded, Edited, TempAlive,
                            CriticalSection, TypeOK
  <2>4. CASE pc'[p] = "unlock"
    <3>1. UNCHANGED <<disk, durable>>
      BY <1>0, <1>5, <2>4 DEF Rename, Goto, FailTo, TypeOK
    <3>2. FilesInv' /\ FreshInv'
      BY <1>0, <2>1, <2>4, <3>1, QuietStep DEF TypeOK, Unwritten, Edited
    <3>3. QED
      BY <2>3, <3>2
  <2>5. CASE pc'[p] = "renamed"
    <3>1. /\ disk' = tmp[p]
          /\ Files' \subseteq Files \cup {tmp[p]}
      BY <1>0, <1>5, <2>5 DEF Rename, Goto, FailTo, TypeOK, Files
    <3>2. /\ tmp[p].bytes = "whole" /\ tmp[p].synced
          /\ tmp[p].data = disk.data \cup {UpdateOf(p)}
      BY <1>0, <2>1 DEF TempInv, BufInv, Edited
    <3>3. UpdateOf(p)' = UpdateOf(p)
      BY <2>1 DEF UpdateOf
    <3>4. FilesInv'
      BY <1>0, <2>1, <2>2, <2>5, <3>1, <3>2, <3>3
         DEF FilesInv, CriticalSection, TypeOK, Files
    <3>5. FreshInv'
      BY <1>0, <2>1, <2>5, <3>1, <3>2
         DEF FreshInv, Unwritten, Edited, TypeOK, Files, UpdateOf
    <3>6. QED
      BY <2>3, <3>4, <3>5
  <2>6. QED
    BY <1>0, <2>1, <2>4, <2>5 DEF TypeOK
<1>6. ASSUME NEW p \in Procs, FsyncParentDir(p) PROVE Goal
  <2>1. /\ pc[p] = "renamed"
        /\ UNCHANGED <<disk, buf, tmp, issued, acked, counter, temps>>
        /\ pc' = [pc EXCEPT ![p] = "unlock"]
    BY <1>0, <1>6 DEF FsyncParentDir, Goto, FailTo, TypeOK
  <2>2. \A q \in Procs \ {p} : pc[q] \notin CriticalSection
    BY <2>1, Others DEF CriticalSection
  <2>3. BufInv' /\ TempInv'
    BY <1>0, <2>1, <2>2 DEF BufInv, TempInv, Reloaded, Edited, TempAlive,
                            CriticalSection, TypeOK
  <2>4. Files' \subseteq Files
    BY <1>6 DEF FsyncParentDir, Files
  <2>5. result'[p] = "ok" => Files' = {disk}
    BY <1>0, <1>6 DEF FsyncParentDir, FailTo, TypeOK, Files
  <2>6. FilesInv'
    BY <1>0, <2>1, <2>2, <2>4, <2>5 DEF FilesInv, CriticalSection, TypeOK,
                                        UpdateOf, Files
  <2>7. FreshInv'
    BY <1>0, <2>1, <2>4 DEF FreshInv, Unwritten, Edited, UpdateOf, TypeOK
  <2>8. QED
    BY <2>3, <2>6, <2>7
<1>7. ASSUME NEW p \in Procs, Unlock(p) PROVE Goal
  <2>1. /\ pc[p] = "unlock"
        /\ UNCHANGED <<disk, durable, buf, tmp, issued, counter, temps, result>>
        /\ pc' = [pc EXCEPT ![p] = "idle"]
    BY <1>7 DEF Unlock, Goto
  <2>2. BufInv' /\ TempInv'
    BY <1>0, <2>1 DEF BufInv, TempInv, Reloaded, Edited, TempAlive, TypeOK,
                      UpdateOf, TempOf
  <2>3. \A f \in Files : acked' \subseteq f.data
    BY <1>0, <1>7, <2>1 DEF Unlock, FilesInv
  <2>4. FilesInv'
    BY <1>0, <2>1, <2>3 DEF FilesInv, TypeOK, Files, UpdateOf
  <2>5. FreshInv'
    BY <1>0, <2>1 DEF FreshInv, Unwritten, Edited, TypeOK, Files, UpdateOf
  <2>6. QED
    BY <2>2, <2>4, <2>5
<1>8. ASSUME NEW p \in Procs, Kill(p) PROVE Goal
  <2>1. /\ UNCHANGED <<disk, durable, buf, tmp, issued, acked, temps, result>>
        /\ pc' = [pc EXCEPT ![p] = "idle"]
        /\ counter' = [counter EXCEPT ![p] = 0]
    BY <1>8 DEF Kill
  <2>2. BufInv'
    BY <1>0, <2>1 DEF BufInv, Reloaded, Edited, TypeOK, UpdateOf
  <2>3. TempInv'
    BY <1>0, <2>1 DEF TempInv, TempAlive, TypeOK, TempOf
  <2>4. FilesInv' /\ FreshInv'
    BY <1>0, <2>1, QuietStep DEF TypeOK, Unwritten, Edited
  <2>5. QED
    BY <2>2, <2>3, <2>4
<1>9. CASE PowerLoss
  <2>1. disk' \in Files /\ Files' = {disk'}
    <3>1. PICK f \in durable :
            /\ disk' \in {f, [f EXCEPT !.bytes = IF f.synced THEN @ ELSE "torn"]}
            /\ durable' = {disk'}
      BY <1>9 DEF PowerLoss
    <3>2. f.synced /\ f \in File
      BY <1>0 DEF FilesInv, Files, TypeOK
    <3>3. [f EXCEPT !.bytes = IF f.synced THEN @ ELSE "torn"] = f
      BY <3>2 DEF File
    <3>4. QED
      BY <3>1, <3>3 DEF Files
  <2>2. \A q \in Procs : pc'[q] = "idle"
    BY <1>9 DEF PowerLoss
  <2>3. UNCHANGED <<acked, issued>>
    BY <1>9 DEF PowerLoss
  <2>4. BufInv' /\ TempInv'
    BY <2>2 DEF BufInv, TempInv, Reloaded, Edited, TempAlive
  <2>5. FilesInv' /\ FreshInv'
    BY <1>0, <2>1, <2>2, <2>3 DEF FilesInv, FreshInv, Unwritten, Edited
  <2>6. QED
    BY <2>4, <2>5
<1>10. CASE (\E n \in temps : Age(n)) \/ UNCHANGED vars
  <2>1. UNCHANGED <<disk, durable, temps, pc, buf, tmp, counter, result, issued,
                    acked>>
    BY <1>10 DEF Age, vars
  <2>2. QED
    BY <1>0, <2>1 DEF BufInv, TempInv, FilesInv, FreshInv, Files, UpdateOf,
                      TempOf
<1>11. QED
  BY <1>1, <1>2, <1>3, <1>4, <1>5, <1>6, <1>7, <1>8, <1>9, <1>10 DEF Next, Step

LEMMA NextStoreInv == StoreInv /\ [Next]_vars => StoreInv'
<1> SUFFICES ASSUME StoreInv, [Next]_vars PROVE StoreInv'
  OBVIOUS
<1>1. TypeInv' /\ LockInv'
  BY NextTypeInv, NextLockInv DEF StoreInv
<1>2. QED
  BY <1>1, NextDataInv DEF StoreInv

LEMMA StoreInvariant == Spec => []StoreInv
  BY InitStoreInv, NextStoreInv, PTL DEF Spec

-----------------------------------------------------------------------------
(* The theorems *)

\* A reader never finds a partial config.toml, not even after a power failure.
THEOREM Whole == Spec => []ConfigWhole
<1>1. StoreInv => ConfigWhole
  BY DEF StoreInv, FilesInv, Files, ConfigWhole
<1>2. QED
  BY StoreInvariant, <1>1, PTL

\* An acknowledged update survives every concurrent update, every kill and
\* every power failure.
THEOREM Survival == Spec => []AckedSurvives
<1>1. StoreInv => AckedSurvives
  BY DEF StoreInv, FilesInv, Files, AckedSurvives
<1>2. QED
  BY StoreInvariant, <1>1, PTL

\* reap_stale_temps never takes a temp that is about to be renamed.
THEOREM TempSafety == Spec => []LiveTempKept
<1>1. StoreInv => LiveTempKept
  BY DEF StoreInv, TempInv, TempAlive, LiveTempKept
<1>2. QED
  BY StoreInvariant, <1>1, PTL

\* Every step of the store is a step of the atomic configuration or changes
\* nothing it can see: the rename is the moment an update takes effect.
LEMMA StoreStep ==
  ASSUME StoreInv, [Next]_vars
  PROVE  [Atomic!Next]_(Atomic!vars)
<1> USE DEF Atomic!Next, Atomic!vars, fileVars, procVars, doneVars, envVars
<1>0. TypeOK /\ TypeInv /\ FilesInv /\ BufInv /\ TempInv /\ FreshInv
  BY DEF StoreInv, TypeInv
<1>1. ASSUME NEW p \in Procs, Rename(p) PROVE [Atomic!Next]_(Atomic!vars)
  <2>1. pc[p] = "synced" /\ acked' = acked
    BY <1>1 DEF Rename, Goto, FailTo
  <2>2. UpdateOf(p) \in Update
    BY <1>0, <2>1, UpdateOfType
  <2>3. tmp[p].data = disk.data \cup {UpdateOf(p)} /\ UpdateOf(p) \notin disk.data
    BY <1>0, <2>1 DEF TempInv, BufInv, FreshInv, Files, Edited, Unwritten
  <2>4. disk' \in {disk, tmp[p]}
    BY <1>1 DEF Rename
  <2>5. QED
    BY <2>1, <2>2, <2>3, <2>4 DEF Atomic!Commit
<1>2. ASSUME NEW p \in Procs, Unlock(p) PROVE [Atomic!Next]_(Atomic!vars)
  <2>1. disk' = disk /\ pc[p] = "unlock"
    BY <1>2 DEF Unlock, Goto
  <2>2. UpdateOf(p) \in Update
    BY <1>0, <2>1, UpdateOfType
  <2>3. result[p] = "ok" => UpdateOf(p) \in disk.data
    BY <1>0, <2>1 DEF FilesInv, Files
  <2>4. QED
    BY <1>2, <2>1, <2>2, <2>3 DEF Unlock, Atomic!Acknowledge
<1>3. CASE PowerLoss
  <2>1. PICK f \in durable :
          disk' \in {f, [f EXCEPT !.bytes = IF f.synced THEN @ ELSE "torn"]}
    BY <1>3 DEF PowerLoss
  <2>2. disk'.data = f.data
    BY <1>0, <2>1 DEF TypeOK, File
  <2>3. acked \subseteq f.data /\ f.data \subseteq disk.data
    BY <1>0 DEF FilesInv, Files
  <2>4. acked' = acked
    BY <1>3 DEF PowerLoss
  <2>5. QED
    BY <2>2, <2>3, <2>4 DEF Atomic!Rollback
<1>4. ASSUME NEW p \in Procs,
             \/ UpdateLocked(p) \/ TryLock(p) \/ BlockingLock(p) \/ LockFails(p)
             \/ Reload(p) \/ Mutate(p) \/ NestedUpdateLocked(p)
             \/ ReapStaleTemps(p) \/ Kill(p)
      PROVE  UNCHANGED <<disk, acked>>
  BY <1>4 DEF UpdateLocked, TryLock, BlockingLock, LockFails, Reload, Mutate,
              NestedUpdateLocked, ReapStaleTemps, Kill
<1>5. ASSUME NEW p \in Procs,
             CreateTemp(p) \/ WriteTemp(p) \/ SyncTemp(p) \/ FsyncParentDir(p)
      PROVE  UNCHANGED <<disk, acked>>
  BY <1>5 DEF CreateTemp, WriteTemp, SyncTemp, FsyncParentDir
<1>6. CASE (\E n \in temps : Age(n)) \/ UNCHANGED vars
  BY <1>6 DEF Age, vars
<1>7. QED
  BY <1>1, <1>2, <1>3, <1>4, <1>5, <1>6 DEF Next, Step

\* Config::update_locked is an atomic, durable update of the configuration:
\* the file store implements AtomicConfig.
THEOREM Refinement == Spec => ImplementsAtomic
<1>1. Init => Atomic!Init
  BY DEF Init, Atomic!Init, NoFile
<1>2. StoreInv /\ [Next]_vars => [Atomic!Next]_(Atomic!vars)
  BY StoreStep
<1>3. QED
  BY StoreInvariant, <1>1, <1>2, PTL DEF Spec, ImplementsAtomic, Atomic!Spec
=============================================================================
