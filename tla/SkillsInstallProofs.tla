------------------------- MODULE SkillsInstallProofs -------------------------
(***************************************************************************)
(* Theorems about SkillsInstall for any processes, destinations and runs:  *)
(* what a destination keeps whatever happens, when runs are serialized,    *)
(* and that no lock directory outlives its run.                            *)
(***************************************************************************)
EXTENDS SkillsInstall, TLAPS

-----------------------------------------------------------------------------
(* Types *)

LEMMA FirstIn ==
  ASSUME NEW S \in SUBSET Dests, S # {}
  PROVE  First(S) \in S
  BY SkillsInstallAssumption DEF First

LEMMA LastIn ==
  ASSUME NEW S \in SUBSET Dests, S # {}
  PROVE  Last(S) \in S
  BY SkillsInstallAssumption DEF Last

\* The destination a process works on.
LEMMA FirstTodo ==
  ASSUME TypeOK, NEW p \in Procs, pc[p] \in Locking \cup Working
  PROVE  First(todo[p]) \in Dests /\ First(todo[p]) \in todo[p]
<1>1. todo[p] \in SUBSET Dests /\ todo[p] # {}
  BY DEF TypeOK, Types, RunTypes, Shape
<1>2. First(todo[p]) \in todo[p]
  BY <1>1, FirstIn
<1>3. QED
  BY <1>1, <1>2

LEMMA InitTypeOK == Init => TypeOK
<1> SUFFICES ASSUME Init PROVE TypeOK
  OBVIOUS
<1>1. SkillTypes
  <2>1. target \in [Dests -> Contents]
    BY DEF Init, Contents
  <2>2. kept \in [Dests -> SUBSET {"managed", "foreign"}]
    <3>1. ASSUME NEW d \in Dests PROVE {target[d]} \ {"absent"} \in SUBSET {"managed", "foreign"}
      BY <2>1 DEF Contents
    <3>2. QED
      BY <3>1 DEF Init
  <2>3. QED
    BY <2>1, <2>2 DEF Init, SkillTypes, Contents
<1>2. LockTypes
  <2>1. 0 \in 0..MaxRuns
    BY SkillsInstallAssumption
  <2>2. marker \in [Dests -> [Runs -> {"none", "empty", "written"}]]
    BY DEF Init
  <2>3. flock \in [Dests -> [Runs -> Procs \cup {NoProc}]]
    BY DEF Init
  <2>4. QED
    BY <2>1, <2>2, <2>3 DEF Init, LockTypes
<1>3. RunTypes
  BY SkillsInstallAssumption DEF Init, RunTypes, Steps
<1>4. ASSUME NEW p \in Procs PROVE Shape(p)
  BY DEF Init, Shape, Locking, Working
<1>5. QED
  BY <1>1, <1>2, <1>3, <1>4 DEF TypeOK, Types

LEMMA UnlockedType ==
  ASSUME LockTypes, NEW p \in Procs, NEW d \in Dests, NEW g
  PROVE  Unlocked(p, d, g) \in [Dests -> [Runs -> Procs \cup {NoProc}]]
  BY DEF LockTypes, Unlocked

LEMMA MarkerType ==
  ASSUME LockTypes, NEW d \in Dests, NEW g, NEW v \in {"none", "empty", "written"}
  PROVE  [marker EXCEPT ![d][g] = v] \in [Dests -> [Runs -> {"none", "empty", "written"}]]
  BY DEF LockTypes

LEMMA FlockType ==
  ASSUME LockTypes, NEW d \in Dests, NEW g, NEW v \in Procs \cup {NoProc}
  PROVE  [flock EXCEPT ![d][g] = v] \in [Dests -> [Runs -> Procs \cup {NoProc}]]
  BY DEF LockTypes

\* Each group of variables by itself, as most steps change one of them.
LEMMA NextLockTypes == TypeOK /\ [Next]_vars => LockTypes'
<1> SUFFICES ASSUME TypeOK, [Next]_vars PROVE LockTypes'
  OBVIOUS
<1> DEFINE d(p) == First(todo[p])
<1>0. LockTypes /\ RunTypes
  BY DEF TypeOK, Types
<1>a. 0 \in 0..MaxRuns
  BY SkillsInstallAssumption
<1>b. ASSUME NEW e \in Dests PROVE [lockPath EXCEPT ![e] = 0] \in [Dests -> 0..MaxRuns]
  BY <1>0, <1>a DEF LockTypes
<1>1. ASSUME NEW p \in Procs, MakeLock(p) \/ RemakeLock(p) PROVE LockTypes'
  <2>1. d(p) \in Dests
    BY <1>1, FirstTodo DEF MakeLock, RemakeLock, Made, Goto, Fail, Locking
  <2>2. run[p] \in 0..MaxRuns
    BY <1>0 DEF RunTypes
  <2>3. QED
    BY <1>0, <1>1, <2>1, <2>2 DEF MakeLock, RemakeLock, Made, LockTypes
<1>2. ASSUME NEW p \in Procs, CreatePid(p) PROVE LockTypes'
  <2>1. d(p) \in Dests
    BY <1>2, FirstTodo DEF CreatePid, Goto, Fail, Locking
  <2>2. [marker EXCEPT ![d(p)][lockPath[d(p)]] = "empty"]
          \in [Dests -> [Runs -> {"none", "empty", "written"}]]
    BY <1>0, <2>1, MarkerType
  <2>3. marker' \in [Dests -> [Runs -> {"none", "empty", "written"}]]
    BY <1>0, <1>2, <2>2 DEF CreatePid, LockTypes
  <2>4. lockPath' \in [Dests -> 0..MaxRuns]
    BY <1>0, <1>2, <1>b, <2>1 DEF CreatePid, LockTypes
  <2>5. QED
    BY <1>0, <1>2, <2>3, <2>4 DEF CreatePid, LockTypes
<1>3. ASSUME NEW p \in Procs, PublishPid(p) PROVE LockTypes'
  <2>1. d(p) \in Dests
    BY <1>3, FirstTodo DEF PublishPid, Locking
  <2>2. [marker EXCEPT ![d(p)][file[p][d(p)]] = "written"]
          \in [Dests -> [Runs -> {"none", "empty", "written"}]]
    BY <1>0, <2>1, MarkerType
  <2>3. [flock EXCEPT ![d(p)][file[p][d(p)]] = p] \in [Dests -> [Runs -> Procs \cup {NoProc}]]
    BY <1>0, <2>1, FlockType
  <2>4. marker' \in [Dests -> [Runs -> {"none", "empty", "written"}]]
    BY <1>0, <1>3, <2>2 DEF PublishPid, LockTypes
  <2>5. flock' \in [Dests -> [Runs -> Procs \cup {NoProc}]]
    BY <1>0, <1>3, <2>3 DEF PublishPid, LockTypes
  <2>6. lockPath' \in [Dests -> 0..MaxRuns]
    BY <1>0, <1>3, <1>b, <2>1 DEF PublishPid, LockTypes
  <2>7. QED
    BY <1>0, <1>3, <2>4, <2>5, <2>6 DEF PublishPid, LockTypes
<1>4. ASSUME NEW p \in Procs, TryLock(p) PROVE LockTypes'
  <2>1. d(p) \in Dests
    BY <1>4, FirstTodo DEF TryLock, Goto, Fail, Locking
  <2>2. [flock EXCEPT ![d(p)][opened[p]] = p] \in [Dests -> [Runs -> Procs \cup {NoProc}]]
    BY <1>0, <2>1, FlockType
  <2>3. QED
    BY <1>0, <1>4, <2>2 DEF TryLock, LockTypes
<1>5. ASSUME NEW p \in Procs, Detach(p) \/ Sweep(p) PROVE LockTypes'
  <2>1. d(p) \in Dests
    BY <1>5, FirstTodo DEF Detach, Sweep, Goto, Fail, Locking
  <2>2. Unlocked(p, d(p), opened[p]) \in [Dests -> [Runs -> Procs \cup {NoProc}]]
    BY <1>0, <2>1, UnlockedType
  <2>3. lockPath' \in [Dests -> 0..MaxRuns]
    BY <1>0, <1>5, <1>b, <2>1 DEF Detach, Sweep, LockTypes
  <2>4. flock' \in [Dests -> [Runs -> Procs \cup {NoProc}]]
    BY <1>0, <1>5, <2>2 DEF Detach, Sweep, LockTypes
  <2>5. QED
    BY <1>0, <1>5, <2>3, <2>4 DEF Detach, Sweep, LockTypes
<1>6. ASSUME NEW p \in Procs, Release(p) PROVE LockTypes'
  <2>1. Last(held[p]) \in Dests
    BY <1>0, <1>6, LastIn DEF Release, RunTypes
  <2>2. Unlocked(p, Last(held[p]), file[p][Last(held[p])])
          \in [Dests -> [Runs -> Procs \cup {NoProc}]]
    BY <1>0, <2>1, UnlockedType
  <2>3. QED
    BY <1>0, <1>6, <1>b, <2>1, <2>2 DEF Release, LockTypes
<1>7. ASSUME NEW p \in Procs, Kill(p) PROVE LockTypes'
  BY <1>0, <1>7 DEF Kill, LockTypes
<1>8. CASE UNCHANGED lockVars
  BY <1>0, <1>8 DEF lockVars, LockTypes
<1>9. QED
  BY <1>1, <1>2, <1>3, <1>4, <1>5, <1>6, <1>7, <1>8 DEF Next, Step, vars, workVars, Start,
     Inspect, OpenPid, Recheck, Stage, Check, Move, ValidateAside, Swap, Discard, Restore,
     Finish, PlaceForeign

LEMMA NextSkillTypes == TypeOK /\ [Next]_vars => SkillTypes'
<1> SUFFICES ASSUME TypeOK, [Next]_vars PROVE SkillTypes'
  OBVIOUS
<1> DEFINE d(p) == First(todo[p])
<1>0. SkillTypes
  BY DEF TypeOK, Types
<1>1. ASSUME NEW p \in Procs, Move(p) PROVE SkillTypes'
  <2>1. d(p) \in Dests
    BY <1>1, FirstTodo DEF Move, Installed, Goto, Fail, Working
  <2>2. QED
    BY <1>0, <1>1, <2>1 DEF Move, Activate, SkillTypes, Contents
<1>2. ASSUME NEW p \in Procs, Swap(p) PROVE SkillTypes'
  <2>1. d(p) \in Dests
    BY <1>2, FirstTodo DEF Swap, Goto, Working
  <2>2. QED
    BY <1>0, <1>2, <2>1 DEF Swap, Activate, SkillTypes, Contents
<1>3. ASSUME NEW p \in Procs, Discard(p) \/ Restore(p) PROVE SkillTypes'
  <2>1. d(p) \in Dests /\ pc[p] \in {"discard", "restore"}
    BY <1>3, FirstTodo DEF Discard, Restore, Installed, Fail, Goto, Working
  <2>2. aside[p] \in {"managed", "foreign"}
    BY <1>0, <2>1 DEF TypeOK, Shape, SkillTypes, Contents
  <2>3. QED
    BY <1>0, <1>3, <2>1, <2>2 DEF Discard, Restore, SkillTypes, Contents
<1>4. ASSUME NEW p \in Procs, Kill(p) PROVE SkillTypes'
  <2>1. CASE aside[p] = "absent"
    BY <1>0, <1>4, <2>1 DEF Kill, SkillTypes, Contents
  <2>2. CASE aside[p] # "absent"
    <3>1. pc[p] \in Working
      BY <2>2 DEF TypeOK, Shape, Working
    <3>2. d(p) \in Dests
      BY <3>1, FirstTodo
    <3>3. aside[p] \in {"managed", "foreign"}
      BY <1>0, <2>2 DEF SkillTypes, Contents
    <3>4. QED
      BY <1>0, <1>4, <2>2, <3>2, <3>3 DEF Kill, SkillTypes, Contents
  <2>3. QED
    BY <2>1, <2>2
<1>5. ASSUME NEW e \in Dests, PlaceForeign(e) PROVE SkillTypes'
  BY <1>0, <1>5 DEF PlaceForeign, SkillTypes, Contents
<1>6. CASE UNCHANGED skillVars
  BY <1>0, <1>6 DEF skillVars, SkillTypes
<1>7. QED
  BY <1>1, <1>2, <1>3, <1>4, <1>5, <1>6 DEF Next, Step, vars, Start, MakeLock, RemakeLock,
     CreatePid, PublishPid, Inspect, OpenPid, TryLock, Detach, Sweep, Recheck, Stage, Check,
     ValidateAside, Release, Finish

LEMMA NextRunTypes == TypeOK /\ [Next]_vars => RunTypes'
<1> SUFFICES ASSUME TypeOK, [Next]_vars PROVE RunTypes'
  OBVIOUS
<1> USE DEF Goto, Fail
<1> DEFINE d(p) == First(todo[p])
<1>0. LockTypes /\ RunTypes
  BY DEF TypeOK, Types
<1>a. 0 \in 0..MaxRuns
  BY SkillsInstallAssumption
<1>s. /\ \A s \in Locking \cup Working : s \in Steps
      /\ "idle" \in Steps /\ "release" \in Steps
  BY DEF Steps
<1>1. ASSUME NEW p \in Procs, NEW S \in Targets, Start(p, S) PROVE RunTypes'
  <2>1. S \in SUBSET Dests
    BY SkillsInstallAssumption
  <2>2. runs + 1 \in 0..MaxRuns
    BY <1>0, <1>1, SkillsInstallAssumption DEF Start, RunTypes
  <2>3. QED
    BY <1>0, <1>1, <1>s, <2>1, <2>2 DEF Start, RunTypes, Locking
<1>2. ASSUME NEW p \in Procs,
             \/ MakeLock(p) \/ RemakeLock(p) \/ Inspect(p)
             \/ Recheck(p) \/ Stage(p) \/ Check(p) \/ ValidateAside(p)
             \/ Swap(p) \/ Restore(p)
      PROVE RunTypes'
  <2>1. UNCHANGED <<run, want, todo, held, file, opened, taken, boundVars>>
    BY <1>2 DEF MakeLock, RemakeLock, Inspect, Recheck, Stage, Check, ValidateAside, Swap,
       Restore, workVars, skillVars
  <2>2. \E s \in Steps : pc' = [pc EXCEPT ![p] = s]
    BY <1>2, <1>s DEF MakeLock, RemakeLock, Inspect, Recheck, Stage, Check, ValidateAside,
       Swap, Restore, Locking, Working
  <2>3. QED
    BY <1>0, <2>1, <2>2 DEF RunTypes, boundVars
<1>3. ASSUME NEW p \in Procs, CreatePid(p) PROVE RunTypes'
  <2>1. d(p) \in Dests
    BY <1>3, FirstTodo DEF CreatePid, Locking
  <2>2. lockPath[d(p)] \in 0..MaxRuns
    BY <1>0, <2>1 DEF LockTypes
  <2>3. [file EXCEPT ![p][d(p)] = lockPath[d(p)]] \in [Procs -> [Dests -> 0..MaxRuns]]
    BY <1>0, <2>1, <2>2 DEF RunTypes
  <2>4. file' \in [Procs -> [Dests -> 0..MaxRuns]]
    BY <1>0, <1>3, <2>3 DEF CreatePid, RunTypes
  <2>5. pc' \in [Procs -> Steps]
    BY <1>0, <1>3, <1>s DEF CreatePid, RunTypes, Locking
  <2>6. QED
    BY <1>0, <1>3, <2>4, <2>5 DEF CreatePid, RunTypes, boundVars
<1>4. ASSUME NEW p \in Procs, PublishPid(p) PROVE RunTypes'
  <2>1. d(p) \in Dests
    BY <1>4, FirstTodo DEF PublishPid, Locking
  <2>2. [file EXCEPT ![p][d(p)] = 0] \in [Procs -> [Dests -> 0..MaxRuns]]
    BY <1>0, <1>a, <2>1 DEF RunTypes
  <2>3. file' \in [Procs -> [Dests -> 0..MaxRuns]]
    BY <1>0, <1>4, <2>2 DEF PublishPid, RunTypes
  <2>4. pc' \in [Procs -> Steps]
    BY <1>0, <1>4, <1>s DEF PublishPid, RunTypes, Locking, Working
  <2>5. /\ todo' \in [Procs -> SUBSET Dests]
        /\ held' \in [Procs -> SUBSET Dests]
    <3>1. \E T \in SUBSET Dests : todo' = [todo EXCEPT ![p] = T]
      BY <1>0, <1>4 DEF PublishPid, RunTypes
    <3>2. \E T \in SUBSET Dests : held' = [held EXCEPT ![p] = T]
      BY <1>0, <1>4, <2>1 DEF PublishPid, RunTypes
    <3>3. QED
      BY <1>0, <3>1, <3>2 DEF RunTypes
  <2>6. QED
    BY <1>0, <1>4, <2>3, <2>4, <2>5 DEF PublishPid, RunTypes, boundVars
<1>5. ASSUME NEW p \in Procs, OpenPid(p) \/ TryLock(p) \/ Detach(p) \/ Sweep(p) PROVE RunTypes'
  <2>1. d(p) \in Dests
    BY <1>5, FirstTodo DEF OpenPid, TryLock, Detach, Sweep, Locking
  <2>2. lockPath[d(p)] \in 0..MaxRuns
    BY <1>0, <2>1 DEF LockTypes
  <2>3. pc' \in [Procs -> Steps]
    BY <1>0, <1>5, <1>s DEF OpenPid, TryLock, Detach, Sweep, RunTypes, Locking
  <2>4. /\ opened' \in [Procs -> 0..MaxRuns]
        /\ taken' \in [Procs -> 0..MaxRuns]
    BY <1>0, <1>5, <1>a, <2>2 DEF OpenPid, TryLock, Detach, Sweep, RunTypes
  <2>5. QED
    BY <1>0, <1>5, <2>3, <2>4 DEF OpenPid, TryLock, Detach, Sweep, RunTypes, boundVars
<1>6. ASSUME NEW p \in Procs, Move(p) \/ Discard(p) PROVE RunTypes'
  <2>1. UNCHANGED <<run, want, held, file, opened, taken, boundVars>>
    BY <1>6 DEF Move, Discard, workVars
  <2>2. \E s \in Steps : pc' = [pc EXCEPT ![p] = s]
    BY <1>6, <1>s DEF Move, Discard, Installed, Working
  <2>3. \E T \in SUBSET Dests : todo' = [todo EXCEPT ![p] = T]
    BY <1>0, <1>6 DEF Move, Discard, Installed, RunTypes
  <2>4. QED
    BY <1>0, <2>1, <2>2, <2>3 DEF RunTypes, boundVars
<1>7. ASSUME NEW p \in Procs, Release(p) PROVE RunTypes'
  <2>1. Last(held[p]) \in Dests
    BY <1>0, <1>7, LastIn DEF Release, RunTypes
  <2>2. [file EXCEPT ![p][Last(held[p])] = 0] \in [Procs -> [Dests -> 0..MaxRuns]]
    BY <1>0, <1>a, <2>1 DEF RunTypes
  <2>3. QED
    BY <1>0, <1>7, <2>2 DEF Release, RunTypes, boundVars
<1>8. ASSUME NEW p \in Procs, Finish(p) PROVE RunTypes'
  BY <1>0, <1>8, <1>a, <1>s DEF Finish, Forget, RunTypes, boundVars
<1>9. ASSUME NEW p \in Procs, Kill(p) PROVE RunTypes'
  <2>1. kills' \in 0..MaxKills
    BY <1>0, <1>9, SkillsInstallAssumption DEF Kill, RunTypes
  <2>2. QED
    BY <1>0, <1>9, <1>a, <1>s, <2>1 DEF Kill, Forget, RunTypes
<1>10. ASSUME NEW e \in Dests, PlaceForeign(e) PROVE RunTypes'
  BY <1>0, <1>10, SkillsInstallAssumption DEF PlaceForeign, RunTypes
<1>11. CASE UNCHANGED vars
  BY <1>0, <1>11 DEF vars, RunTypes, boundVars
<1>12. QED
  BY <1>1, <1>2, <1>3, <1>4, <1>5, <1>6, <1>7, <1>8, <1>9, <1>10, <1>11 DEF Next, Step

-----------------------------------------------------------------------------
(* The shape of a run *)

\* A step of p takes nothing away from r: neither its own state nor an advisory
\* lock it holds.
LEMMA OthersKept ==
  ASSUME TypeOK, NEW p \in Procs, NEW r \in Procs, r # p,
         (\E S \in Targets : Start(p, S)) \/ Step(p) \/ Kill(p)
  PROVE  /\ pc'[r] = pc[r] /\ run'[r] = run[r] /\ want'[r] = want[r] /\ todo'[r] = todo[r]
         /\ held'[r] = held[r] /\ file'[r] = file[r] /\ aside'[r] = aside[r]
         /\ opened'[r] = opened[r] /\ taken'[r] = taken[r]
         /\ \A e \in Dests, g \in Runs : flock[e][g] = r => flock'[e][g] = r
<1> USE DEF Goto, Fail, lockVars, skillVars, boundVars, workVars
<1>0. LockTypes /\ SkillTypes /\ RunTypes /\ r # NoProc
  BY SkillsInstallAssumption DEF TypeOK, Types
<1>1. ASSUME NEW S \in Targets, Start(p, S)
      PROVE /\ pc'[r] = pc[r] /\ run'[r] = run[r] /\ want'[r] = want[r] /\ todo'[r] = todo[r]
            /\ UNCHANGED <<held, file, aside, opened, taken, flock>>
  BY <1>0, <1>1 DEF Start, RunTypes
<1>2. CASE \/ MakeLock(p) \/ RemakeLock(p) \/ CreatePid(p) \/ Inspect(p) \/ OpenPid(p)
           \/ Recheck(p) \/ Stage(p) \/ Check(p) \/ Move(p) \/ ValidateAside(p)
           \/ Swap(p) \/ Discard(p) \/ Restore(p) \/ Finish(p)
  <2>1. UNCHANGED <<held, taken, flock>>
    BY <1>2 DEF MakeLock, RemakeLock, CreatePid, Inspect, OpenPid, Recheck, Stage, Check, Move,
       ValidateAside, Swap, Discard, Restore, Finish
  <2>2. pc'[r] = pc[r] /\ run'[r] = run[r] /\ want'[r] = want[r] /\ todo'[r] = todo[r]
    BY <1>0, <1>2 DEF MakeLock, RemakeLock, CreatePid, Inspect, OpenPid, Recheck, Stage, Check,
       Move, ValidateAside, Swap, Discard, Restore, Finish, Forget, Installed, RunTypes
  <2>3. file'[r] = file[r] /\ opened'[r] = opened[r]
    BY <1>0, <1>2 DEF MakeLock, RemakeLock, CreatePid, Inspect, OpenPid, Recheck, Stage, Check,
       Move, ValidateAside, Swap, Discard, Restore, Finish, RunTypes
  <2>4. aside'[r] = aside[r]
    BY <1>0, <1>2 DEF MakeLock, RemakeLock, CreatePid, Inspect, OpenPid, Recheck, Stage, Check,
       Move, ValidateAside, Swap, Discard, Restore, Finish, SkillTypes
  <2>5. QED
    BY <2>1, <2>2, <2>3, <2>4
<1>3. CASE PublishPid(p) \/ TryLock(p) \/ Detach(p) \/ Sweep(p) \/ Release(p) \/ Kill(p)
  <2>1. pc'[r] = pc[r] /\ run'[r] = run[r] /\ want'[r] = want[r] /\ todo'[r] = todo[r]
    BY <1>0, <1>3 DEF PublishPid, TryLock, Detach, Sweep, Release, Kill, Forget, RunTypes
  <2>2. held'[r] = held[r] /\ file'[r] = file[r] /\ opened'[r] = opened[r] /\ taken'[r] = taken[r]
    BY <1>0, <1>3 DEF PublishPid, TryLock, Detach, Sweep, Release, Kill, RunTypes
  <2>3. aside'[r] = aside[r]
    BY <1>0, <1>3 DEF PublishPid, TryLock, Detach, Sweep, Release, Kill, SkillTypes
  <2>4. ASSUME NEW e \in Dests, NEW g \in Runs, flock[e][g] = r PROVE flock'[e][g] = r
    <3>1. CASE PublishPid(p)
      BY <1>0, <2>4, <3>1 DEF PublishPid, LockTypes
    <3>2. CASE TryLock(p)
      BY <1>0, <2>4, <3>2 DEF TryLock, LockTypes
    <3>3. CASE Detach(p) \/ Sweep(p)
      BY <1>0, <2>4, <3>3 DEF Detach, Sweep, Unlocked, LockTypes
    <3>4. CASE Release(p)
      BY <1>0, <2>4, <3>4 DEF Release, Unlocked, LockTypes
    <3>5. CASE Kill(p)
      BY <1>0, <2>4, <3>5 DEF Kill, LockTypes
    <3>6. QED
      BY <1>3, <3>1, <3>2, <3>3, <3>4, <3>5
  <2>5. QED
    BY <2>1, <2>2, <2>3, <2>4
<1>4. QED
  BY <1>1, <1>2, <1>3 DEF Step

LEMMA OtherShape ==
  ASSUME TypeOK, NEW p \in Procs, NEW r \in Procs, r # p,
         (\E S \in Targets : Start(p, S)) \/ Step(p) \/ Kill(p)
  PROVE  Shape(r)'
<1>1. Shape(r) /\ RunTypes
  BY DEF TypeOK, Types
<1>2. /\ pc'[r] = pc[r] /\ run'[r] = run[r] /\ want'[r] = want[r] /\ todo'[r] = todo[r]
      /\ held'[r] = held[r] /\ file'[r] = file[r] /\ aside'[r] = aside[r]
      /\ opened'[r] = opened[r] /\ taken'[r] = taken[r]
  BY OthersKept
<1>3. ASSUME NEW e \in held[r]
      PROVE file'[r][e] # 0 /\ flock'[e][file'[r][e]] = r
  <2>1. e \in Dests /\ file[r][e] \in 0..MaxRuns
    BY <1>1 DEF RunTypes
  <2>2. file[r][e] \in Runs
    BY <1>1, <2>1, SkillsInstallAssumption DEF Shape, Runs
  <2>3. flock'[e][file[r][e]] = r
    BY <1>1, <2>1, <2>2, OthersKept DEF Shape
  <2>4. QED
    BY <1>1, <1>2, <2>3 DEF Shape
<1>4. QED
  BY <1>1, <1>2, <1>3 DEF Shape

\* The locks held survive when they and the advisory locks on them do.
LEMMA HeldKept ==
  ASSUME TypeOK, NEW p \in Procs, held' = held, file' = file,
         \/ flock' = flock
         \/ /\ held[p] \cap todo[p] = {}
            /\ First(todo[p]) \in todo[p]
            /\ \A e \in Dests \ {First(todo[p])} : flock'[e] = flock[e]
  PROVE  \A e \in held'[p] : file'[p][e] # 0 /\ flock'[e][file'[p][e]] = p
<1>1. held[p] \subseteq Dests
  BY DEF TypeOK, Types, RunTypes
<1>2. ASSUME NEW e \in held[p] PROVE flock'[e] = flock[e]
  BY <1>1
<1>3. QED
  BY <1>2 DEF TypeOK, Shape

LEMMA OwnShape ==
  ASSUME TypeOK, NEW p \in Procs,
         (\E S \in Targets : Start(p, S)) \/ Step(p) \/ Kill(p)
  PROVE  Shape(p)'
<1> USE DEF Goto, Fail, lockVars, skillVars, boundVars, workVars, Locking, Working
<1> DEFINE d == First(todo[p])
<1>0. LockTypes /\ SkillTypes /\ RunTypes /\ Shape(p)
  BY DEF TypeOK, Types
<1>1. ASSUME NEW S \in Targets, Start(p, S) PROVE Shape(p)'
  <2>1. S # {} /\ runs + 1 # 0
    <3>1. {} \notin Targets /\ MaxRuns \in Nat
      BY SkillsInstallAssumption
    <3>2. runs + 1 # 0
      BY <1>0, <3>1 DEF RunTypes
    <3>3. QED
      BY <3>1, <3>2
  <2>2. QED
    BY <1>0, <1>1, <2>1 DEF Start, Shape, RunTypes
<1>2. CASE MakeLock(p) \/ RemakeLock(p) \/ Inspect(p)
  <2>1. \A e \in held'[p] : file'[p][e] # 0 /\ flock'[e][file'[p][e]] = p
    BY <1>2, HeldKept DEF MakeLock, RemakeLock, Inspect
  <2>2. QED
    BY <1>0, <1>2, <2>1 DEF MakeLock, RemakeLock, Inspect, Shape, RunTypes
<1>3. CASE CreatePid(p)
  <2>1. d \in Dests /\ d \in todo[p] /\ d \notin held[p]
    BY <1>0, <1>3, FirstTodo DEF CreatePid, Shape
  <2>2. \A e \in held[p] : e \in Dests /\ file'[p][e] = file[p][e]
    BY <1>0, <1>3, <2>1 DEF CreatePid, RunTypes
  <2>3. pc'[p] = "publish" => file'[p][First(todo'[p])] # 0
    BY <1>0, <1>3, <2>1 DEF CreatePid, RunTypes
  <2>4. pc'[p] \in {"publish", "release"}
    BY <1>0, <1>3 DEF CreatePid, RunTypes
  <2>5. QED
    BY <1>0, <1>3, <2>2, <2>3, <2>4 DEF CreatePid, Shape
<1>4. CASE PublishPid(p)
  <2>1. d \in Dests /\ d \in todo[p] /\ d \notin held[p]
    BY <1>0, <1>4, FirstTodo DEF PublishPid, Shape
  <2>2. file[p][d] # 0 /\ file[p][d] \in 0..MaxRuns
    BY <1>0, <1>4, <2>1 DEF PublishPid, Shape, RunTypes
  <2>3. file[p][d] \in Runs
    BY <2>2, SkillsInstallAssumption DEF Runs
  <2>4. CASE flock' = [flock EXCEPT ![d][file[p][d]] = p] /\ held' = [held EXCEPT ![p] = @ \cup {d}] /\ file' = file
    <3>1. \A e \in held'[p] : file'[p][e] # 0 /\ flock'[e][file'[p][e]] = p
      BY <1>0, <2>1, <2>2, <2>3, <2>4 DEF LockTypes, RunTypes, Shape
    <3>2. pc'[p] \in {"mkdir", "recheck"} /\ todo'[p] # {} /\ (pc'[p] = "mkdir" => todo'[p] \cap held'[p] = {})
      BY <1>0, <1>4, <2>1, <2>4 DEF PublishPid, Shape, RunTypes
    <3>3. QED
      BY <1>0, <1>4, <3>1, <3>2 DEF PublishPid, Shape
  <2>5. CASE UNCHANGED <<marker, flock, held, todo>> /\ Fail(p, "publish") /\ file' = [file EXCEPT ![p][d] = 0]
    <3>1. \A e \in held[p] : e \in Dests /\ file'[p][e] = file[p][e]
      BY <1>0, <2>1, <2>5 DEF RunTypes
    <3>2. pc'[p] = "release"
      BY <1>0, <2>5 DEF RunTypes
    <3>3. QED
      BY <1>0, <1>4, <2>5, <3>1, <3>2 DEF PublishPid, Shape
  <2>6. QED
    BY <1>4, <2>4, <2>5 DEF PublishPid
<1>5. CASE OpenPid(p)
  <2>1. \A e \in held'[p] : file'[p][e] # 0 /\ flock'[e][file'[p][e]] = p
    BY <1>5, HeldKept DEF OpenPid
  <2>2. QED
    BY <1>0, <1>5, <2>1 DEF OpenPid, Shape, RunTypes
<1>6. CASE TryLock(p) \/ Detach(p) \/ Sweep(p)
  <2>1. d \in todo[p] /\ todo[p] \cap held[p] = {}
    BY <1>0, <1>6, FirstTodo DEF TryLock, Detach, Sweep, Shape
  <2>2. \A e \in Dests \ {d} : flock'[e] = flock[e]
    BY <1>0, <1>6 DEF TryLock, Detach, Sweep, Unlocked, LockTypes
  <2>3. \A e \in held'[p] : file'[p][e] # 0 /\ flock'[e][file'[p][e]] = p
    BY <1>6, <2>1, <2>2, HeldKept DEF TryLock, Detach, Sweep
  <2>4. QED
    BY <1>0, <1>6, <2>3 DEF TryLock, Detach, Sweep, Shape, RunTypes
<1>7. CASE Recheck(p) \/ Stage(p) \/ Check(p) \/ ValidateAside(p)
  <2>1. \A e \in held'[p] : file'[p][e] # 0 /\ flock'[e][file'[p][e]] = p
    BY <1>7, HeldKept DEF Recheck, Stage, Check, ValidateAside
  <2>2. QED
    BY <1>0, <1>7, <2>1 DEF Recheck, Stage, Check, ValidateAside, Shape, RunTypes
<1>8. CASE Move(p) \/ Swap(p) \/ Discard(p) \/ Restore(p)
  <2>1. \A e \in held'[p] : file'[p][e] # 0 /\ flock'[e][file'[p][e]] = p
    BY <1>8, HeldKept DEF Move, Swap, Discard, Restore
  <2>2. d \in todo[p]
    BY <1>8, FirstTodo DEF Move, Swap, Discard, Restore, Installed
  <2>3. QED
    BY <1>0, <1>8, <2>1, <2>2 DEF Move, Swap, Discard, Restore, Installed, Shape, RunTypes, SkillTypes
<1>9. CASE Release(p)
  <2>1. Last(held[p]) \in Dests
    BY <1>0, <1>9, LastIn DEF Release, RunTypes
  <2>2. \A e \in held'[p] : file'[p][e] # 0 /\ flock'[e][file'[p][e]] = p
    BY <1>0, <1>9, <2>1 DEF Release, Unlocked, LockTypes, RunTypes, Shape
  <2>3. QED
    BY <1>0, <1>9, <2>2 DEF Release, Shape
<1>10. CASE Finish(p)
  BY <1>0, <1>10 DEF Finish, Forget, Shape, RunTypes
<1>11. CASE Kill(p)
  BY <1>0, <1>11 DEF Kill, Forget, Shape, RunTypes, SkillTypes
<1>12. QED
  BY <1>1, <1>2, <1>3, <1>4, <1>5, <1>6, <1>7, <1>8, <1>9, <1>10, <1>11 DEF Step

LEMMA NextTypeOK == TypeOK /\ [Next]_vars => TypeOK'
<1> SUFFICES ASSUME TypeOK, [Next]_vars PROVE TypeOK'
  OBVIOUS
<1>1. Types'
  BY NextLockTypes, NextSkillTypes, NextRunTypes DEF Types
<1>2. ASSUME NEW r \in Procs PROVE Shape(r)'
  <2>1. ASSUME NEW p \in Procs, (\E S \in Targets : Start(p, S)) \/ Step(p) \/ Kill(p)
        PROVE Shape(r)'
    BY <2>1, OtherShape, OwnShape
  <2>2. ASSUME NEW e \in Dests, PlaceForeign(e) PROVE Shape(r)'
    BY <2>2 DEF PlaceForeign, TypeOK, Shape, lockVars
  <2>3. CASE UNCHANGED vars
    BY <2>3 DEF vars, TypeOK, Shape, lockVars, skillVars
  <2>4. QED
    BY <2>1, <2>2, <2>3 DEF Next
<1>3. QED
  BY <1>1, <1>2 DEF TypeOK

\* The types hold, and every run has the handles and the locks its next step
\* relies on (install_with_ops and the lock protocol under it).
THEOREM TypeCorrect == Spec => []TypeOK
<1>1. Init => TypeOK
  BY InitTypeOK
<1>2. TypeOK /\ [Next]_vars => TypeOK'
  BY NextTypeOK
<1>3. QED
  BY <1>1, <1>2, PTL DEF Spec

-----------------------------------------------------------------------------
(* What a destination keeps *)

\* A copy that does not depend on a removal under way: the aside of a process
\* at "discard" is about to go.
Safe(c, d) ==
  \/ target[d] = c
  \/ c \in litter[d]
  \/ \E p \in Procs : /\ aside[p] = c /\ First(todo[p]) = d
                      /\ pc[p] \in {"validate", "swap", "restore"}

\* Everything kept is safe, and what is about to replace the target, or to be
\* discarded, was found to be bzr's own.
CopyInv ==
  /\ \A d \in Dests, c \in {"managed", "foreign"} : c \in kept[d] => Safe(c, d)
  /\ \A p \in Procs : pc[p] \in {"swap", "discard"} => aside[p] = "managed"

\* The aside of a process the step does not concern stays a copy.
LEMMA AsideKept ==
  ASSUME TypeOK, NEW p \in Procs,
         (\E S \in Targets : Start(p, S)) \/ Step(p) \/ Kill(p),
         NEW d \in Dests, NEW c, NEW q \in Procs, q # p,
         aside[q] = c, First(todo[q]) = d, pc[q] \in {"validate", "swap", "restore"}
  PROVE  Safe(c, d)'
<1>1. aside'[q] = aside[q] /\ todo'[q] = todo[q] /\ pc'[q] = pc[q]
  BY OthersKept
<1>2. First(todo'[q]) = d
  BY <1>1
<1>3. QED
  BY <1>1, <1>2 DEF Safe

LEMMA NextCopyInv == TypeOK /\ CopyInv /\ [Next]_vars => CopyInv'
<1> SUFFICES ASSUME TypeOK, CopyInv, [Next]_vars PROVE CopyInv'
  OBVIOUS
<1> USE DEF Goto, Fail, workVars
<1>0. SkillTypes /\ RunTypes
  BY DEF TypeOK, Types
<1>1. ASSUME NEW p \in Procs, (\E S \in Targets : Start(p, S)) \/ Step(p) \/ Kill(p)
      PROVE  CopyInv'
  <2> DEFINE e == First(todo[p])
  <2>1. ASSUME NEW q \in Procs, q # p, pc'[q] \in {"swap", "discard"}
        PROVE  aside'[q] = "managed"
    BY <1>1, <2>1, OthersKept DEF CopyInv
  <2>2. CASE Move(p)
    <3>1. e \in Dests
      BY <2>2, FirstTodo DEF Move, Installed, Working
    <3>2. ASSUME NEW d \in Dests, NEW c \in {"managed", "foreign"}, c \in kept'[d]
          PROVE  Safe(c, d)'
      <4>1. CASE c \notin kept[d]
        BY <1>0, <2>2, <3>1, <3>2, <4>1 DEF Move, Activate, Safe, SkillTypes
      <4>2. CASE target[d] = c
        BY <1>0, <2>2, <3>1, <4>2 DEF Move, Activate, Installed, Safe, SkillTypes, RunTypes
      <4>3. CASE c \in litter[d]
        BY <2>2, <4>3 DEF Move, Safe
      <4>4. CASE \E q \in Procs : /\ aside[q] = c /\ First(todo[q]) = d
                                   /\ pc[q] \in {"validate", "swap", "restore"}
        BY <1>1, <2>2, <4>4, AsideKept DEF Move, Installed
      <4>5. QED
        BY <4>1, <4>2, <4>3, <4>4 DEF CopyInv, Safe
    <3>3. pc'[p] \notin {"swap", "discard"}
      BY <1>0, <2>2 DEF Move, Installed, RunTypes
    <3>4. QED
      BY <2>1, <3>2, <3>3 DEF CopyInv
  <2>3. CASE ValidateAside(p)
    <3>1. ASSUME NEW d \in Dests, NEW c \in {"managed", "foreign"}, Safe(c, d) PROVE Safe(c, d)'
      BY <1>0, <2>3, <3>1 DEF ValidateAside, Safe, skillVars, RunTypes
    <3>2. pc'[p] = "swap" => aside'[p] = "managed"
      <4>1. aside[p] \in {"managed", "foreign"}
        BY <1>0, <2>3 DEF ValidateAside, TypeOK, Shape, SkillTypes, Contents
      <4>2. QED
        BY <1>0, <2>3, <4>1 DEF ValidateAside, skillVars, RunTypes
    <3>3. pc'[p] # "discard" /\ UNCHANGED kept
      BY <1>0, <2>3 DEF ValidateAside, RunTypes, skillVars
    <3>4. QED
      BY <2>1, <3>1, <3>2, <3>3 DEF CopyInv
  <2>4. CASE Swap(p)
    <3>1. e \in Dests /\ aside[p] = "managed"
      BY <2>4, FirstTodo DEF Swap, Working, CopyInv
    <3>2. ASSUME NEW d \in Dests, NEW c \in {"managed", "foreign"}, c \in kept'[d]
          PROVE  Safe(c, d)'
      <4>1. CASE c \notin kept[d]
        BY <1>0, <2>4, <3>1, <3>2, <4>1 DEF Swap, Activate, Safe, SkillTypes
      <4>2. CASE target[d] = c
        BY <1>0, <2>4, <3>1, <4>2 DEF Swap, Activate, Safe, SkillTypes, RunTypes
      <4>3. CASE c \in litter[d]
        BY <2>4, <4>3 DEF Swap, Safe
      <4>4. CASE \E q \in Procs : /\ aside[q] = c /\ First(todo[q]) = d
                                   /\ pc[q] \in {"validate", "swap", "restore"}
        <5>1. PICK q \in Procs : /\ aside[q] = c /\ First(todo[q]) = d
                                 /\ pc[q] \in {"validate", "swap", "restore"}
          BY <4>4
        <5>2. CASE q = p
          BY <1>0, <2>4, <3>1, <5>1, <5>2 DEF Swap, Activate, Safe, SkillTypes, RunTypes
        <5>3. QED
          BY <1>1, <5>1, <5>2, AsideKept
      <4>5. QED
        BY <4>1, <4>2, <4>3, <4>4 DEF CopyInv, Safe
    <3>3. aside'[p] = "managed"
      BY <2>4, <3>1 DEF Swap
    <3>4. QED
      BY <2>1, <3>2, <3>3 DEF CopyInv
  <2>5. CASE Discard(p)
    <3>1. ASSUME NEW d \in Dests, NEW c \in {"managed", "foreign"}, c \in kept'[d]
          PROVE  Safe(c, d)'
      <4>1. Safe(c, d)
        BY <2>5, <3>1 DEF Discard, CopyInv
      <4>2. CASE target[d] = c
        BY <2>5, <4>2 DEF Discard, Safe
      <4>3. CASE c \in litter[d]
        BY <1>0, <2>5, <4>3 DEF Discard, Safe, SkillTypes
      <4>4. CASE \E q \in Procs : /\ aside[q] = c /\ First(todo[q]) = d
                                   /\ pc[q] \in {"validate", "swap", "restore"}
        BY <1>1, <2>5, <4>4, AsideKept DEF Discard, Installed
      <4>5. QED
        BY <4>1, <4>2, <4>3, <4>4 DEF Safe
    <3>2. pc'[p] \notin {"swap", "discard"}
      BY <1>0, <2>5 DEF Discard, Installed, RunTypes
    <3>3. QED
      BY <2>1, <3>1, <3>2 DEF CopyInv
  <2>6. CASE Restore(p) \/ Kill(p)
    <3>1. ASSUME NEW d \in Dests, NEW c \in {"managed", "foreign"}, c \in kept'[d]
          PROVE  Safe(c, d)'
      <4>1. Safe(c, d)
        BY <2>6, <3>1 DEF Restore, Kill, CopyInv
      <4>2. CASE target[d] = c
        BY <1>0, <2>6, <4>2 DEF Restore, Kill, Safe, SkillTypes
      <4>3. CASE c \in litter[d]
        BY <1>0, <2>6, <4>3 DEF Restore, Kill, Safe, SkillTypes
      <4>4. CASE \E q \in Procs : /\ aside[q] = c /\ First(todo[q]) = d
                                   /\ pc[q] \in {"validate", "swap", "restore"}
        <5>1. PICK q \in Procs : /\ aside[q] = c /\ First(todo[q]) = d
                                 /\ pc[q] \in {"validate", "swap", "restore"}
          BY <4>4
        <5>2. CASE q = p
          BY <1>0, <2>6, <5>1, <5>2 DEF Restore, Kill, Safe, SkillTypes
        <5>3. QED
          BY <1>1, <5>1, <5>2, AsideKept
      <4>5. QED
        BY <4>1, <4>2, <4>3, <4>4 DEF Safe
    <3>2. pc'[p] \notin {"swap", "discard"}
      BY <1>0, <2>6 DEF Restore, Kill, RunTypes
    <3>3. QED
      BY <2>1, <3>1, <3>2 DEF CopyInv
  <2>7. ASSUME UNCHANGED <<target, litter, kept>>,
               aside' = aside,
               pc[p] \notin {"validate", "swap", "restore"},
               pc'[p] \notin {"swap", "discard"}
        PROVE  CopyInv'
    <3>1. ASSUME NEW d \in Dests, NEW c \in {"managed", "foreign"}, c \in kept'[d]
          PROVE  Safe(c, d)'
      <4>1. Safe(c, d)
        BY <2>7, <3>1 DEF CopyInv
      <4>2. CASE target[d] = c \/ c \in litter[d]
        BY <2>7, <4>2 DEF Safe
      <4>3. CASE \E q \in Procs : /\ aside[q] = c /\ First(todo[q]) = d
                                   /\ pc[q] \in {"validate", "swap", "restore"}
        BY <1>1, <2>7, <4>3, AsideKept
      <4>4. QED
        BY <4>1, <4>2, <4>3 DEF Safe
    <3>2. QED
      BY <2>1, <2>7, <3>1 DEF CopyInv
  <2>8. CASE \/ \E S \in Targets : Start(p, S)
             \/ MakeLock(p) \/ RemakeLock(p) \/ CreatePid(p) \/ PublishPid(p)
             \/ Inspect(p) \/ OpenPid(p) \/ TryLock(p) \/ Detach(p) \/ Sweep(p)
             \/ Recheck(p) \/ Stage(p) \/ Check(p) \/ Release(p) \/ Finish(p)
    <3>1. UNCHANGED <<target, litter, kept>> /\ aside' = aside
      BY <2>8 DEF Start, MakeLock, RemakeLock, CreatePid, PublishPid, Inspect, OpenPid,
         TryLock, Detach, Sweep, Recheck, Stage, Check, Release, Finish, skillVars
    <3>2. pc[p] \notin {"validate", "swap", "restore"} /\ pc'[p] \notin {"swap", "discard"}
      BY <1>0, <2>8 DEF Start, MakeLock, RemakeLock, CreatePid, PublishPid, Inspect, OpenPid,
         TryLock, Detach, Sweep, Recheck, Stage, Check, Release, Finish, RunTypes
    <3>3. QED
      BY <2>7, <3>1, <3>2
  <2>9. QED
    BY <1>1, <2>2, <2>3, <2>4, <2>5, <2>6, <2>8 DEF Step
<1>2. ASSUME NEW e \in Dests, PlaceForeign(e) PROVE CopyInv'
  <2>1. ASSUME NEW d \in Dests, NEW c \in {"managed", "foreign"}, c \in kept'[d]
        PROVE  Safe(c, d)'
    <3>1. CASE d = e
      BY <1>0, <1>2, <2>1, <3>1 DEF PlaceForeign, Safe, SkillTypes
    <3>2. CASE d # e
      BY <1>0, <1>2, <2>1, <3>2 DEF PlaceForeign, Safe, CopyInv, SkillTypes
    <3>3. QED
      BY <3>1, <3>2
  <2>2. QED
    BY <1>2, <2>1 DEF PlaceForeign, CopyInv
<1>3. CASE UNCHANGED vars
  BY <1>3 DEF vars, CopyInv, Safe, skillVars
<1>4. QED
  BY <1>1, <1>2, <1>3 DEF Next

\* Whatever installers, the user and kills do, and however badly the lock fails,
\* a directory of the user's and a complete copy of an installed skill stay in
\* the destination (replace_target and restore_detached_target).
THEOREM ContentSafe == Spec => []NothingLost
<1>1. Init => TypeOK
  BY InitTypeOK
<1>2. Init => CopyInv
  BY DEF Init, CopyInv, Safe
<1>3. TypeOK /\ [Next]_vars => TypeOK'
  BY NextTypeOK
<1>4. TypeOK /\ CopyInv /\ [Next]_vars => CopyInv'
  BY NextCopyInv
<1>5. CopyInv => NothingLost
  BY DEF CopyInv, Safe, NothingLost
<1>6. QED
  BY <1>1, <1>2, <1>3, <1>4, <1>5, PTL DEF Spec

-----------------------------------------------------------------------------
(* Who a lock directory belongs to *)

\* p has made, or holds, the lock directory of d.
Mine(p, d) ==
  \/ d \in held[p]
  \/ pc[p] \in {"create", "publish"} /\ d = First(todo[p])

\* What a step of p does to the lock directories, in the terms of Mine.
Same(p) == \A e \in Dests : Mine(p, e)' = Mine(p, e)

Quiet(p) == UNCHANGED <<lockPath, run, runs, robbed, kills>> /\ Same(p)

Claims(p, d) ==
  /\ lockPath[d] = 0 /\ lockPath' = [lockPath EXCEPT ![d] = run[p]]
  /\ UNCHANGED <<run, runs, robbed, kills>>
  /\ Mine(p, d)'
  /\ \A e \in Dests \ {d} : Mine(p, e)' = Mine(p, e)

Yields(p, d) ==
  /\ Mine(p, d) /\ lockPath' = [lockPath EXCEPT ![d] = 0]
  /\ UNCHANGED <<run, runs, robbed, kills>>
  /\ ~Mine(p, d)'
  /\ \A e \in Dests \ {d} : Mine(p, e)' = Mine(p, e)

Detaches(p, d) ==
  /\ lockPath[d] # 0 /\ lockPath' = [lockPath EXCEPT ![d] = 0]
  /\ robbed' = (robbed \/ \E q \in Procs : run[q] = lockPath[d])
  /\ UNCHANGED <<run, runs, kills>> /\ Same(p)

Begins(p) ==
  /\ run' = [run EXCEPT ![p] = runs + 1] /\ runs' = runs + 1
  /\ UNCHANGED <<lockPath, robbed, kills>>
  /\ \A e \in Dests : ~Mine(p, e) /\ ~Mine(p, e)'

Ends(p) ==
  /\ run' = [run EXCEPT ![p] = 0]
  /\ UNCHANGED <<lockPath, robbed, runs>>
  /\ \A e \in Dests : ~Mine(p, e)'
  /\ \/ kills' = kills + 1
     \/ kills' = kills /\ \A e \in Dests : ~Mine(p, e)

LEMMA StepOnLocks ==
  ASSUME TypeOK, NEW p \in Procs,
         (\E S \in Targets : Start(p, S)) \/ Step(p) \/ Kill(p)
  PROVE  \/ Quiet(p) \/ Begins(p) \/ Ends(p)
         \/ \E d \in Dests : Claims(p, d) \/ Yields(p, d) \/ Detaches(p, d)
<1> USE DEF Goto, Fail, lockVars, skillVars, boundVars, workVars, Locking, Working
<1>0. LockTypes /\ RunTypes /\ Shape(p)
  BY DEF TypeOK, Types
\* The destination, by a name a prime leaves alone.
<1>d. ASSUME pc[p] \in Locking PROVE \E d \in todo[p] : d = First(todo[p]) /\ d \in Dests
  BY <1>d, FirstTodo
<1>1. ASSUME NEW S \in Targets, Start(p, S) PROVE Begins(p)
  BY <1>0, <1>1 DEF Start, Begins, Mine, Shape, RunTypes
<1>2. CASE MakeLock(p) \/ RemakeLock(p)
  <2>0. PICK d \in todo[p] : d = First(todo[p]) /\ d \in Dests
    BY <1>2, <1>d DEF MakeLock, RemakeLock
  <2>1. d \in Dests /\ UNCHANGED <<held, todo, run, runs, robbed, kills>>
    BY <1>2, <2>0 DEF MakeLock, RemakeLock
  <2>2. CASE Made(p, d)
    <3>1. pc'[p] = "create"
      BY <1>0, <1>2, <2>0, <2>2 DEF MakeLock, RemakeLock, Made, RunTypes
    <3>2. pc[p] \notin {"create", "publish"}
      BY <1>2 DEF MakeLock, RemakeLock
    <3>3. Claims(p, d)
      BY <2>0, <2>1, <2>2, <3>1, <3>2 DEF Claims, Made, Mine
    <3>4. QED
      BY <2>1, <3>3
  <2>3. CASE UNCHANGED lockPath /\ pc'[p] \notin {"create", "publish"}
    <3>1. pc[p] \notin {"create", "publish"}
      BY <1>2 DEF MakeLock, RemakeLock
    <3>2. Quiet(p)
      BY <2>1, <2>3, <3>1 DEF Quiet, Same, Mine
    <3>3. QED
      BY <3>2
  <2>4. QED
    BY <1>0, <1>2, <2>0, <2>2, <2>3 DEF MakeLock, RemakeLock, RunTypes
<1>3. CASE CreatePid(p)
  <2>0. PICK d \in todo[p] : d = First(todo[p]) /\ d \in Dests
    BY <1>3, <1>d DEF CreatePid
  <2>1. /\ d \in Dests /\ d \notin held[p]
        /\ UNCHANGED <<held, todo, run, runs, robbed, kills>>
    BY <1>0, <1>3, <2>0 DEF CreatePid, Shape
  <2>2. CASE pc'[p] = "publish" /\ UNCHANGED lockPath
    BY <1>3, <2>1, <2>2 DEF CreatePid, Quiet, Same, Mine
  <2>3. CASE pc'[p] = "release" /\ lockPath' = [lockPath EXCEPT ![d] = 0]
    <3>1. Yields(p, d)
      BY <1>3, <2>0, <2>1, <2>3 DEF CreatePid, Yields, Mine
    <3>2. QED
      BY <2>1, <3>1
  <2>4. QED
    BY <1>0, <1>3, <2>0, <2>2, <2>3 DEF CreatePid, RunTypes
<1>4. CASE PublishPid(p)
  <2>0. PICK d \in todo[p] : d = First(todo[p]) /\ d \in Dests
    BY <1>4, <1>d DEF PublishPid
  <2>1. /\ d \in Dests /\ d \notin held[p] /\ pc[p] = "publish"
        /\ UNCHANGED <<run, runs, robbed, kills>>
    BY <1>0, <1>4, <2>0 DEF PublishPid, Shape
  <2>2. CASE /\ pc'[p] \in {"mkdir", "recheck"} /\ UNCHANGED lockPath
             /\ held' = [held EXCEPT ![p] = @ \cup {d}]
    <3>1. held'[p] = held[p] \cup {d}
      BY <1>0, <2>2 DEF RunTypes
    <3>2. QED
      BY <2>0, <2>1, <2>2, <3>1 DEF Quiet, Same, Mine
  <2>3. CASE pc'[p] = "release" /\ lockPath' = [lockPath EXCEPT ![d] = 0] /\ UNCHANGED <<held, todo>>
    <3>1. Yields(p, d)
      BY <2>0, <2>1, <2>3 DEF Yields, Mine
    <3>2. QED
      BY <2>1, <3>1
  <2>4. QED
    BY <1>0, <1>4, <2>0, <2>2, <2>3 DEF PublishPid, RunTypes
<1>5. CASE Detach(p)
  <2>0. PICK d \in todo[p] : d = First(todo[p]) /\ d \in Dests
    BY <1>5, <1>d DEF Detach
  <2>1. /\ d \in Dests /\ UNCHANGED <<held, todo, run, runs, kills>>
        /\ pc[p] \notin {"create", "publish"} /\ pc'[p] \notin {"create", "publish"}
    BY <1>0, <1>5, <2>0 DEF Detach, RunTypes
  <2>2. Same(p)
    BY <2>1 DEF Same, Mine
  <2>3. CASE UNCHANGED <<lockPath, robbed>>
    BY <2>1, <2>2, <2>3 DEF Quiet
  <2>4. CASE Detaches(p, d)
    BY <2>1, <2>4
  <2>5. \/ UNCHANGED <<lockPath, robbed>>
        \/ /\ lockPath[d] # 0 /\ lockPath' = [lockPath EXCEPT ![d] = 0]
           /\ robbed' = (robbed \/ \E q \in Procs : run[q] = lockPath[d])
    BY <1>5, <2>0 DEF Detach
  <2>6. QED
    BY <2>1, <2>2, <2>3, <2>4, <2>5 DEF Detaches
<1>6. CASE \/ Inspect(p) \/ OpenPid(p) \/ TryLock(p) \/ Sweep(p) \/ Recheck(p) \/ Stage(p)
           \/ Check(p) \/ Move(p) \/ ValidateAside(p) \/ Swap(p) \/ Discard(p) \/ Restore(p)
  <2>1. UNCHANGED <<lockPath, held, run, runs, robbed, kills>>
    BY <1>6 DEF Inspect, OpenPid, TryLock, Sweep, Recheck, Stage, Check, Move, ValidateAside,
       Swap, Discard, Restore
  <2>2. pc[p] \notin {"create", "publish"} /\ pc'[p] \notin {"create", "publish"}
    BY <1>0, <1>6 DEF Inspect, OpenPid, TryLock, Sweep, Recheck, Stage, Check, Move,
       ValidateAside, Swap, Discard, Restore, Installed, RunTypes
  <2>3. QED
    BY <2>1, <2>2 DEF Quiet, Same, Mine
<1>7. CASE Release(p)
  <2>1. PICK e \in held[p] : e = Last(held[p]) /\ e \in Dests
    BY <1>0, <1>7, LastIn DEF Release, RunTypes
  <2>2. held'[p] = held[p] \ {e} /\ pc[p] = "release" /\ pc'[p] = "release"
    BY <1>0, <1>7, <2>1 DEF Release, RunTypes
  <2>3. Yields(p, e)
    BY <1>7, <2>1, <2>2 DEF Release, Yields, Mine
  <2>4. QED
    BY <2>1, <2>3
<1>8. CASE Finish(p)
  BY <1>0, <1>8 DEF Finish, Forget, Ends, Mine, RunTypes
<1>9. CASE Kill(p)
  BY <1>0, <1>9 DEF Kill, Forget, Ends, Mine, RunTypes
<1>10. QED
  BY <1>1, <1>2, <1>3, <1>4, <1>5, <1>6, <1>7, <1>8, <1>9 DEF Step

\* Runs are told apart by their numbers, and until a recovery detaches the
\* directory of a run under way the lock directory of what a run has locked is
\* its own.
OwnerInv ==
  /\ \A p \in Procs : run[p] <= runs
  /\ \A p, q \in Procs : p # q /\ run[p] = run[q] => run[p] = 0
  /\ ~robbed => \A p \in Procs, d \in Dests : Mine(p, d) => lockPath[d] = run[p]

LEMMA MineRuns ==
  ASSUME TypeOK, NEW p \in Procs, NEW d \in Dests, Mine(p, d)
  PROVE  run[p] # 0
  BY DEF TypeOK, Shape, Mine

LEMMA OtherMine ==
  ASSUME TypeOK, NEW p \in Procs, NEW q \in Procs, q # p,
         (\E S \in Targets : Start(p, S)) \/ Step(p) \/ Kill(p)
  PROVE  run'[q] = run[q] /\ \A e \in Dests : Mine(q, e)' = Mine(q, e)
<1>1. held'[q] = held[q] /\ pc'[q] = pc[q] /\ todo'[q] = todo[q] /\ run'[q] = run[q]
  BY OthersKept
<1>2. QED
  BY <1>1 DEF Mine

LEMMA NextOwnerInv == TypeOK /\ OwnerInv /\ [Next]_vars => OwnerInv'
<1> SUFFICES ASSUME TypeOK, OwnerInv, [Next]_vars PROVE OwnerInv'
  OBVIOUS
<1>0. LockTypes /\ RunTypes /\ MaxRuns \in Nat
  BY SkillsInstallAssumption DEF TypeOK, Types
<1>1. ASSUME NEW p \in Procs, (\E S \in Targets : Start(p, S)) \/ Step(p) \/ Kill(p)
      PROVE  OwnerInv'
  <2>1. \A q \in Procs \ {p} : run'[q] = run[q] /\ \A e \in Dests : Mine(q, e)' = Mine(q, e)
    BY <1>1, OtherMine
  <2>2. \A q \in Procs, e \in Dests : Mine(q, e) => run[q] # 0
    BY MineRuns
  <2>3. CASE Quiet(p)
    <3>1. \A q \in Procs, e \in Dests : Mine(q, e)' = Mine(q, e)
      BY <2>1, <2>3 DEF Quiet, Same
    <3>2. QED
      BY <2>3, <3>1 DEF Quiet, OwnerInv
  <2>4. CASE Begins(p)
    <3>1. \A q \in Procs : run[q] \in Nat /\ runs \in Nat
      BY <1>0 DEF RunTypes
    <3>2. run'[p] = runs + 1 /\ runs' = runs + 1
      BY <1>0, <2>4 DEF Begins, RunTypes
    <3>3. \A q \in Procs, e \in Dests : Mine(q, e)' => q # p /\ Mine(q, e)
      BY <2>1, <2>4 DEF Begins
    <3>4. \A q \in Procs : run'[q] <= runs'
      BY <2>1, <3>1, <3>2 DEF OwnerInv
    <3>5. \A q, r \in Procs : q # r /\ run'[q] = run'[r] => run'[q] = 0
      BY <2>1, <3>1, <3>2 DEF OwnerInv
    <3>6. ~robbed' => \A q \in Procs, e \in Dests : Mine(q, e)' => lockPath'[e] = run'[q]
      BY <2>1, <2>4, <3>3 DEF Begins, OwnerInv
    <3>7. QED
      BY <3>4, <3>5, <3>6 DEF OwnerInv
  <2>5. CASE Ends(p)
    <3>1. \A q \in Procs : run[q] \in Nat /\ runs \in Nat
      BY <1>0 DEF RunTypes
    <3>2. run'[p] = 0 /\ runs' = runs
      BY <1>0, <2>5 DEF Ends, RunTypes
    <3>3. \A q \in Procs, e \in Dests : Mine(q, e)' => q # p /\ Mine(q, e)
      BY <2>1, <2>5 DEF Ends
    <3>4. \A q \in Procs : run'[q] <= runs'
      BY <2>1, <3>1, <3>2 DEF OwnerInv
    <3>5. \A q, r \in Procs : q # r /\ run'[q] = run'[r] => run'[q] = 0
      BY <2>1, <3>2 DEF OwnerInv
    <3>6. ~robbed' => \A q \in Procs, e \in Dests : Mine(q, e)' => lockPath'[e] = run'[q]
      BY <2>1, <2>5, <3>3 DEF Ends, OwnerInv
    <3>7. QED
      BY <3>4, <3>5, <3>6 DEF OwnerInv
  <2>6. ASSUME NEW d \in Dests, Claims(p, d) \/ Yields(p, d) \/ Detaches(p, d)
        PROVE  OwnerInv'
    <3>1. UNCHANGED <<run, runs>>
      BY <2>6 DEF Claims, Yields, Detaches
    <3>2. ASSUME ~robbed', NEW q \in Procs, NEW e \in Dests, Mine(q, e)'
          PROVE  lockPath'[e] = run'[q]
      <4>0. ~robbed
        BY <2>6, <3>2 DEF Claims, Yields, Detaches
      <4>1. CASE e # d
        <5>1. Mine(q, e)
          BY <2>1, <2>6, <3>2, <4>1 DEF Claims, Yields, Detaches, Same
        <5>2. lockPath'[e] = lockPath[e]
          BY <1>0, <2>6, <4>1 DEF Claims, Yields, Detaches, LockTypes
        <5>3. QED
          BY <3>1, <4>0, <5>1, <5>2 DEF OwnerInv
      <4>2. CASE e = d /\ Claims(p, d)
        <5>1. q = p
          <6>1. SUFFICES ASSUME q # p PROVE FALSE
            OBVIOUS
          <6>2. Mine(q, d)
            BY <2>1, <3>2, <4>2, <6>1
          <6>3. lockPath[d] = run[q] /\ run[q] # 0
            BY <2>2, <4>0, <6>2 DEF OwnerInv
          <6>4. QED
            BY <4>2, <6>3 DEF Claims
        <5>2. QED
          BY <1>0, <3>1, <4>2, <5>1 DEF Claims, LockTypes
      <4>3. CASE e = d /\ Yields(p, d)
        <5>1. q # p /\ Mine(q, d)
          BY <2>1, <3>2, <4>3 DEF Yields
        <5>2. lockPath[d] = run[q] /\ lockPath[d] = run[p] /\ run[q] # 0
          BY <2>2, <4>0, <4>3, <5>1 DEF OwnerInv, Yields
        <5>3. QED
          BY <5>1, <5>2 DEF OwnerInv
      <4>4. CASE e = d /\ Detaches(p, d)
        <5>1. Mine(q, d)
          BY <2>1, <3>2, <4>4 DEF Detaches, Same
        <5>2. lockPath[d] = run[q]
          BY <4>0, <5>1 DEF OwnerInv
        <5>3. QED
          BY <3>2, <4>4, <5>2 DEF Detaches
      <4>5. QED
        BY <2>6, <4>1, <4>2, <4>3, <4>4
    <3>3. QED
      BY <3>1, <3>2 DEF OwnerInv
  <2>7. QED
    BY <1>1, <2>3, <2>4, <2>5, <2>6, StepOnLocks
<1>2. ASSUME NEW e \in Dests, PlaceForeign(e) PROVE OwnerInv'
  BY <1>2 DEF PlaceForeign, OwnerInv, Mine, lockVars
<1>3. CASE UNCHANGED vars
  BY <1>3 DEF vars, OwnerInv, Mine, lockVars, boundVars
<1>4. QED
  BY <1>1, <1>2, <1>3 DEF Next

\* Two runs work in one destination only after a recovery has detached the lock
\* directory of a run that is under way (recover_or_refuse_existing_lock).
THEOREM SerializedOrRobbed == Spec => []SerializedUnlessRobbed
<1>1. Init => TypeOK
  BY InitTypeOK
<1>2. Init => OwnerInv
  BY DEF Init, OwnerInv, Mine
<1>3. TypeOK /\ [Next]_vars => TypeOK'
  BY NextTypeOK
<1>4. TypeOK /\ OwnerInv /\ [Next]_vars => OwnerInv'
  BY NextOwnerInv
<1>5. TypeOK /\ OwnerInv => SerializedUnlessRobbed
  <2>1. SUFFICES ASSUME TypeOK, OwnerInv, ~robbed, NEW p \in Procs, NEW q \in Procs, p # q,
                        NEW d \in held[p] \cap held[q]
                 PROVE  FALSE
    BY DEF SerializedUnlessRobbed, Serialized
  <2>2. d \in Dests /\ Mine(p, d) /\ Mine(q, d)
    BY <2>1 DEF TypeOK, Types, RunTypes, Mine
  <2>3. lockPath[d] = run[p] /\ lockPath[d] = run[q] /\ run[p] # 0
    BY <2>1, <2>2, MineRuns DEF OwnerInv
  <2>4. QED
    BY <2>1, <2>3 DEF OwnerInv
<1>6. QED
  BY <1>1, <1>2, <1>3, <1>4, <1>5, PTL DEF Spec

\* While nobody has been killed every lock directory has an owner under way.
LeftInv ==
  kills = 0 => \A d \in Dests : lockPath[d] # 0 => \E p \in Procs : Mine(p, d)

LEMMA NextLeftInv == TypeOK /\ LeftInv /\ [Next]_vars => LeftInv'
<1> SUFFICES ASSUME TypeOK, LeftInv, [Next]_vars PROVE LeftInv'
  OBVIOUS
<1>0. LockTypes /\ RunTypes
  BY DEF TypeOK, Types
<1>1. ASSUME NEW p \in Procs, (\E S \in Targets : Start(p, S)) \/ Step(p) \/ Kill(p),
             kills' = 0, NEW e \in Dests, lockPath'[e] # 0
      PROVE  \E q \in Procs : Mine(q, e)'
  <2>1. \A q \in Procs \ {p} : Mine(q, e)' = Mine(q, e)
    BY <1>1, OtherMine
  <2>2. CASE Quiet(p)
    BY <1>1, <2>1, <2>2 DEF Quiet, Same, LeftInv
  <2>3. CASE Begins(p)
    BY <1>1, <2>1, <2>3 DEF Begins, LeftInv
  <2>4. CASE Ends(p)
    <3>1. kills \in Nat
      BY <1>0, SkillsInstallAssumption DEF RunTypes
    <3>2. kills' = kills
      BY <1>1, <2>4, <3>1 DEF Ends
    <3>3. QED
      BY <1>1, <2>1, <2>4, <3>1, <3>2 DEF Ends, LeftInv
  <2>5. ASSUME NEW d \in Dests, Claims(p, d) \/ Yields(p, d) \/ Detaches(p, d)
        PROVE  \E q \in Procs : Mine(q, e)'
    <3>1. CASE e = d
      BY <1>0, <1>1, <2>5, <3>1 DEF Claims, Yields, Detaches, LockTypes
    <3>2. CASE e # d
      <4>1. lockPath[e] # 0 /\ kills = 0
        BY <1>0, <1>1, <2>5, <3>2 DEF Claims, Yields, Detaches, LockTypes
      <4>2. PICK q \in Procs : Mine(q, e)
        BY <4>1 DEF LeftInv
      <4>3. Mine(p, e)' = Mine(p, e)
        BY <2>5, <3>2 DEF Claims, Yields, Detaches, Same
      <4>4. QED
        BY <2>1, <4>2, <4>3
    <3>3. QED
      BY <3>1, <3>2
  <2>6. QED
    BY <1>1, <2>2, <2>3, <2>4, <2>5, StepOnLocks
<1>2. ASSUME NEW e \in Dests, PlaceForeign(e) PROVE LeftInv'
  BY <1>2 DEF PlaceForeign, LeftInv, Mine, lockVars
<1>3. CASE UNCHANGED vars
  BY <1>3 DEF vars, LeftInv, Mine, lockVars, boundVars
<1>4. QED
  BY <1>1, <1>2, <1>3 DEF Next, LeftInv

\* No lock directory outlives the runs when none of them was killed, whatever
\* failed: nobody is locked out of a destination by an error (the releases in
\* install_with_ops, release_after_error and create_lock_file).
THEOREM LocksGone == Spec => []LocksReleased
<1>1. Init => TypeOK
  BY InitTypeOK
<1>2. Init => LeftInv
  BY DEF Init, LeftInv
<1>3. TypeOK /\ [Next]_vars => TypeOK'
  BY NextTypeOK
<1>4. TypeOK /\ LeftInv /\ [Next]_vars => LeftInv'
  BY NextLeftInv
<1>5. TypeOK /\ LeftInv => LocksReleased
  BY DEF TypeOK, Shape, LeftInv, Mine, LocksReleased
<1>6. QED
  BY <1>1, <1>2, <1>3, <1>4, <1>5, PTL DEF Spec
=============================================================================
