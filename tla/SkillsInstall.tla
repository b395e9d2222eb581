---------------------------- MODULE SkillsInstall ----------------------------
(***************************************************************************)
(* bzr skills install: skill directories are replaced under a lock that is *)
(* a directory, .bzr-skill.lock, holding a pid file with an advisory lock. *)
(*                                                                         *)
(* Everything is addressed by path.  A recovery inspects, opens, locks and *)
(* detaches whatever is at the lock path at each of these moments; a       *)
(* release, and the cleanup of a failed acquisition, too.  Each run makes  *)
(* at most one lock directory per destination, so lock directories are     *)
(* named by the run that made them.                                        *)
(*                                                                         *)
(* One skill per destination is modelled: skills are replaced one after    *)
(* the other and share nothing.  Staging directories have unpredictable    *)
(* names nobody else uses; only what they become matters.  A removal of    *)
(* the process's own leftovers succeeds.                                   *)
(***************************************************************************)
EXTENDS Naturals, FiniteSets

CONSTANTS Procs,        \* bzr processes
          NoProc,       \* nobody holds the advisory lock
          Dests,        \* destination directories
          Position,     \* their place in the sorted order of paths
          Targets,      \* AgentTarget: the destinations one run may select
          MaxRuns,      \* bound: runs of skills install
          MaxKills,     \* bound: processes killed
          MaxForeign    \* bound: directories the user puts in place

ASSUME SkillsInstallAssumption ==
  /\ NoProc \notin Procs
  /\ Position \in [Dests -> Nat]
  /\ \A d, e \in Dests : Position[d] = Position[e] => d = e
  /\ \A S \in SUBSET Dests : S # {} =>
       /\ \E d \in S : \A e \in S : Position[d] <= Position[e]
       /\ \E d \in S : \A e \in S : Position[e] <= Position[d]
  /\ Targets \subseteq SUBSET Dests
  /\ {} \notin Targets
  /\ MaxRuns \in Nat /\ MaxKills \in Nat /\ MaxForeign \in Nat

VARIABLES
  lockPath,   \* the lock directory at each destination's lock path, 0 if none
  marker,     \* the pid file in a lock directory: none, empty or written
  flock,      \* who holds the advisory lock on it
  target,     \* what is at the skill's path
  litter,     \* content left at aside paths of runs that are over
  kept,       \* content a destination must not lose (history)
  robbed,     \* a live run's lock directory was detached by another (history)
  pc,         \* each process's next step
  run,        \* the number of its run, 0 if none
  want,       \* the destinations it installs to
  todo,       \* those it still has to lock, or to install
  held,       \* those it has locked
  file,       \* the lock directory whose pid file it created
  opened,     \* the lock directory whose pid file it opened to recover
  taken,      \* the lock directory it detached to recover
  aside,      \* the content it moved aside
  runs, kills, foreigns

lockVars == <<lockPath, marker, flock, robbed>>
skillVars == <<target, litter, kept, aside>>
boundVars == <<runs, kills, foreigns>>
vars == <<lockVars, skillVars, pc, run, want, todo, held, file, opened, taken,
          boundVars>>

Runs == 1..MaxRuns
Contents == {"absent", "managed", "foreign"}

\* The steps of a run: acquiring a lock, and working under the locks.
Locking == {"mkdir", "inspect", "open", "trylock", "detach", "sweep",
            "remkdir", "create", "publish"}
Working == {"recheck", "stage", "check", "move", "validate", "swap",
            "discard", "restore"}
Steps == Locking \cup Working \cup {"idle", "release"}

First(S) == CHOOSE d \in S : \A e \in S : Position[d] <= Position[e]
Last(S) == CHOOSE d \in S : \A e \in S : Position[e] <= Position[d]

Goto(p, from, to) == pc[p] = from /\ pc' = [pc EXCEPT ![p] = to]

\* An error: the locks taken so far are released (release_after_error).
Fail(p, from) == Goto(p, from, "release")

\* The handle on a pid file is closed, and the advisory lock goes with it.
Unlocked(p, d, g) ==
  [flock EXCEPT ![d][g] = IF @ = p THEN NoProc ELSE @]

-----------------------------------------------------------------------------
(* install_with_ops, up to the locks *)

\* A run starts; a foreign directory at a target is refused at once.
Start(p, S) ==
  /\ Goto(p, "idle", "mkdir")
  /\ runs < MaxRuns
  /\ \A d \in S : target[d] # "foreign"
  /\ runs' = runs + 1
  /\ run' = [run EXCEPT ![p] = runs + 1]
  /\ want' = [want EXCEPT ![p] = S]
  /\ todo' = [todo EXCEPT ![p] = S]
  /\ UNCHANGED <<lockVars, skillVars, held, file, opened, taken, kills,
                 foreigns>>

\* create_dir of the lock path made a directory of this run.
Made(p, d) ==
  /\ lockPath[d] = 0
  /\ lockPath' = [lockPath EXCEPT ![d] = run[p]]

\* acquire_destination_lock: an existing lock directory is looked at.
MakeLock(p) ==
  LET d == First(todo[p]) IN
  /\ \/ Goto(p, "mkdir", "create") /\ Made(p, d)
     \/ Goto(p, "mkdir", "inspect") /\ lockPath[d] # 0 /\ UNCHANGED lockPath
  /\ UNCHANGED <<marker, flock, robbed, skillVars, run, want, todo, held,
                 file, opened, taken, boundVars>>

\* After a recovery the directory is made once more; no second recovery.
RemakeLock(p) ==
  LET d == First(todo[p]) IN
  /\ \/ Goto(p, "remkdir", "create") /\ Made(p, d)
     \/ Fail(p, "remkdir") /\ lockPath[d] # 0 /\ UNCHANGED lockPath
  /\ UNCHANGED <<marker, flock, robbed, skillVars, run, want, todo, held,
                 file, opened, taken, boundVars>>

\* create_lock_file: create_new of the pid file, in whatever directory is at
\* the lock path now.  On failure whatever is there is removed.
CreatePid(p) ==
  LET d == First(todo[p])
      g == lockPath[d] IN
  /\ \/ /\ Goto(p, "create", "publish")
        /\ g # 0 /\ marker[d][g] = "none"
        /\ marker' = [marker EXCEPT ![d][g] = "empty"]
        /\ file' = [file EXCEPT ![p][d] = g]
        /\ UNCHANGED lockPath
     \/ /\ Fail(p, "create")
        /\ lockPath' = [lockPath EXCEPT ![d] = 0]
        /\ UNCHANGED <<marker, file>>
  /\ UNCHANGED <<flock, robbed, skillVars, run, want, todo, held, opened,
                 taken, boundVars>>

\* lock() waits for the advisory lock, then the pid is written and synced.
PublishPid(p) ==
  LET d == First(todo[p])
      g == file[p][d] IN
  /\ pc[p] = "publish"
  /\ \/ /\ flock[d][g] = NoProc
        /\ flock' = [flock EXCEPT ![d][g] = p]
        /\ marker' = [marker EXCEPT ![d][g] = "written"]
        /\ held' = [held EXCEPT ![p] = @ \cup {d}]
        /\ LET rest == todo[p] \ {d} IN
             IF rest = {}
             THEN /\ Goto(p, "publish", "recheck")
                  /\ todo' = [todo EXCEPT ![p] = want[p]]
             ELSE /\ Goto(p, "publish", "mkdir")
                  /\ todo' = [todo EXCEPT ![p] = rest]
        /\ UNCHANGED <<lockPath, file>>
     \/ /\ Fail(p, "publish")
        /\ lockPath' = [lockPath EXCEPT ![d] = 0]
        /\ file' = [file EXCEPT ![p][d] = 0]
        /\ UNCHANGED <<marker, flock, held, todo>>
  /\ UNCHANGED <<robbed, skillVars, run, want, opened, taken, boundVars>>

-----------------------------------------------------------------------------
(* recover_or_refuse_existing_lock *)

\* Mutant of Inspect: it waits for the pid to appear.
InspectWaits(p) ==
  LET d == First(todo[p]) IN
  /\ Goto(p, "inspect", "open")
  /\ lockPath[d] # 0 /\ marker[d][lockPath[d]] = "written"
  /\ UNCHANGED <<lockVars, skillVars, run, want, todo, held, file, opened,
                 taken, boundVars>>

\* The directory is read: a pid file without a pid is refused.
Inspect(p) ==
  LET d == First(todo[p])
      readable == lockPath[d] # 0 /\ marker[d][lockPath[d]] = "written" IN
  /\ \/ Goto(p, "inspect", "open") /\ readable
     \/ Fail(p, "inspect") /\ ~readable
  /\ UNCHANGED <<lockVars, skillVars, run, want, todo, held, file, opened,
                 taken, boundVars>>

\* The pid file is opened by path once more, to lock it.
OpenPid(p) ==
  LET d == First(todo[p])
      g == lockPath[d]
      there == g # 0 /\ marker[d][g] # "none" IN
  /\ \/ /\ Goto(p, "open", "trylock") /\ there
        /\ opened' = [opened EXCEPT ![p] = g]
     \/ Fail(p, "open") /\ ~there /\ UNCHANGED opened
  /\ UNCHANGED <<lockVars, skillVars, run, want, todo, held, file, taken,
                 boundVars>>

\* Mutant of TryLock: the lock directory of a live run is cleaned up.
TryLockCleansUp(p) ==
  LET d == First(todo[p])
      g == opened[p] IN
  /\ \/ /\ Goto(p, "trylock", "detach")
        /\ flock[d][g] = NoProc
        /\ flock' = [flock EXCEPT ![d][g] = p]
        /\ UNCHANGED <<lockPath, opened>>
     \/ /\ Fail(p, "trylock")
        /\ flock[d][g] # NoProc
        /\ opened' = [opened EXCEPT ![p] = 0]
        /\ lockPath' = [lockPath EXCEPT ![d] = 0]
        /\ UNCHANGED flock
  /\ UNCHANGED <<marker, robbed, skillVars, run, want, todo, held, file, taken,
                 boundVars>>

\* try_lock: WouldBlock means that a live process holds it.
TryLock(p) ==
  LET d == First(todo[p])
      g == opened[p] IN
  /\ \/ /\ Goto(p, "trylock", "detach")
        /\ flock[d][g] = NoProc
        /\ flock' = [flock EXCEPT ![d][g] = p]
        /\ UNCHANGED opened
     \/ /\ Fail(p, "trylock")
        /\ flock[d][g] # NoProc
        /\ opened' = [opened EXCEPT ![p] = 0]
        /\ UNCHANGED flock
  /\ UNCHANGED <<lockPath, marker, robbed, skillVars, run, want, todo, held,
                 file, taken, boundVars>>

\* The directory now at the lock path is renamed to a cleanup path.
Detach(p) ==
  LET d == First(todo[p])
      g == lockPath[d] IN
  /\ \/ /\ Goto(p, "detach", "sweep")
        /\ g # 0
        /\ lockPath' = [lockPath EXCEPT ![d] = 0]
        /\ taken' = [taken EXCEPT ![p] = g]
        /\ robbed' = (robbed \/ \E q \in Procs : run[q] = g)
        /\ UNCHANGED <<flock, opened>>
     \/ /\ Fail(p, "detach")
        /\ g = 0
        /\ flock' = Unlocked(p, d, opened[p])
        /\ opened' = [opened EXCEPT ![p] = 0]
        /\ UNCHANGED <<lockPath, taken, robbed>>
  /\ UNCHANGED <<marker, skillVars, run, want, todo, held, file, boundVars>>

\* The pid file is closed, and it and the directory are removed one by one: a
\* directory without a pid file is an error.
Sweep(p) ==
  LET d == First(todo[p]) IN
  /\ \/ Goto(p, "sweep", "remkdir") /\ marker[d][taken[p]] # "none"
     \/ Fail(p, "sweep") /\ marker[d][taken[p]] = "none"
  /\ flock' = Unlocked(p, d, opened[p])
  /\ opened' = [opened EXCEPT ![p] = 0]
  /\ taken' = [taken EXCEPT ![p] = 0]
  /\ UNCHANGED <<lockPath, marker, robbed, skillVars, run, want, todo, held,
                 file, boundVars>>

-----------------------------------------------------------------------------
(* Under the locks: install_skill and replace_target, for one destination  *)
(* after the other.                                                        *)

workVars == <<lockVars, run, want, held, file, opened, taken, boundVars>>

\* authoritative_preflight
Recheck(p) ==
  /\ \/ Goto(p, "recheck", "stage") /\ \A d \in want[p] : target[d] # "foreign"
     \/ Fail(p, "recheck") /\ \E d \in want[p] : target[d] = "foreign"
  /\ UNCHANGED <<workVars, skillVars, todo>>

\* write_staged_skill, or its failure, after which the stage is removed.
Stage(p) ==
  /\ Goto(p, "stage", "check") \/ Fail(p, "stage")
  /\ UNCHANGED <<workVars, skillVars, todo>>

\* The last validate_target before the first rename.
Check(p) ==
  LET d == First(todo[p]) IN
  /\ \/ Goto(p, "check", "move") /\ target[d] # "foreign"
     \/ Fail(p, "check") /\ target[d] = "foreign"
  /\ UNCHANGED <<workVars, skillVars, todo>>

\* The skill is in place at d: the next destination, or the end.
Installed(p, d, from) ==
  /\ Goto(p, from, IF todo[p] = {d} THEN "release" ELSE "stage")
  /\ todo' = [todo EXCEPT ![p] = @ \ {d}]

\* The staged skill becomes the target, which succeeds only if none is there.
Activate(d) ==
  /\ target[d] = "absent"
  /\ target' = [target EXCEPT ![d] = "managed"]
  /\ kept' = [kept EXCEPT ![d] = @ \cup {"managed"}]

\* Without a target the stage is renamed to it; a target is moved aside.
Move(p) ==
  LET d == First(todo[p]) IN
  /\ \/ Installed(p, d, "move") /\ Activate(d) /\ UNCHANGED aside
     \/ /\ Goto(p, "move", "validate")
        /\ target[d] # "absent"
        /\ aside' = [aside EXCEPT ![p] = target[d]]
        /\ target' = [target EXCEPT ![d] = "absent"]
        /\ UNCHANGED <<kept, todo>>
     \/ Fail(p, "move") /\ UNCHANGED <<target, kept, aside, todo>>
  /\ UNCHANGED <<workVars, litter>>

\* Mutant of ValidateAside: what was moved aside is not checked again.
ValidateAsideSkipped(p) ==
  /\ Goto(p, "validate", "swap")
  /\ UNCHANGED <<workVars, skillVars, todo>>

\* What was moved aside is checked again.
ValidateAside(p) ==
  /\ Goto(p, "validate", IF aside[p] = "foreign" THEN "restore" ELSE "swap")
  /\ UNCHANGED <<workVars, skillVars, todo>>

\* The stage is renamed to the target, or that fails.
Swap(p) ==
  LET d == First(todo[p]) IN
  /\ \/ Goto(p, "swap", "discard") /\ Activate(d)
     \/ Goto(p, "swap", "restore") /\ UNCHANGED <<target, kept>>
  /\ UNCHANGED <<workVars, litter, aside, todo>>

\* The aside is removed, or stays and is reported in a warning.
Discard(p) ==
  LET d == First(todo[p]) IN
  /\ Installed(p, d, "discard")
  /\ aside' = [aside EXCEPT ![p] = "absent"]
  /\ \/ UNCHANGED litter
     \/ litter' = [litter EXCEPT ![d] = @ \cup {aside[p]}]
  /\ UNCHANGED <<workVars, target, kept>>

\* restore_detached_target: the aside goes back, or stays where it is.
Restore(p) ==
  LET d == First(todo[p]) IN
  /\ Fail(p, "restore")
  /\ aside' = [aside EXCEPT ![p] = "absent"]
  /\ \/ /\ target[d] = "absent"
        /\ target' = [target EXCEPT ![d] = aside[p]]
        /\ UNCHANGED litter
     \/ /\ litter' = [litter EXCEPT ![d] = @ \cup {aside[p]}]
        /\ UNCHANGED target
  /\ UNCHANGED <<workVars, kept, todo>>

-----------------------------------------------------------------------------
(* The end of a run, and what is not bzr *)

\* DestinationLock::release, last lock first: whatever is at the lock path is
\* renamed away; if nothing is there that is a warning.
Release(p) ==
  LET d == Last(held[p]) IN
  /\ pc[p] = "release" /\ held[p] # {}
  /\ lockPath' = [lockPath EXCEPT ![d] = 0]
  /\ flock' = Unlocked(p, d, file[p][d])
  /\ file' = [file EXCEPT ![p][d] = 0]
  /\ held' = [held EXCEPT ![p] = @ \ {d}]
  /\ UNCHANGED <<marker, robbed, skillVars, pc, run, want, todo, opened, taken,
                 boundVars>>

Forget(p) ==
  /\ run' = [run EXCEPT ![p] = 0]
  /\ want' = [want EXCEPT ![p] = {}]
  /\ todo' = [todo EXCEPT ![p] = {}]

Finish(p) ==
  /\ Goto(p, "release", "idle") /\ held[p] = {}
  /\ Forget(p)
  /\ UNCHANGED <<lockVars, skillVars, held, file, opened, taken, boundVars>>

\* A killed process leaves its directories behind and no advisory lock.
Kill(p) ==
  /\ pc[p] # "idle"
  /\ pc' = [pc EXCEPT ![p] = "idle"]
  /\ kills < MaxKills
  /\ kills' = kills + 1
  /\ flock' = [d \in Dests |-> [g \in Runs |->
                 IF flock[d][g] = p THEN NoProc ELSE flock[d][g]]]
  /\ Forget(p)
  /\ held' = [held EXCEPT ![p] = {}]
  /\ file' = [file EXCEPT ![p] = [d \in Dests |-> 0]]
  /\ opened' = [opened EXCEPT ![p] = 0]
  /\ taken' = [taken EXCEPT ![p] = 0]
  /\ aside' = [aside EXCEPT ![p] = "absent"]
  /\ litter' = IF aside[p] = "absent" THEN litter
               ELSE [litter EXCEPT ![First(todo[p])] = @ \cup {aside[p]}]
  /\ UNCHANGED <<lockPath, marker, robbed, target, kept, runs, foreigns>>

\* The user puts a directory of their own at a skill's path.
PlaceForeign(d) ==
  /\ foreigns < MaxForeign
  /\ foreigns' = foreigns + 1
  /\ target[d] # "foreign"
  /\ target' = [target EXCEPT ![d] = "foreign"]
  /\ kept' = [kept EXCEPT ![d] = {"foreign"}]
  /\ UNCHANGED <<lockVars, litter, aside, pc, run, want, todo, held, file,
                 opened, taken, runs, kills>>

Init ==
  /\ lockPath = [d \in Dests |-> 0]
  /\ marker = [d \in Dests |-> [g \in Runs |-> "none"]]
  /\ flock = [d \in Dests |-> [g \in Runs |-> NoProc]]
  /\ robbed = FALSE
  /\ target \in [Dests -> {"absent", "managed"}]
  /\ kept = [d \in Dests |-> {target[d]} \ {"absent"}]
  /\ litter = [d \in Dests |-> {}]
  /\ pc = [p \in Procs |-> "idle"]
  /\ run = [p \in Procs |-> 0]
  /\ want = [p \in Procs |-> {}]
  /\ todo = [p \in Procs |-> {}]
  /\ held = [p \in Procs |-> {}]
  /\ file = [p \in Procs |-> [d \in Dests |-> 0]]
  /\ opened = [p \in Procs |-> 0]
  /\ taken = [p \in Procs |-> 0]
  /\ aside = [p \in Procs |-> "absent"]
  /\ runs = 0 /\ kills = 0 /\ foreigns = 0

Step(p) ==
  \/ MakeLock(p) \/ RemakeLock(p) \/ CreatePid(p) \/ PublishPid(p)
  \/ Inspect(p) \/ OpenPid(p) \/ TryLock(p) \/ Detach(p) \/ Sweep(p)
  \/ Recheck(p) \/ Stage(p) \/ Check(p) \/ Move(p) \/ ValidateAside(p)
  \/ Swap(p) \/ Discard(p) \/ Restore(p) \/ Release(p) \/ Finish(p)

Next ==
  \/ \E p \in Procs : \/ \E S \in Targets : Start(p, S)
                      \/ Step(p)
                      \/ Kill(p)
  \/ \E d \in Dests : PlaceForeign(d)

Spec == Init /\ [][Next]_vars

\* A run that is not killed goes on.
FairSpec == Spec /\ \A p \in Procs : WF_vars(Step(p))

-----------------------------------------------------------------------------
(* Properties *)

\* Type invariant, with what the steps of the code rely on: a run under way has
\* a number, a destination to work on and the handles its step uses, and it
\* holds the advisory lock of every destination it has locked.
LockTypes ==
  /\ lockPath \in [Dests -> 0..MaxRuns]
  /\ marker \in [Dests -> [Runs -> {"none", "empty", "written"}]]
  /\ flock \in [Dests -> [Runs -> Procs \cup {NoProc}]]
  /\ robbed \in BOOLEAN

SkillTypes ==
  /\ target \in [Dests -> Contents]
  /\ litter \in [Dests -> SUBSET {"managed", "foreign"}]
  /\ kept \in [Dests -> SUBSET {"managed", "foreign"}]
  /\ aside \in [Procs -> Contents]

RunTypes ==
  /\ pc \in [Procs -> Steps]
  /\ run \in [Procs -> 0..MaxRuns]
  /\ want \in [Procs -> SUBSET Dests]
  /\ todo \in [Procs -> SUBSET Dests]
  /\ held \in [Procs -> SUBSET Dests]
  /\ file \in [Procs -> [Dests -> 0..MaxRuns]]
  /\ opened \in [Procs -> 0..MaxRuns]
  /\ taken \in [Procs -> 0..MaxRuns]
  /\ runs \in 0..MaxRuns /\ kills \in 0..MaxKills /\ foreigns \in 0..MaxForeign

Types == LockTypes /\ SkillTypes /\ RunTypes

Shape(p) ==
  /\ (pc[p] = "idle") = (run[p] = 0)
  /\ pc[p] = "idle" => held[p] = {}
  /\ pc[p] # "idle" => want[p] # {}
  /\ pc[p] \in Locking \cup Working => todo[p] # {}
  /\ pc[p] \in Locking => todo[p] \cap held[p] = {}
  /\ (aside[p] # "absent") = (pc[p] \in {"validate", "swap", "discard", "restore"})
  /\ (taken[p] # 0) = (pc[p] = "sweep")
  /\ (opened[p] # 0) = (pc[p] \in {"trylock", "detach", "sweep"})
  /\ pc[p] = "publish" => file[p][First(todo[p])] # 0
  /\ \A d \in held[p] : file[p][d] # 0 /\ flock[d][file[p][d]] = p

TypeOK == Types /\ \A p \in Procs : Shape(p)

\* At most one run works in a destination: "Atomic lock-directory acquisition
\* in deterministic path order serializes binary invocations per destination"
\* (the installer's design, on acquire_all_locks).
Serialized ==
  \A p, q \in Procs : p # q => held[p] \cap held[q] = {}

\* The one way to lose that is a recovery that detaches the lock directory of
\* a run that is under way (the rename in recover_or_refuse_existing_lock).
SerializedUnlessRobbed == robbed \/ Serialized

\* Whatever two installers, the user and a kill do: a directory the user put at
\* a skill's path, and a complete copy of a skill that was installed, are still
\* in the destination, at the skill's path or moved aside (replace_target,
\* restore_detached_target).
NothingLost ==
  \A d \in Dests, c \in {"managed", "foreign"} :
    c \in kept[d] =>
      \/ target[d] = c
      \/ c \in litter[d]
      \/ \E p \in Procs : aside[p] = c /\ First(todo[p]) = d

\* Once no run is under way and none was killed, no lock directory is left,
\* whatever failed and whoever removed whose: later runs are not locked out
\* (release_after_error, the cleanup in create_lock_file).
LocksReleased ==
  (kills = 0 /\ \A p \in Procs : pc[p] = "idle")
    => \A d \in Dests : lockPath[d] = 0

\* Every run ends: no installer waits for another one for ever (lock() in
\* create_lock_file is the only call that waits).
EveryRunEnds == \A p \in Procs : pc[p] # "idle" ~> pc[p] = "idle"
=============================================================================
