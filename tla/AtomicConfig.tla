---------------------------- MODULE AtomicConfig ----------------------------
(***************************************************************************)
(* What Config::update_locked_at promises its callers, with no file, lock  *)
(* or process in sight.  The configuration is the set of updates it        *)
(* reflects.  An update takes effect in one step, on top of every update   *)
(* in effect at that moment; it may then be acknowledged (the call         *)
(* returned Ok); an update that was acknowledged is never lost again, not  *)
(* even to a power failure.  ConfigStore implements this module.           *)
(***************************************************************************)

CONSTANT Update          \* identities of the update_locked calls

VARIABLES config,        \* the updates reflected by the file readers see
          acked          \* the updates whose call returned Ok

vars == <<config, acked>>

Init ==
  /\ config = {}
  /\ acked = {}

\* The update becomes visible, and changes nothing but itself: edits of
\* other callers are still there.
Commit(u) ==
  /\ u \notin config
  /\ config' = config \cup {u}
  /\ UNCHANGED acked

\* The caller is told that its update is in effect.
Acknowledge(u) ==
  /\ u \in config
  /\ acked' = acked \cup {u}
  /\ UNCHANGED config

\* A power failure may undo what nobody was told about, and nothing else.
Rollback ==
  /\ config' \in SUBSET config
  /\ acked \subseteq config'
  /\ UNCHANGED acked

Next ==
  \/ \E u \in Update : Commit(u) \/ Acknowledge(u)
  \/ Rollback

Spec == Init /\ [][Next]_vars
=============================================================================
