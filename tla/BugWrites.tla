----------------------------- MODULE BugWrites -----------------------------
(***************************************************************************)
(* The commands that write bugs (commands/bug): update, from flags and from *)
(* JSON, the status verbs and dup, create with its compound sub-steps, from *)
(* flags and from JSON, and clone.                                         *)
(*                                                                         *)
(* A command passes its gates, in an order of its own; then it works on    *)
(* its items one by one, and on the steps of an item, and reports.  Every  *)
(* write is a RemoteCall: "ok" means applied, a refusal not applied, and   *)
(* after any other error it may be applied yet.  Meanwhile other users     *)
(* change the bugs and comment on them.                                    *)
(***************************************************************************)
EXTENDS Integers, Sequences

CONSTANTS
  Bugs,            \* the bugs an update may name
  MaxItems,        \* a command works on so many bugs at most
  MaxAttachments,  \* and uploads so many files to one it creates
  BatchThreshold,  \* batches of more bugs are confirmed at a prompt
  MaxOthers        \* bound: what other users do

ASSUME BugWritesAssumption ==
  /\ MaxItems \in Nat /\ MaxAttachments \in Nat
  /\ BatchThreshold \in Nat /\ MaxOthers \in Nat
  /\ Bugs # {}

VARIABLES
  form,       \* which command it is
  items,      \* one bug to update or create each
  stale,      \* the bugs changed by others since the user looked, at the start
  gate,       \* the gate to pass next; after the last the writing begins
  i,          \* the item under way
  k,          \* its step
  found,      \* the position of the comment to tag, 0 until it is looked up
  succeeded,  \* the items the report will name as written
  failed,     \* the failures it will name, or the error it ends with:
              \* <<item, step>>, step 0 for a check
  ended,      \* "no", or how the command ended
  changed,    \* the bugs changed by others since the user looked
  thread,     \* the comments of an item's bug: the item that posted it, or 0
  applied,    \* the writes the server has made
  late,       \* those it may make yet, though the command saw an error:
              \* <<<<item, step>>, the comment to tag>>
  tagged,     \* <<item, position of the comment>>
  others      \* what other users have done so far

command == <<form, items, stale>>
progress == <<gate, i, k, found, succeeded, failed, ended>>
server == <<changed, thread, applied, late, tagged, others>>
vars == <<command, progress, server>>

-----------------------------------------------------------------------------
Updates == {"update", "verb", "update_json"}
Creates == {"create", "create_json", "clone"}

\* What is done before the first write, in this order.
Gates ==
  [update      |-> <<"prepare", "dry-run", "connect", "check", "confirm">>,
   verb        |-> <<"prepare", "dry-run", "connect", "lookup", "check", "confirm">>,
   update_json |-> <<"prepare", "dry-run", "confirm", "connect", "check">>,
   create      |-> <<"prepare", "dry-run", "connect">>,
   create_json |-> <<"prepare", "dry-run", "connect">>,
   clone       |-> <<"prepare", "connect", "lookup", "dry-run">>]

\* tags: for the comment the update posts, or for a new bug's description;
\* guarded: --expect-unchanged-since.
Item == [bug : Bugs, comment : BOOLEAN, tags : BOOLEAN, guarded : BOOLEAN,
         attachments : 0..MaxAttachments]

\* An update can tag only the comment it posts; a clone takes neither tags nor
\* attachments; only from a JSON array are several bugs created, and do the bugs
\* of one command differ in what is asked.
Meaningful(f, its) ==
  /\ \A n \in DOMAIN its :
       IF f \in Updates
         THEN its[n].attachments = 0 /\ (its[n].tags => its[n].comment)
         ELSE /\ ~its[n].guarded /\ its[n].bug = its[1].bug
              /\ f = "clone" => ~its[n].tags /\ its[n].attachments = 0
  /\ f \in {"create", "clone"} => Len(its) = 1
  /\ f \in {"update", "verb"} =>
       \A m, n \in DOMAIN its : its[m] = [its[n] EXCEPT !.bug = its[m].bug]

\* The only bug of a command that was not given a JSON array: its errors are not
\* collected for a report.
Single ==
  form \in {"create", "clone"} \/ (form \in {"update", "verb"} /\ Len(items) = 1)

\* The writes of an item, in order.
Steps(it) ==
  IF form \in Updates
    THEN <<"update">> \o (IF it.tags THEN <<"tags">> ELSE <<>>)
    ELSE <<"create">> \o (IF it.tags THEN <<"tags">> ELSE <<>>)
         \o (IF it.comment THEN <<"comment">> ELSE <<>>)
         \o [n \in 1..it.attachments |-> "attachment"]

Planned == UNION { {n} \X DOMAIN Steps(items[n]) : n \in DOMAIN items }

\* Where the comments of an item are: created bugs are told apart by the item.
BugOf(n) == IF form \in Updates THEN items[n].bug ELSE n

Places == Bugs \cup 1..MaxItems

-----------------------------------------------------------------------------
Init ==
  /\ form \in Updates \cup Creates
  /\ items \in UNION { [1..n -> Item] : n \in 1..MaxItems }
  /\ Meaningful(form, items)
  /\ stale \in IF form \in Updates THEN SUBSET Bugs ELSE {{}}
  /\ changed = stale
  /\ gate = 1 /\ i = 1 /\ k = 1 /\ found = 0
  /\ succeeded = {} /\ failed = {}
  /\ ended = "no"
  /\ thread = [b \in Places |-> <<>>]
  /\ applied = {} /\ late = {} /\ tagged = {}
  /\ others = 0

AtGate(name) ==
  ended = "no" /\ gate \in DOMAIN Gates[form] /\ Gates[form][gate] = name

Pass ==
  /\ gate' = gate + 1 /\ i' = 1
  /\ UNCHANGED <<command, k, found, succeeded, failed, ended, server>>

End(how) ==
  /\ ended' = how
  /\ UNCHANGED <<command, gate, i, k, found, succeeded, failed, server>>

\* One entry after the other, and then the next gate.
NextEntry ==
  IF i < Len(items)
    THEN i' = i + 1 /\ UNCHANGED <<command, gate, k, found, succeeded, failed, ended, server>>
    ELSE Pass

\* The input is read and validated: the ids and the fields of an update, or of
\* each entry of an array.
PrepareUpdates ==
  /\ form \in Updates /\ AtGate("prepare")
  /\ \/ IF form = "update_json" THEN NextEntry ELSE Pass
     \/ End("rejected")

\* The fields, comments and files of each bug to create.
PrepareCreates ==
  /\ form \in Creates /\ AtGate("prepare")
  /\ NextEntry \/ End("rejected")

DryRun == AtGate("dry-run") /\ (Pass \/ End("dry-run"))

\* connect_and_configure, and the validation of --field names.
Connect == AtGate("connect") /\ (Pass \/ End("error"))

\* validate_target_status: the server is asked for the names of its statuses.
ValidateStatus == form = "verb" /\ AtGate("lookup") /\ (Pass \/ End("error"))

\* The bug to clone and its description are read.
ReadSource == form = "clone" /\ AtGate("lookup") /\ (Pass \/ End("error"))

\* confirm_batch: a prompt if the batch is large, a person is at the terminal and
\* gave no --yes; its answer, or the end of the input.
Confirm ==
  /\ AtGate("confirm")
  /\ \/ Pass
     \/ Len(items) > BatchThreshold /\ (End("aborted") \/ End("error"))

\* ensure_unchanged_since: nothing is expected of the bug, or it is read and
\* found unchanged.
Unchanged ==
  /\ AtGate("check")
  /\ items[i].guarded => items[i].bug \notin changed
  /\ form = "update_json" /\ i = Len(items) => failed = {}
  /\ NextEntry

\* Mutant of Collision: only the entry that collides is left out.
CollisionAlone ==
  /\ AtGate("check") /\ items[i].guarded
  /\ IF form = "update_json"
       THEN /\ failed' = failed \cup {<<i, 0>>}
            /\ IF i < Len(items) THEN i' = i + 1 /\ UNCHANGED gate
                                 ELSE i' = 1 /\ gate' = gate + 1
            /\ UNCHANGED <<command, k, found, succeeded, ended, server>>
       ELSE End("error")

\* It has changed, or it cannot be read.  From flags this is the end; from JSON
\* all entries are looked at (preflight_expect_unchanged_since).
Collision ==
  /\ AtGate("check") /\ items[i].guarded
  /\ IF form = "update_json"
       THEN /\ failed' = failed \cup {<<i, 0>>}
            /\ IF i < Len(items) THEN i' = i + 1 /\ UNCHANGED ended
                                 ELSE ended' = "collision" /\ UNCHANGED i
            /\ UNCHANGED <<command, gate, k, found, succeeded, server>>
       ELSE End("error")

\* The last entry is fine, but an earlier one was not.
EarlierCollision ==
  /\ AtGate("check")
  /\ form = "update_json" /\ i = Len(items) /\ failed # {}
  /\ items[i].guarded => items[i].bug \notin changed
  /\ End("collision")

-----------------------------------------------------------------------------
(* The writes. *)

Writing == ended = "no" /\ gate > Len(Gates[form]) /\ i <= Len(items)

AtStep(name) == Writing /\ Steps(items[i])[k] = name

NextItem == i' = i + 1 /\ k' = 1 /\ found' = 0

NextStep ==
  IF k < Len(Steps(items[i])) THEN k' = k + 1 /\ found' = 0 /\ UNCHANGED i ELSE NextItem

\* A created bug is named at once, an update once its comment is tagged.
Done ==
  /\ NextStep
  /\ succeeded' = IF (form \in Creates /\ k = 1)
                       \/ (form \in Updates /\ k = Len(Steps(items[i])))
                    THEN succeeded \cup {i} ELSE succeeded
  /\ UNCHANGED failed

\* Mutant of Failed: the sub-steps of a bug end at the first failure, and the
\* later ones are forgotten.
FailedStops ==
  /\ NextItem
  /\ failed' = failed \cup {<<i, k>>}
  /\ UNCHANGED <<succeeded, ended>>

\* The error of the only bug is returned at once, with no report; but once a bug
\* is created, its other steps are tried and reported.
Returned == Single /\ (form \in Updates \/ k = 1)

\* A bug that was not written has no further steps; the others go on.
Failed ==
  /\ IF Returned
       THEN ended' = "error" /\ UNCHANGED <<i, k, found>>
       ELSE UNCHANGED ended /\ IF k = 1 THEN NextItem ELSE NextStep
  /\ failed' = failed \cup {<<i, k>>}
  /\ UNCHANGED succeeded

\* Step j of item n posts a comment.
Posts(n, j) ==
  LET s == Steps(items[n])[j]
  IN  s \in {"create", "comment"} \/ (s = "update" /\ items[n].comment)

\* What the server does for step j of item n; c is the comment to tag, if any.
Perform(n, j, c) ==
  /\ applied' = applied \cup {<<n, j>>}
  /\ thread' = IF Posts(n, j) THEN [thread EXCEPT ![BugOf(n)] = Append(@, n)] ELSE thread
  /\ tagged' = IF c = 0 THEN tagged ELSE tagged \cup {<<n, c>>}

\* Mutant of Unacknowledged: the first failure of a batch ends it too.
UnacknowledgedEnds ==
  /\ ended' = "error"
  /\ failed' = failed \cup {<<i, k>>}
  /\ late' \in {late, late \cup {<<<<i, k>>, found>>}}
  /\ UNCHANGED <<command, gate, i, k, found, succeeded, changed, thread,
                 applied, tagged, others>>

\* A write that is refused, or lost on its way there or back.
Unacknowledged ==
  /\ Failed
  /\ late' \in {late, late \cup {<<<<i, k>>, found>>}}
  /\ UNCHANGED <<command, gate, changed, thread, applied, tagged, others>>

Acknowledged ==
  /\ Done
  /\ Perform(i, k, found)
  /\ UNCHANGED <<command, gate, ended, changed, late, others>>

\* update_bug, create_bug, add_comment, upload_attachment.
Write(name) == AtStep(name) /\ (Acknowledged \/ Unacknowledged)

\* Mutant of Latest: the first comment.
Earliest(comments) == 1

\* find_latest_comment_id: the highest count, the last where there is none.
Latest(comments) == Len(comments)

\* get_comments_since, for the comment to tag: the description of a new bug.
FindComment ==
  /\ AtStep("tags") /\ found = 0
  /\ \/ /\ found' = IF form \in Creates THEN 1 ELSE Latest(thread[BugOf(i)])
        /\ UNCHANGED <<command, gate, i, k, succeeded, failed, ended, server>>
     \/ /\ Failed
        /\ UNCHANGED <<command, gate, server>>

\* update_comment_tags
TagComment ==
  /\ AtStep("tags") /\ found # 0
  /\ Acknowledged \/ Unacknowledged

\* The report, and the exit code: 0 or that of a partial failure.
Report ==
  /\ ended = "no" /\ gate > Len(Gates[form]) /\ i > Len(items)
  /\ End(IF failed = {} THEN "ok" ELSE "failed")

Command ==
  \/ PrepareUpdates \/ PrepareCreates \/ DryRun \/ Connect
  \/ ValidateStatus \/ ReadSource \/ Confirm
  \/ Unchanged \/ Collision \/ EarlierCollision
  \/ Write("update") \/ Write("create") \/ Write("comment") \/ Write("attachment")
  \/ FindComment \/ TagComment \/ Report

-----------------------------------------------------------------------------
\* A write whose answer was lost is made after all.
Late ==
  \E w \in late :
    /\ late' = late \ {w}
    /\ Perform(w[1][1], w[1][2], w[2])
    /\ UNCHANGED <<command, progress, changed, others>>

\* Another user changes a bug, or comments on one that has a comment already.
OtherChanges ==
  /\ others < MaxOthers
  /\ others' = others + 1
  /\ \E b \in Bugs : changed' = changed \cup {b}
  /\ UNCHANGED <<command, progress, thread, applied, late, tagged>>

OtherComments ==
  /\ others < MaxOthers
  /\ others' = others + 1
  /\ \E b \in Places :
       /\ form \in Creates => thread[b] # <<>>
       /\ thread' = [thread EXCEPT ![b] = Append(@, 0)]
  /\ UNCHANGED <<command, progress, changed, applied, late, tagged>>

Next == Command \/ Late \/ OtherChanges \/ OtherComments

Spec == Init /\ [][Next]_vars

-----------------------------------------------------------------------------
(* Properties *)

TypeOK ==
  /\ form \in Updates \cup Creates
  /\ items \in UNION { [1..n -> Item] : n \in 1..MaxItems }
  /\ stale \subseteq changed /\ changed \subseteq Bugs
  /\ gate \in 1..7 /\ i \in 1..(MaxItems + 1)
  /\ Writing => k \in DOMAIN Steps(items[i])
  /\ found \in Nat
  /\ succeeded \subseteq DOMAIN items
  /\ failed \subseteq (DOMAIN items) \X Nat
  /\ ended \in {"no", "rejected", "dry-run", "aborted", "error", "collision", "ok", "failed"}
  /\ thread \in [Places -> Seq(0..MaxItems)]
  /\ applied \subseteq Planned
  /\ late \subseteq Planned \X Nat
  /\ tagged \subseteq (DOMAIN items) \X Nat
  /\ others \in 0..MaxOthers

\* What the command has put in motion at the server.
Sent == applied \cup { w[1] : w \in late }

\* A command that ends without its report has written nothing, and nothing is on
\* its way: a preview, "Aborted; no changes made", a refused input, a collision,
\* any end of a batch (create_json.rs: "malformed input never half-creates a
\* batch").  Only an error about a single bug may leave something: the step in
\* error and, if an update's comment could not be tagged, the update, which a
\* warning says was made.  So the number of a new bug is lost only with the
\* server's answer to its creation (clone.rs: a later failure "must not hide the
\* new bug ID").
NothingUnreported ==
  ended \in {"rejected", "dry-run", "aborted", "error", "collision"} =>
    /\ Sent # {} => Single /\ ended = "error"
    /\ \A w \in Sent : w \in failed \/ (form \in Updates /\ <<w[1], 2>> \in failed)

\* --expect-unchanged-since: if a bug of the command had changed before the
\* command began, no bug of it is written (ensure_unchanged_since: "All IDs are
\* checked before any write, so a batch is all-or-nothing on collision").
CollisionBlocksBatch ==
  (\E n \in DOMAIN items : items[n].guarded /\ items[n].bug \in stale) => Sent = {}

\* The report and the exit code are true: success means that all of the command
\* is done; a bug named as written is written; a planned write that was not made
\* is named, itself or because its bug was not written; and every bug of the
\* command is named, of an update on one side only.
ReportTrue ==
  ended \in {"ok", "failed"} =>
    /\ ended = "ok" => applied = Planned
    /\ \A n \in succeeded : <<n, 1>> \in applied
    /\ \A w \in Planned \ applied : w \in failed \/ <<w[1], 1>> \in failed
    /\ \A n \in DOMAIN items : n \in succeeded \/ \E f \in failed : f[1] = n
    /\ form \in Updates => \A n \in succeeded : \A f \in failed : f[1] # n

\* Tags never land on a comment older than the item's own, and in a new bug on
\* nothing but its description (tag_description_comment: "the bug has exactly one
\* comment and 'first' is unambiguous").
TagsNotOlder ==
  \A t \in tagged :
    LET comments == thread[BugOf(t[1])] IN
    /\ \E m \in 1..t[2] : comments[m] = t[1]
    /\ form \in Creates => t[2] = 1

\* Tags land on the comment the update has posted (find_latest_comment_id: "the
\* newly-posted comment is always the one with the highest count").
TagsOwnComment == \A t \in tagged : thread[BugOf(t[1])][t[2]] = t[1]
=============================================================================
