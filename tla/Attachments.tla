---------------------------- MODULE Attachments ----------------------------
(***************************************************************************)
(* The attachment commands (commands/attachment): upload of one file to    *)
(* one or several bugs, its comment made private afterwards; download of   *)
(* attachments by id and by bug.                                           *)
(*                                                                         *)
(* A comment cannot be posted private with an upload: the upload posts it  *)
(* for all to read, the command finds it and flips it.  A download is      *)
(* staged in a private temporary file and validated; then the destination  *)
(* is truncated and written.  The command may be killed anywhere: what it  *)
(* leaves then is a state of this module.                                  *)
(***************************************************************************)
EXTENDS Integers, Sequences, FiniteSets, SequencesExt

CONSTANTS
  Bugs,            \* the bugs there are
  MaxTargets,      \* a command names so many bugs and attachments at most
  MaxStored,       \* bound: the server holds so many attachments before it
  BatchThreshold,  \* uploads to more bugs are confirmed at a prompt
  MaxOthers        \* bound: what other users do

ASSUME AttachmentsAssumption ==
  /\ MaxTargets \in Nat /\ MaxStored \in Nat
  /\ BatchThreshold \in Nat /\ MaxOthers \in Nat
  /\ Bugs # {}

VARIABLES
  form,      \* "upload" or "download"
  targets,   \* the bugs, then the attachments, it names
  option,    \* --comment-private of an upload, --ignore-obsolete of a download
  insider,   \* whether the user may make comments private
  old,       \* the attachments at the start
  stage,     \* what the command does next
  i,         \* the target under way
  queue,     \* a download: the attachments of the target still to be written
  at,        \* an upload: the attachment made, and then its comment
  done,      \* <<target, attachment>>: the report will name it as transferred
  failed,    \* <<target, step>>: the report will name the failure
  received,  \* the attachments staged and validated so far
  disk,      \* what the destination of an attachment holds
  ended,     \* "no", or how the command ended
  stored,    \* the server's attachments, by id: their bug, whether obsolete
  thread,    \* the comments of a bug: the attachment each came with, or 0
  late,      \* writes the server may make yet, though an error was seen
  others     \* what other users have done so far

command == <<form, targets, option, insider, old>>
progress == <<stage, i, queue, at, done, failed>>
files == <<received, disk>>
server == <<stored, thread, late>>
transferVars == <<command, progress, files, ended, server, others>>

-----------------------------------------------------------------------------
OnBug(b) == [kind |-> "bug", of |-> b]
ById(a) == [kind |-> "id", of |-> a]

Stored == DOMAIN stored

\* validate_action: an upload names each of its bugs once; only downloads of bugs
\* take --ignore-obsolete; bugs are downloaded before single attachments.
Valid(f, ts, opt) ==
  IF f = "upload"
    THEN /\ \A n \in DOMAIN ts : ts[n].kind = "bug"
         /\ IsInjective(ts)
    ELSE /\ opt => \E n \in DOMAIN ts : ts[n].kind = "bug"
         /\ \A m, n \in DOMAIN ts : m < n /\ ts[n].kind = "bug" => ts[m].kind = "bug"

\* download_single: one attachment and no bug; it reads no metadata first.
OneById == Len(targets) = 1 /\ targets[1].kind = "id"

NoComments == [b \in Bugs |-> <<>>]

TransferInit ==
  /\ form \in {"upload", "download"}
  /\ old \in UNION { [1..n -> [bug : Bugs, obsolete : BOOLEAN]] : n \in 0..MaxStored }
  /\ targets \in UNION { [1..n -> { OnBug(b) : b \in Bugs } \cup { ById(a) : a \in DOMAIN old }]
                         : n \in 1..MaxTargets }
  /\ option \in BOOLEAN
  /\ Valid(form, targets, option)
  /\ form = "upload" => old = <<>>
  /\ insider \in IF form = "upload" /\ option THEN BOOLEAN ELSE {FALSE}
  /\ stored = old
  /\ stage = "prepare" /\ i = 1 /\ queue = <<>> /\ at = 0
  /\ done = {} /\ failed = {} /\ received = {}
  /\ disk = [a \in 1..(MaxStored + MaxOthers) |-> "before"]
  /\ ended = "no"
  /\ thread = NoComments /\ late = {}
  /\ others = 0

Running(what) == ended = "no" /\ stage = what

End(how) ==
  /\ ended' = how
  /\ UNCHANGED <<command, progress, files, server, others>>

Enter(what) ==
  /\ stage' = what
  /\ UNCHANGED <<command, i, queue, at, done, failed, files, ended, server, others>>

\* The file and its comment are read, or the directory to write to is made.
Prepare == Running("prepare") /\ (Enter("connect") \/ (~OneById /\ End("error")))

Connect ==
  /\ Running("connect")
  /\ \/ Enter(IF form = "upload" THEN "confirm"
               ELSE IF OneById THEN "fetch" ELSE "list")
     \/ End("error")

\* confirm_batch, for uploads to several bugs: a person may decline.
Confirm ==
  /\ Running("confirm")
  /\ Enter("upload") \/ (Len(targets) > BatchThreshold /\ (End("aborted") \/ End("error")))

\* The next target, or the report.
NextTarget(first) ==
  /\ i' = i + 1
  /\ stage' = IF i < Len(targets) THEN first ELSE "report"
  /\ at' = 0

ReportTransfers ==
  /\ Running("report")
  /\ End(IF failed = {} THEN "ok" ELSE "failed")

-----------------------------------------------------------------------------
(* Uploads. *)

\* The server makes an attachment of bug b; comment 0 of another user's, or the
\* target it is for.
Attach(b, target) ==
  /\ stored' = Append(stored, [bug |-> b, obsolete |-> FALSE])
  /\ thread' = [thread EXCEPT ![b] =
       Append(@, [att |-> Len(stored) + 1, target |-> target, private |-> FALSE])]

MakePrivate(b, c) == thread' = [thread EXCEPT ![b][c].private = TRUE]

Uploaded ==
  /\ Attach(targets[i].of, i)
  /\ done' = done \cup {<<i, Len(stored) + 1>>}
  /\ IF option
       THEN stage' = "find" /\ at' = Len(stored) + 1 /\ UNCHANGED i
       ELSE NextTarget("upload")
  /\ UNCHANGED <<command, queue, failed, files, ended, late, others>>

NotUploaded ==
  /\ failed' = failed \cup {<<i, "upload">>}
  /\ NextTarget("upload")
  /\ late' \in {late, late \cup {<<i, 0>>}}
  /\ UNCHANGED <<command, queue, done, files, ended, stored, thread, others>>

\* upload_attachment
Upload == Running("upload") /\ (Uploaded \/ NotUploaded)

\* The targets the fan-out has not come to.
NotAttempted == (i + 1)..Len(targets)

\* Mutant of NotFlipped: the failure is noted, and the batch goes on.
NotFlippedGoesOn ==
  /\ failed' = failed \cup {<<i, "comment_private">>}
  /\ NextTarget("upload")
  /\ UNCHANGED <<command, queue, done, files, ended, stored, thread, others>>

\* The comment stays public: the fan-out stops here.
NotFlipped ==
  /\ failed' = failed \cup {<<i, "comment_private">>}
                    \cup { <<n, "not_attempted">> : n \in NotAttempted }
  /\ stage' = "report"
  /\ UNCHANGED <<command, i, queue, at, done, files, ended, stored, thread, others>>

\* The comment that came with attachment a.
CommentOf(comments, a) == CHOOSE c \in DOMAIN comments : comments[c].att = a

\* get_comments_since, and the search in it.
FindComment ==
  /\ Running("find")
  /\ \/ /\ at' = CommentOf(thread[targets[i].of], at)
        /\ stage' = "flip"
        /\ UNCHANGED <<command, i, queue, done, failed, files, ended, server, others>>
     \/ NotFlipped /\ UNCHANGED late

\* update_bug with comment_is_private; refused unless the user is an insider.
Flip ==
  /\ Running("flip")
  /\ \/ /\ insider
        /\ MakePrivate(targets[i].of, at)
        /\ NextTarget("upload")
        /\ UNCHANGED <<command, queue, done, failed, files, ended, stored, late, others>>
     \/ /\ NotFlipped
        /\ late' \in IF insider THEN {late, late \cup {<<i, at>>}} ELSE {late}

-----------------------------------------------------------------------------
(* Downloads. *)

Skipped(a) == option /\ stored[a].obsolete

\* get_attachments_metadata for a bug, without those to skip, as the server orders
\* them; get_attachment_metadata for an id.
Asked(t) ==
  IF t.kind = "bug" THEN { a \in Stored : stored[a].bug = t.of /\ ~Skipped(a) } ELSE {t.of}
Listings(t) ==
  { q \in SeqOf(Asked(t), Len(stored)) : ToSet(q) = Asked(t) /\ IsInjective(q) }

\* What is under way is over: the next attachment, or the next target.
Proceed(rest) ==
  /\ queue' = rest
  /\ IF rest # <<>> THEN stage' = "fetch" /\ UNCHANGED <<i, at>> ELSE NextTarget("list")

List ==
  /\ Running("list")
  /\ \/ (\E q \in Listings(targets[i]) : Proceed(q)) /\ UNCHANGED failed
     \/ failed' = failed \cup {<<i, "list">>} /\ Proceed(<<>>)
  /\ UNCHANGED <<command, done, files, ended, server, others>>

Current == IF OneById THEN targets[1].of ELSE Head(queue)

Rest == IF OneById THEN <<>> ELSE Tail(queue)

\* Mutant of Missed: a failure counts only at the last attachment of its target.
MissedUnlessLast ==
  /\ failed' = IF Rest = <<>> THEN failed \cup {<<i, "file">>} ELSE failed
  /\ Proceed(Rest)
  /\ UNCHANGED done

\* The first error of a target is its error; its other attachments go on.
Missed ==
  /\ failed' = failed \cup {<<i, "file">>}
  /\ Proceed(Rest)
  /\ UNCHANGED done

\* download_attachment: the answer is staged and validated, or refused, cut off
\* or malformed (AttachmentStream).
Fetch ==
  /\ Running("fetch")
  /\ \/ /\ received' = received \cup {Current}
        /\ stage' = "create"
        /\ UNCHANGED <<i, queue, at, done, failed>>
     \/ Missed /\ UNCHANGED received
  /\ UNCHANGED <<command, disk, ended, server, others>>

\* copy_download: File::create truncates; before it the name or the directory may
\* be refused.
Create ==
  /\ Running("create")
  /\ \/ /\ disk' = [disk EXCEPT ![Current] = "part"]
        /\ stage' = "copy"
        /\ UNCHANGED <<i, queue, at, done, failed>>
     \/ Missed /\ UNCHANGED disk
  /\ UNCHANGED <<command, received, ended, server, others>>

\* io::copy: the disk may be full.
Copy ==
  /\ Running("copy")
  /\ \/ /\ disk' = [disk EXCEPT ![Current] = "whole"]
        /\ done' = done \cup {<<i, Current>>}
        /\ Proceed(Rest) /\ UNCHANGED failed
     \/ Missed /\ UNCHANGED disk
  /\ UNCHANGED <<command, received, ended, server, others>>

Command ==
  \/ Prepare \/ Connect \/ Confirm \/ ReportTransfers
  \/ Upload \/ FindComment \/ Flip
  \/ List \/ Fetch \/ Create \/ Copy

-----------------------------------------------------------------------------
\* A write whose answer was lost is made after all.
Late ==
  \E w \in late :
    /\ late' = late \ {w}
    /\ IF w[2] = 0 THEN Attach(targets[w[1]].of, w[1])
                   ELSE MakePrivate(targets[w[1]].of, w[2]) /\ UNCHANGED stored
    /\ UNCHANGED <<command, progress, files, ended, others>>

\* Another user attaches a file, or calls one obsolete, or comments.
OtherAttaches ==
  /\ others < MaxOthers /\ others' = others + 1
  /\ \E b \in Bugs : Attach(b, 0)
  /\ UNCHANGED <<command, progress, files, ended, late>>

OtherObsoletes ==
  /\ others < MaxOthers /\ others' = others + 1
  /\ \E a \in Stored : stored' = [stored EXCEPT ![a].obsolete = TRUE]
  /\ UNCHANGED <<command, progress, files, ended, thread, late>>

OtherComments ==
  /\ others < MaxOthers /\ others' = others + 1
  /\ form = "upload"
  /\ \E b \in Bugs : thread' = [thread EXCEPT ![b] =
       Append(@, [att |-> 0, target |-> 0, private |-> FALSE])]
  /\ UNCHANGED <<command, progress, files, ended, stored, late>>

TransferNext == Command \/ Late \/ OtherAttaches \/ OtherObsoletes \/ OtherComments

TransferSpec == TransferInit /\ [][TransferNext]_transferVars

-----------------------------------------------------------------------------
(* Properties *)

TransferTypeOK ==
  /\ form \in {"upload", "download"}
  /\ \A n \in DOMAIN targets : targets[n].kind = "bug" => targets[n].of \in Bugs
  /\ option \in BOOLEAN /\ insider \in BOOLEAN
  /\ stage \in {"prepare", "connect", "confirm", "upload", "find", "flip",
                "list", "fetch", "create", "copy", "report"}
  /\ i \in 1..(MaxTargets + 1)
  /\ queue \in Seq(Nat) /\ at \in Nat
  /\ done \subseteq (DOMAIN targets) \X Stored
  /\ \A f \in failed : f[1] \in DOMAIN targets
  /\ received \subseteq Stored
  /\ \A a \in DOMAIN disk : disk[a] \in {"before", "part", "whole"}
  /\ ended \in {"no", "error", "aborted", "ok", "failed"}
  /\ \A a \in Stored : stored[a] \in [bug : Bugs, obsolete : BOOLEAN]
  /\ DOMAIN thread = Bugs
  /\ others \in 0..MaxOthers

Over == ended \in {"ok", "failed"}

Public(n) ==
  \E c \in DOMAIN thread[targets[n].of] :
    LET comment == thread[targets[n].of][c]
    IN  comment.target = n /\ ~comment.private

\* Only the comments this command has posted are made private, and only when it
\* was asked to (flip_new_comment_private: "Identifies the comment by its
\* attachment_id field").
FlipsOwn ==
  \A b \in Bugs : \A c \in DOMAIN thread[b] :
    thread[b][c].private => option /\ thread[b][c].target # 0

\* A text meant to be private is on view on one bug at most of those the command
\* has had an answer for, however large the batch (upload_batch: "continuing would
\* post the user's private comment text publicly on each of them in turn").
ExposedOnce ==
  form = "upload" /\ option => Cardinality({ d \in done : Public(d[1]) }) <= 1

\* The report of an upload accounts for every bug: as transferred, as failed or as
\* not attempted; one transferred is on the server, and is never named as one to
\* upload again; one whose comment is on view is named for that; and the exit code
\* is that of a success only when all is done.
UploadsNamed ==
  form = "upload" /\ Over =>
    /\ \A n \in DOMAIN targets :
         (\E d \in done : d[1] = n)
           <=> ~\E f \in failed : f[1] = n /\ f[2] \in {"upload", "not_attempted"}
    /\ \A d \in done : stored[d[2]].bug = targets[d[1]].of
    /\ \A d \in done : option /\ Public(d[1]) => <<d[1], "comment_private">> \in failed
    /\ ended = "ok" <=> failed = {}

\* A file on disk is not touched before the attachment to replace it has arrived
\* whole and is valid, wherever the transfer fails or the command is killed
\* (download_attachment: "Download into private temporary storage, validate the
\* response").
ReceivedFirst == \A a \in DOMAIN disk : disk[a] # "before" => a \in received

WantedOf(n) ==
  IF targets[n].kind = "id" THEN {targets[n].of}
  ELSE { a \in DOMAIN old : old[a].bug = targets[n].of /\ ~Skipped(a) }

\* The report of a download is true: a target without an error has all that it
\* asked for - of a bug, what it had when the command began - whole on disk, or
\* another target that asks for the same has an error; and no file is left half
\* written without an error.
DownloadsTrue ==
  form = "download" /\ Over =>
    LET Faulty == { f[1] : f \in failed }
        Blamed(a) == \E n \in Faulty : targets[n] = ById(a) \/ targets[n] = OnBug(stored[a].bug)
    IN  /\ \A n \in DOMAIN targets \ Faulty : \A a \in WantedOf(n) : disk[a] = "whole" \/ Blamed(a)
        /\ \A d \in done : disk[d[2]] = "whole" \/ Blamed(d[2])
        /\ \A a \in DOMAIN disk : disk[a] = "part" => Blamed(a)

\* What a batch reports, in either direction, is what the server and the disk hold,
\* and a failed transfer leaves the file that was there.
TransfersTrue == UploadsNamed /\ DownloadsTrue /\ ReceivedFirst

\* A file the report names as downloaded is whole.
NamedWhole == form = "download" /\ Over => \A d \in done : disk[d[2]] = "whole"

\* A text meant to be private is on view on one bug at most, lost answers included.
ExposedOnceAtAll ==
  form = "upload" /\ option => Cardinality({ n \in DOMAIN targets : Public(n) }) <= 1
=============================================================================
