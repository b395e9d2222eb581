-------------------------- MODULE TransportProofs --------------------------
(***************************************************************************)
(* Theorems about Transport for any number of retries: a write is applied  *)
(* at most once and reported truthfully, the requests are bounded, and the *)
(* verdict on the key is true of the server.                               *)
(* Theorems about Attachments, whose uploads and downloads go through it,  *)
(* for any number of targets: a private text is on view once at most, and  *)
(* the report of a batch is true.                                          *)
(***************************************************************************)
EXTENDS Transport, Attachments, FiniteSetTheorems, TLAPS

USE TransportAssumption

\* At most one change is made or can still be made.
Single ==
  /\ \A m, n \in inflight : m = n
  /\ \A m, n \in applied : m = n
  /\ inflight = {} \/ applied = {}

\* What is known of a write at each step: nothing reached the server and stayed
\* there when it is about to be sent; one request is there while the client
\* waits; an answer tells whether it was carried out.
WriteInv ==
  ~safe =>
    /\ pc = "send" => inflight = {} /\ applied = {}
    /\ pc = "wait" => applied = {} /\ inflight = {<<sent, Credential>>}
    /\ pc = "answered" =>
         /\ inflight = {}
         /\ answer.status = "2xx" => applied = {sent}
         /\ answer.status = "5xx" => applied \in {{}, {sent}}
         /\ answer.status \notin {"2xx", "5xx"} => applied = {}
    /\ pc = "done" =>
         /\ Single
         /\ result = "ok" => inflight = {} /\ applied # {}
         /\ result \in {"refused", "unauthorized"} => inflight = {} /\ applied = {}

\* The attempts made bound the requests sent.
CountInv ==
  /\ pc = "send" => sent <= 2 * attempt + (IF alternate THEN 1 ELSE 0)
  /\ pc \in {"wait", "answered"} => sent <= 2 * attempt + (IF alternate THEN 2 ELSE 1)
  /\ pc = "done" => sent <= 2 * attempt + 2

\* What the code of a 401 or 403 says of the key.
Truthful(r, credential) ==
  r.status \in {"401", "403"} =>
    /\ r.code = "other" => credential \in accepts
    /\ credential \in accepts => r.code = "other" \/ codeless

AuthInv ==
  /\ pc = "wait" => \A m \in inflight : m[1] = sent => m[2] = Credential
  /\ pc = "answered" => Truthful(answer, Credential)
  /\ AuthVerdictTruthful

Inv ==
  /\ TypeOK
  /\ result = "pending" <=> pc # "done"
  /\ WriteInv /\ CountInv /\ AuthInv

LEMMA ReportType ==
  ASSUME NEW r \in Response
  PROVE  /\ Report(r) \in {"ok", "refused", "unknown"}
         /\ Report(r) = "ok" => r.status = "2xx"
         /\ Report(r) = "refused" => r.status \notin {"2xx", "5xx"}
  BY DEF Report, CheckBody, Response, Statuses

LEMMA RefusalType ==
  ASSUME NEW c \in Auths, codeless \in BOOLEAN, NEW r \in Refusals(c)
  PROVE  r \in Response /\ r.status # "2xx" /\ Truthful(r, c)
<1> DEFINE Bodies(statuses, code) ==
      [status : statuses, code : IF codeless THEN {code, "none"} ELSE {code},
       readable : BOOLEAN]
<1>1. CASE r \in [status : {"429", "5xx"}, code : {"none"}, readable : {TRUE}]
  BY <1>1 DEF Response, Statuses, Codes, Truthful
<1>2. CASE c \in accepts /\ r \in Bodies({"401", "403", "4xx", "rejected"}, "other")
  BY <1>2 DEF Response, Statuses, Codes, Truthful
<1>3. CASE c \notin accepts /\ r \in Bodies({"401"}, "auth")
  BY <1>3 DEF Response, Statuses, Codes, Truthful
<1>4. QED
  BY <1>1, <1>2, <1>3 DEF Refusals

LEMMA CompletionType ==
  ASSUME NEW r \in Completions, NEW c
  PROVE  r \in Response /\ r.status \in {"2xx", "5xx"} /\ Truthful(r, c)
  BY DEF Completions, Response, Statuses, Codes, Truthful

LEMMA InitInv == Init => Inv
<1> SUFFICES ASSUME Init PROVE Inv
  OBVIOUS
<1>1. NoAnswer \in Response
  BY DEF NoAnswer, Response, Statuses, Codes
<1>2. safe \in BOOLEAN
  BY DEF Init
<1>3. TypeOK
  <2>1. codeless \in BOOLEAN /\ cloneable \in BOOLEAN /\ alternate \in BOOLEAN
    BY DEF Init
  <2>2. inflight \subseteq (1..sent) \X Auths /\ applied \subseteq 1..sent
    BY DEF Init
  <2>3. attempt \in 0..RetryMax /\ sent \in Nat
    BY DEF Init
  <2>4. answer \in Response /\ result = "pending" /\ pc = "send"
    BY <1>1 DEF Init
  <2>5. accepts \subseteq Auths /\ auth \in Auths
    BY DEF Init
  <2>6. QED
    BY <1>2, <2>1, <2>2, <2>3, <2>4, <2>5 DEF TypeOK
<1>4. WriteInv /\ AuthInv
  BY DEF Init, WriteInv, AuthInv, AuthVerdictTruthful
<1>5. CountInv
  BY DEF Init, CountInv
<1>6. QED
  BY <1>3, <1>4, <1>5 DEF Init, Inv

\* An error of send_raw, at a point where a retry is harmless.
LEMMA ErrorInv ==
  ASSUME Inv, NEW t \in BOOLEAN, OnError(t), pc \in {"send", "wait"},
         ~safe => Single, ~safe /\ t => inflight = {} /\ applied = {},
         UNCHANGED <<request, sent, inflight, applied, answer>>
  PROVE  Inv'
<1> USE DEF Inv, TypeOK, request
<1>1. CASE cloneable /\ attempt < RetryMax /\ t
  <2>1. pc' = "send" /\ attempt' = attempt + 1 /\ alternate' = FALSE /\ result' = result
    BY <1>1 DEF OnError, Retry
  <2>a. attempt' \in 0..RetryMax
    BY <1>1, <2>1
  <2>b. pc' # "done" /\ result' = "pending"
    BY <2>1
  <2>2. TypeOK' /\ (result = "pending" <=> pc # "done")'
    BY <2>1, <2>a, <2>b
  <2>3. WriteInv'
    BY <1>1, <2>1 DEF WriteInv
  <2>4. CountInv'
    BY <2>1 DEF CountInv
  <2>5. AuthInv'
    BY <2>1 DEF AuthInv, AuthVerdictTruthful
  <2>6. QED
    BY <2>2, <2>3, <2>4, <2>5
<1>2. CASE ~(cloneable /\ attempt < RetryMax /\ t)
  <2>1. pc' = "done" /\ result' = "unknown" /\ UNCHANGED <<attempt, alternate>>
    BY <1>2 DEF OnError, Return
  <2>2. TypeOK' /\ (result = "pending" <=> pc # "done")'
    BY <2>1
  <2>3. WriteInv'
    BY <2>1 DEF WriteInv, Single
  <2>4. CountInv'
    BY <2>1 DEF CountInv
  <2>5. AuthInv'
    BY <2>1 DEF AuthInv, AuthVerdictTruthful
  <2>6. QED
    BY <2>2, <2>3, <2>4, <2>5
<1>3. QED
  BY <1>1, <1>2

\* An answer is looked at.
LEMMA ConcludeInv ==
  ASSUME Inv, pc = "answered", Conclude(answer),
         alternate => answer.status \notin {"401", "403"},
         UNCHANGED <<request, sent, inflight, applied, answer>>
  PROVE  Inv'
<1> USE DEF Inv, TypeOK, request
<1>1. CASE cloneable /\ attempt < RetryMax /\ should_retry_status(answer.status)
  <2>1. pc' = "send" /\ attempt' = attempt + 1 /\ alternate' = FALSE /\ result' = result
    BY <1>1 DEF Conclude, Retry
  <2>a. attempt' \in 0..RetryMax
    BY <1>1, <2>1
  <2>b. pc' # "done" /\ result' = "pending"
    BY <2>1
  <2>2. TypeOK' /\ (result = "pending" <=> pc # "done")'
    BY <2>1, <2>a, <2>b
  <2>3. WriteInv'
    BY <1>1, <2>1 DEF WriteInv, should_retry_status
  <2>4. CountInv'
    BY <2>1 DEF CountInv
  <2>5. AuthInv'
    BY <2>1 DEF AuthInv, AuthVerdictTruthful
  <2>6. QED
    BY <2>2, <2>3, <2>4, <2>5
<1>2. CASE ~(cloneable /\ attempt < RetryMax /\ should_retry_status(answer.status))
  <2>1. pc' = "done" /\ result' = Report(answer) /\ UNCHANGED <<attempt, alternate>>
    BY <1>2 DEF Conclude, Return
  <2>2. TypeOK' /\ (result = "pending" <=> pc # "done")'
    BY <2>1, ReportType
  <2>3. WriteInv'
    BY <2>1, ReportType DEF WriteInv, Single
  <2>4. CountInv'
    BY <2>1 DEF CountInv
  <2>5. AuthInv'
    BY <2>1, ReportType DEF AuthInv, AuthVerdictTruthful
  <2>6. QED
    BY <2>2, <2>3, <2>4, <2>5
<1>3. QED
  BY <1>1, <1>2

LEMMA DeliverInv == Inv /\ Deliver => Inv'
<1> SUFFICES ASSUME Inv, Deliver PROVE Inv'
  OBVIOUS
<1> USE DEF Inv, TypeOK, Deliver, request
<1>1. Credential \in Auths /\ Credential' = Credential
  BY DEF Credential, Auths
<1>2. inflight' \subseteq (1..sent') \X Auths /\ applied' \subseteq 1..sent'
  BY <1>1
<1>3. TypeOK' /\ (result = "pending" <=> pc # "done")'
  BY <1>2
<1>4. WriteInv'
  BY <1>1 DEF WriteInv
<1>5. CountInv'
  BY DEF CountInv
<1>6. AuthInv'
  <2>1. ASSUME NEW m \in inflight', m[1] = sent' PROVE m[2] = Credential'
    <3>1. m \notin inflight
      BY <2>1
    <3>2. m = <<sent + 1, Credential>>
      BY <2>1, <3>1
    <3>3. QED
      BY <3>2, <1>1
  <2>2. QED
    BY <2>1 DEF AuthInv, AuthVerdictTruthful
<1>7. QED
  BY <1>3, <1>4, <1>5, <1>6

LEMMA HandleInv == Inv /\ Handle => Inv'
<1> SUFFICES ASSUME Inv, Handle PROVE Inv'
  OBVIOUS
<1> USE DEF Inv, TypeOK, request
<1>1. PICK m \in inflight, carried \in BOOLEAN :
        /\ inflight' = inflight \ {m}
        /\ applied' = IF carried THEN applied \cup {m[1]} ELSE applied
        /\ \/ /\ pc = "wait" /\ m[1] = sent
              /\ answer' \in IF carried THEN Completions ELSE Refusals(m[2])
              /\ pc' = "answered"
           \/ /\ ~(pc = "wait" /\ m[1] = sent)
              /\ UNCHANGED <<answer, pc>>
        /\ UNCHANGED <<request, attempt, alternate, sent, result>>
  BY DEF Handle
<1>2. m \in (1..sent) \X Auths /\ m[1] \in 1..sent /\ m[2] \in Auths
  OBVIOUS
<1>3. Credential' = Credential
  BY <1>1 DEF Credential
<1>4. CASE pc = "wait" /\ m[1] = sent
  <2>1. m[2] = Credential
    BY <1>4 DEF AuthInv
  <2>2. /\ answer' \in Response /\ Truthful(answer', m[2])
        /\ carried => answer'.status \in {"2xx", "5xx"}
        /\ ~carried => answer'.status # "2xx"
    BY <1>1, <1>2, <1>4, RefusalType, CompletionType
  <2>3. TypeOK' /\ (result = "pending" <=> pc # "done")'
    BY <1>1, <1>2, <1>4, <2>2
  <2>4. WriteInv'
    <3>1. SUFFICES ASSUME ~safe PROVE WriteInv'
      BY <1>1 DEF WriteInv
    <3>2. applied = {} /\ inflight = {m}
      BY <1>4, <3>1 DEF WriteInv
    <3>3. inflight' = {} /\ applied' = IF carried THEN {sent} ELSE {}
      BY <1>1, <1>4, <3>2
    <3>4. QED
      BY <1>1, <1>4, <2>2, <3>3 DEF WriteInv
  <2>5. CountInv'
    BY <1>1, <1>4 DEF CountInv
  <2>6. AuthInv'
    BY <1>1, <1>3, <1>4, <2>1, <2>2 DEF AuthInv, AuthVerdictTruthful, Truthful
  <2>7. QED
    BY <2>3, <2>4, <2>5, <2>6
<1>5. CASE ~(pc = "wait" /\ m[1] = sent)
  <2>1. UNCHANGED <<answer, pc>>
    BY <1>1, <1>5
  <2>2. TypeOK' /\ (result = "pending" <=> pc # "done")'
    BY <1>1, <1>2, <2>1
  <2>3. WriteInv'
    <3>1. SUFFICES ASSUME ~safe PROVE WriteInv'
      BY <1>1 DEF WriteInv
    <3>2. pc = "done" /\ Single
      BY <1>5, <3>1 DEF WriteInv
    <3>3. inflight = {m} /\ applied = {} /\ result \notin {"ok", "refused", "unauthorized"}
      BY <3>1, <3>2 DEF Single, WriteInv
    <3>4. inflight' = {} /\ applied' = IF carried THEN {m[1]} ELSE {}
      BY <1>1, <3>3
    <3>5. Single'
      BY <3>4 DEF Single
    <3>6. pc' = "done" /\ result' = result
      BY <1>1, <2>1, <3>2
    <3>7. QED
      BY <3>3, <3>5, <3>6 DEF WriteInv
  <2>4. CountInv'
    BY <1>1, <2>1 DEF CountInv
  <2>5. AuthInv'
    BY <1>1, <1>3, <2>1 DEF AuthInv, AuthVerdictTruthful, Truthful
  <2>6. QED
    BY <2>2, <2>3, <2>4, <2>5
<1>6. QED
  BY <1>4, <1>5

LEMMA UnauthorizedInv == Inv /\ Unauthorized => Inv'
<1> SUFFICES ASSUME Inv, Unauthorized PROVE Inv'
  OBVIOUS
<1> USE DEF Inv, TypeOK, Unauthorized, request
<1>1. TypeOK' /\ (result = "pending" <=> pc # "done")'
  OBVIOUS
<1>2. WriteInv'
  BY DEF WriteInv
<1>3. CountInv'
  BY DEF CountInv
<1>4. AuthInv'
  BY DEF AuthInv, AuthVerdictTruthful
<1>5. QED
  BY <1>1, <1>2, <1>3, <1>4

\* The second refusal, or the first that stands.
LEMMA StandsInv ==
  ASSUME Inv, pc = "answered", alternate, answer.status \in {"401", "403"},
         Return(IF Authenticated(answer) THEN "refused" ELSE "unauthorized"),
         UNCHANGED <<request, attempt, alternate, sent, inflight, applied, answer>>
  PROVE  Inv'
<1> USE DEF Inv, TypeOK, Return, request
<1>1. TypeOK' /\ (result = "pending" <=> pc # "done")'
  OBVIOUS
<1>2. WriteInv'
  BY DEF WriteInv, Single
<1>3. CountInv'
  BY DEF CountInv
<1>4. Credential' = Credential
  BY DEF Credential
<1>5. AuthInv'
  BY <1>4 DEF AuthInv, AuthVerdictTruthful, Truthful, Authenticated
<1>6. QED
  BY <1>1, <1>2, <1>3, <1>5

LEMMA NextInv == Inv /\ [Next]_vars => Inv'
<1> SUFFICES ASSUME Inv, [Next]_vars PROVE Inv'
  OBVIOUS
<1>1. CASE Deliver
  BY <1>1, DeliverInv
<1>2. CASE ConnectFails
  <2>1. ~safe => Single /\ inflight = {} /\ applied = {}
    BY <1>2 DEF ConnectFails, Inv, WriteInv, Single
  <2>2. QED
    BY <1>2, <2>1, ErrorInv DEF ConnectFails
<1>3. CASE TimesOut
  <2>1. safe \in BOOLEAN /\ (~safe => Single)
    BY <1>3 DEF TimesOut, Inv, TypeOK, WriteInv, Single
  <2>2. ASSUME OnError(safe) PROVE Inv'
    BY <1>3, <2>1, <2>2, ErrorInv DEF TimesOut
  <2>3. ASSUME OnError(FALSE) PROVE Inv'
    BY <1>3, <2>1, <2>3, ErrorInv DEF TimesOut
  <2>4. QED
    BY <1>3, <2>2, <2>3 DEF TimesOut
<1>4. CASE Unauthorized
  BY <1>4, UnauthorizedInv
<1>5. CASE Answered
  BY <1>5, ConcludeInv DEF Answered
<1>6. CASE AlternateAnswered
  BY <1>6, ConcludeInv, StandsInv DEF AlternateAnswered
<1>7. CASE Handle
  BY <1>7, HandleInv
<1>8. CASE UNCHANGED vars
  BY <1>8 DEF vars, request, Inv, TypeOK, WriteInv, Single, CountInv, AuthInv,
              AuthVerdictTruthful, Truthful, Credential
<1>9. QED
  BY <1>1, <1>2, <1>3, <1>4, <1>5, <1>6, <1>7, <1>8 DEF Next, Client

\* The invariant holds of the client's send, whatever --retry says.
THEOREM Invariant == Spec => []Inv
  BY InitInv, NextInv, PTL DEF Spec

\* A request reaches the server at most twice per attempt (send, send_raw).
THEOREM Requests == Spec => []RequestsBounded
<1>1. Inv => RequestsBounded
  BY DEF Inv, TypeOK, CountInv, RequestsBounded
<1>2. QED
  BY <1>1, Invariant, PTL

\* What the second authentication is reported to have shown is true of the
\* server (retry_with_alternate_auth).
THEOREM AuthVerdict == Spec => []AuthVerdictTruthful
<1>1. Inv => AuthVerdictTruthful
  BY DEF Inv, AuthInv
<1>2. QED
  BY <1>1, Invariant, PTL

\* Every step of send is a step of the abstract call, or none.
LEMMA StepImplements == Inv /\ Inv' /\ [Next]_vars => [Call!Next]_(Call!vars)
<1> SUFFICES ASSUME Inv, Inv', [Next]_vars, UNCHANGED <<request>>
             PROVE  [Call!Next]_(Call!vars)
  BY DEF Next, Client, Deliver, ConnectFails, TimesOut, Unauthorized, Answered,
         AlternateAnswered, Handle, vars
<1> DEFINE eff == IF safe THEN {} ELSE applied
           out == IF safe /\ pc = "done" THEN "unknown"
                  ELSE IF result = "unauthorized" THEN "refused" ELSE result
<1> USE DEF Inv, TypeOK
<1>1. CASE Handle
  <2>1. UNCHANGED result /\ (pc' = "done" <=> pc = "done")
    BY <1>1 DEF Handle
  <2>2. out' = out
    BY <2>1 DEF request
  <2>3. CASE safe \/ applied' = applied
    BY <2>2, <2>3 DEF Call!vars, request
  <2>4. CASE ~safe /\ applied' # applied
    <3>1. applied = {} /\ out \in {"pending", "unknown"}
      BY <1>1, <2>4 DEF Handle, WriteInv, Single
    <3>2. applied' # {} /\ \A m, n \in applied' : m = n
      BY <1>1, <2>4, <3>1 DEF Handle
    <3>3. QED
      BY <2>2, <2>4, <3>1, <3>2 DEF Call!Next, Call!Apply, request
  <2>5. QED
    BY <2>3, <2>4
<1>2. CASE ~Handle
  <2>1. applied' = applied
    BY <1>2 DEF Next, Client, Deliver, ConnectFails, TimesOut, Unauthorized, Answered,
                AlternateAnswered, vars
  <2>2. CASE pc' # "done" \/ pc = "done"
    <3>1. UNCHANGED result /\ (pc' = "done" <=> pc = "done")
      BY <1>2, <2>2 DEF Next, Client, Deliver, ConnectFails, TimesOut, Unauthorized,
           Answered, AlternateAnswered, vars, OnError, Conclude, Retry, Return
    <3>2. QED
      BY <2>1, <3>1 DEF Call!vars, request
  <2>3. CASE pc' = "done" /\ pc # "done"
    <3>1. out = "pending" /\ out' \in {"ok", "refused", "unknown"}
      BY <2>3 DEF request
    <3>2. ~safe => /\ result' = "ok" => applied' # {}
                   /\ result' \in {"refused", "unauthorized"} => applied' = {}
      BY <2>3 DEF WriteInv, request
    <3>3. QED
      BY <2>1, <2>3, <3>1, <3>2 DEF Call!Next, Call!Return, request
  <2>4. QED
    BY <2>2, <2>3
<1>3. QED
  BY <1>1, <1>2

\* send implements the abstract call for any number of retries: a write is
\* applied at most once, and success and refusal mean what they say.
THEOREM Implements == Spec => ImplementsCall
<1>1. Init => Call!Init
  BY DEF Init, Call!Init
<1>2. QED
  BY <1>1, StepImplements, Invariant, PTL DEF Spec, ImplementsCall, Call!Spec

-----------------------------------------------------------------------------
(* Attachments: the types *)

\* What a command names, what the server stores, and what a bug's thread holds.
Goals == [kind : {"bug"}, of : Bugs] \cup [kind : {"id"}, of : Nat]
Entries == [bug : Bugs, obsolete : BOOLEAN]
Comments == [att : Nat, target : Nat, private : BOOLEAN]

UploadStages == {"prepare", "connect", "confirm", "upload", "find", "flip", "report"}
DownloadStages == {"prepare", "connect", "list", "fetch", "create", "copy", "report"}
Transferring == {"fetch", "create", "copy"}

\* What both directions keep of the server and of the command.
Shaped ==
  /\ targets \in Seq(Goals) /\ targets # <<>>
  /\ stored \in Seq(Entries)
  /\ thread \in [Bugs -> Seq(Comments)]
  /\ option \in BOOLEAN
  /\ i \in Nat /\ i >= 1 /\ i <= Len(targets) + 1
  /\ stage # "report" => i <= Len(targets)
  /\ stage \in {"prepare", "connect", "confirm"} => i = 1 /\ failed = {} /\ done = {}
  /\ queue \in Seq(Nat) /\ at \in Nat
  /\ \A f \in failed : f[1] \in DOMAIN targets
  /\ ended \in {"ok", "failed"} => stage = "report" /\ (ended = "ok" <=> failed = {})

-----------------------------------------------------------------------------
(* Uploads *)

\* The stages before the upload of a target.
Before == {"prepare", "connect", "confirm", "upload"}

\* An upload names each of its bugs once.
BugsOnly == IsInjective(targets) /\ \A n \in DOMAIN targets : targets[n].kind = "bug"

\* Every comment of this command is on its target's bug, and no target has two.
CommentsOwn ==
  \A b \in Bugs : \A c \in DOMAIN thread[b] :
    LET comment == thread[b][c] IN
    /\ comment.att <= Len(stored)
    /\ comment.target # 0 =>
         /\ comment.target \in DOMAIN targets /\ comment.target <= i
         /\ targets[comment.target].of = b
         /\ stage \in Before => comment.target < i
         /\ \A other \in DOMAIN thread[b] : thread[b][other].target = comment.target => other = c

\* A write that may yet be made is of a target of the command, an upload of one
\* that has no comment yet and is not done.
LateOnce ==
  \A w \in late :
    /\ w \in Nat \X Nat /\ w[1] \in DOMAIN targets
    /\ w[2] = 0 =>
         /\ w[1] < i /\ \A d \in done : d[1] # w[1]
         /\ \A c \in DOMAIN thread[targets[w[1]].of] : thread[targets[w[1]].of][c].target # w[1]

\* What is done is done once, and on the server.
DoneOnServer ==
  /\ \A d \in done :
       /\ d \in Nat \X Nat
       /\ d[1] \in DOMAIN targets /\ d[1] <= i
       /\ stage \in Before => d[1] < i
       /\ d[2] \in DOMAIN stored /\ stored[d[2]].bug = targets[d[1]].of
  /\ \A d, e \in done : d[1] = e[1] => d = e

\* The comment being made private is the one posted.
CommentKnown ==
  LET own == thread[targets[i].of] IN
  /\ stage \in {"find", "flip"} => option /\ \E d \in done : d[1] = i
  /\ stage = "find" =>
       /\ at # 0
       /\ \E c \in DOMAIN own : own[c].att = at
       /\ \A c \in DOMAIN own : own[c].att = at <=> own[c].target = i
  /\ stage = "flip" => at \in DOMAIN own /\ own[at].target = i

\* Only the target under way has a comment on view, which is in the report then.
OneOnView ==
  option => \A d \in done : Public(d[1]) =>
    /\ d[1] = i
    /\ stage \in {"find", "flip"} \/ <<d[1], "comment_private">> \in failed

\* Every target behind is either done or named as lost.
Lost(n) == \E f \in failed : f[1] = n /\ f[2] \in {"upload", "not_attempted"}
Made(n) == \E d \in done : d[1] = n
TargetsNamed ==
  /\ stage # "report" => \A f \in failed : f[1] < i
  /\ \A n \in DOMAIN targets :
       n < i \/ stage = "report" \/ (n = i /\ stage \in {"find", "flip"}) => (Made(n) <=> ~Lost(n))

UploadInv ==
  /\ stage \in UploadStages
  /\ BugsOnly /\ CommentsOwn /\ LateOnce /\ DoneOnServer /\ CommentKnown /\ OneOnView /\ TargetsNamed

-----------------------------------------------------------------------------
(* Downloads *)

\* Whose error an attachment that is not whole may be.
Faulty == {f[1] : f \in failed}
Asks(n, a) == targets[n] = ById(a) \/ targets[n] = OnBug(stored[a].bug)
Blamed(a) == \E n \in Faulty : Asks(n, a)

\* What the server had at the start it still has; there is room for all it has.
Known ==
  /\ late = {}
  /\ Len(stored) <= MaxStored + others /\ others \in 0..MaxOthers
  /\ old \in Seq(Entries) /\ Len(old) <= Len(stored)
  /\ \A a \in DOMAIN old : stored[a].bug = old[a].bug
  /\ \A n \in DOMAIN targets : targets[n].kind = "id" => targets[n].of \in DOMAIN old
  /\ DOMAIN disk = 1..(MaxStored + MaxOthers)

\* What is under way and what is still to come of a target.
Waiting == IF OneById THEN {targets[1].of} ELSE ToSet(queue)
WaitingAsked ==
  stage \in Transferring =>
    /\ ~OneById => queue # <<>>
    /\ \A a \in Waiting : a \in Stored /\ Asks(i, a)

\* A file is whole, being written, or one of a target with an error.
InHand(a) == stage = "copy" /\ a = Current
Fine(a) == disk[a] = "whole" \/ Blamed(a) \/ InHand(a)

\* Of what a target asked for, nothing has been passed over.
FilesKept ==
  /\ \A d \in done : d[2] \in Stored /\ Fine(d[2])
  /\ \A a \in DOMAIN disk : disk[a] = "part" => Blamed(a) \/ InHand(a)
  /\ \A n \in DOMAIN targets \ Faulty :
       /\ n < i => \A a \in WantedOf(n) : Fine(a)
       /\ n = i /\ stage \in Transferring => \A a \in WantedOf(n) : a \in Waiting \/ Fine(a)
  /\ stage = "report" => i = Len(targets) + 1

\* A file is touched only once its attachment has been received.
FilesReceived ==
  /\ stage \in {"create", "copy"} => Current \in received
  /\ \A a \in DOMAIN disk : disk[a] # "before" => a \in received
  /\ received \subseteq Stored

DownloadInv ==
  /\ stage \in DownloadStages /\ Known /\ WaitingAsked /\ FilesKept /\ FilesReceived

\* An upload writes no file.
UploadSide == form = "upload" /\ UploadInv /\ \A a \in DOMAIN disk : disk[a] = "before"
DownloadSide == form = "download" /\ DownloadInv
TransferInv == Shaped /\ (UploadSide \/ DownloadSide)

-----------------------------------------------------------------------------
(* The server *)

\* An attachment joins those of the server.
LEMMA StoredAppended ==
  ASSUME NEW e \in Entries, stored \in Seq(Entries), stored' = Append(stored, e)
  PROVE  /\ stored' \in Seq(Entries) /\ Len(stored') = Len(stored) + 1
         /\ DOMAIN stored' = DOMAIN stored \cup {Len(stored) + 1}
         /\ \A a \in DOMAIN stored : stored'[a] = stored[a]
         /\ stored'[Len(stored) + 1] = e
  OBVIOUS

\* A comment in a thread is one.
LEMMA CommentTypes ==
  ASSUME thread \in [Bugs -> Seq(Comments)], NEW b \in Bugs, NEW c \in DOMAIN thread[b]
  PROVE  thread[b][c] \in Comments /\ thread[b][c].att \in Nat /\ thread[b][c].target \in Nat
<1>1. thread[b] \in Seq(Comments)
  OBVIOUS
<1>2. thread[b][c] \in Comments
  BY <1>1
<1>3. QED
  BY <1>2 DEF Comments

\* A comment joins those of a bug.
LEMMA ThreadAppended ==
  ASSUME NEW b \in Bugs, NEW m \in Comments, thread \in [Bugs -> Seq(Comments)],
         thread' = [thread EXCEPT ![b] = Append(@, m)]
  PROVE  /\ thread' \in [Bugs -> Seq(Comments)]
         /\ \A x \in Bugs : \A c \in DOMAIN thread[x] :
              c \in DOMAIN thread'[x] /\ thread'[x][c] = thread[x][c]
         /\ \A x \in Bugs : \A c \in DOMAIN thread'[x] :
              \/ c \in DOMAIN thread[x] /\ thread'[x][c] = thread[x][c]
              \/ x = b /\ c = Len(thread[b]) + 1 /\ thread'[x][c] = m
         /\ Len(thread[b]) + 1 \in DOMAIN thread'[b] /\ thread'[b][Len(thread[b]) + 1] = m
<1>1. thread[b] \in Seq(Comments)
  OBVIOUS
<1>2. thread'[b] = Append(thread[b], m) /\ \A x \in Bugs \ {b} : thread'[x] = thread[x]
  OBVIOUS
<1>3. /\ Append(thread[b], m) \in Seq(Comments)
      /\ DOMAIN Append(thread[b], m) = DOMAIN thread[b] \cup {Len(thread[b]) + 1}
      /\ \A c \in DOMAIN thread[b] : Append(thread[b], m)[c] = thread[b][c]
      /\ Append(thread[b], m)[Len(thread[b]) + 1] = m
  BY <1>1
<1>4. thread' \in [Bugs -> Seq(Comments)]
  BY <1>3
<1>5. QED
  BY <1>2, <1>3, <1>4

\* A comment that is made private is otherwise the one it was.
LEMMA ThreadPrivate ==
  ASSUME NEW b \in Bugs, NEW n \in Nat, thread \in [Bugs -> Seq(Comments)], MakePrivate(b, n)
  PROVE  /\ thread' \in [Bugs -> Seq(Comments)]
         /\ \A x \in Bugs : DOMAIN thread'[x] = DOMAIN thread[x]
         /\ \A x \in Bugs : \A c \in DOMAIN thread[x] :
              /\ thread'[x][c].att = thread[x][c].att /\ thread'[x][c].target = thread[x][c].target
              /\ ~thread'[x][c].private => ~thread[x][c].private
         /\ n \in DOMAIN thread[b] => thread'[b][n].private = TRUE
<1> DEFINE old_b == thread[b]
           made == [old_b EXCEPT ![n].private = TRUE]
<1>1. thread' = [thread EXCEPT ![b] = made]
  BY DEF MakePrivate
<1>2. old_b \in Seq(Comments)
  OBVIOUS
<1>3. made \in Seq(Comments) /\ DOMAIN made = DOMAIN old_b
  <2>1. \A c \in DOMAIN old_b : old_b[c] \in Comments
    BY <1>2
  <2>2. \A comment \in Comments : [comment EXCEPT !.private = TRUE] \in Comments
    BY DEF Comments
  <2>3. made = [c \in DOMAIN old_b |-> IF c = n THEN [old_b[c] EXCEPT !.private = TRUE] ELSE old_b[c]]
    BY <1>2
  <2>4. \A c \in DOMAIN old_b :
          (IF c = n THEN [old_b[c] EXCEPT !.private = TRUE] ELSE old_b[c]) \in Comments
    BY <2>1, <2>2
  <2>5. DOMAIN old_b = 1..Len(old_b) /\ Len(old_b) \in Nat
    BY <1>2
  <2> HIDE DEF made
  <2>6. QED
    BY <2>3, <2>4, <2>5
<1>4. \A c \in DOMAIN old_b : made[c] = IF c = n THEN [old_b[c] EXCEPT !.private = TRUE] ELSE old_b[c]
  BY <1>2
<1>5. \A c \in DOMAIN old_b : old_b[c] \in Comments
  BY <1>2
<1> HIDE DEF made
<1>6. \A c \in DOMAIN old_b :
        /\ made[c].att = old_b[c].att /\ made[c].target = old_b[c].target
        /\ c = n => made[c].private = TRUE
        /\ c # n => made[c] = old_b[c]
  BY <1>4, <1>5 DEF Comments
<1>7. thread'[b] = made /\ \A x \in Bugs \ {b} : thread'[x] = thread[x]
  BY <1>1
<1>8. thread' \in [Bugs -> Seq(Comments)]
  BY <1>1, <1>3
<1>9. QED
  BY <1>3, <1>6, <1>7, <1>8

-----------------------------------------------------------------------------
(* The steps of an upload *)

OnView(t, n) ==
  \E c \in DOMAIN t[targets[n].of] : t[targets[n].of][c].target = n /\ ~t[targets[n].of][c].private

\* Whether a comment is on view depends on its thread only.
LEMMA PublicOnView ==
  /\ \A n : Public(n) <=> OnView(thread, n)
  /\ targets' = targets => \A n : Public(n)' <=> OnView(thread', n)
  BY DEF Public, OnView

\* An upload's targets are bugs.
LEMMA BugOf ==
  ASSUME Shaped, UploadInv, NEW n \in DOMAIN targets
  PROVE  targets[n].of \in Bugs /\ targets[n].kind = "bug"
  BY DEF Shaped, UploadInv, BugsOnly, Goals

\* The command goes on to the next step before an upload, or ends.
LEMMA TurnUpload ==
  ASSUME Shaped, UploadInv,
         UNCHANGED <<targets, option, thread, stored, late, i, at, done, failed>>,
         stage' = stage \/ (stage \in Before /\ stage' \in Before)
  PROVE  UploadInv'
<1>1. stage' \in UploadStages /\ BugsOnly'
  BY DEF UploadInv, BugsOnly, Before, UploadStages, IsInjective
<1>2. CommentsOwn'
  BY DEF UploadInv, CommentsOwn, Before
<1>3. LateOnce'
  BY DEF UploadInv, LateOnce
<1>4. DoneOnServer'
  BY DEF UploadInv, DoneOnServer, Before
<1>5. CommentKnown'
  BY DEF UploadInv, CommentKnown, Before
<1>6. OneOnView'
  <2>1. \A n : Public(n)' <=> Public(n)
    BY DEF Public
  <2>2. CASE stage' = stage
    BY <2>1, <2>2 DEF UploadInv, OneOnView
  <2>3. CASE stage \in Before
    <3>1. \A d \in done : d[1] # i
      BY <2>3 DEF UploadInv, DoneOnServer, Shaped
    <3>2. QED
      BY <2>1, <3>1 DEF UploadInv, OneOnView
  <2>4. QED
    BY <2>2, <2>3
<1>7. TargetsNamed'
  <2>1. \A n : (Made(n)' <=> Made(n)) /\ (Lost(n)' <=> Lost(n))
    BY DEF Made, Lost
  <2>2. QED
    BY <2>1 DEF UploadInv, TargetsNamed, Before
<1>8. QED
  BY <1>1, <1>2, <1>3, <1>4, <1>5, <1>6, <1>7 DEF UploadInv

\* An upload is made, with its comment.
LEMMA UploadedUpload ==
  ASSUME Shaped, UploadInv, stage = "upload", Uploaded
  PROVE  UploadInv'
<1> DEFINE b == targets[i].of
           a == Len(stored) + 1
           m == [att |-> a, target |-> i, private |-> FALSE]
           e == [bug |-> b, obsolete |-> FALSE]
<1>1. /\ targets' = targets /\ option' = option /\ late' = late /\ failed' = failed
      /\ done' = done \cup {<<i, a>>}
      /\ stored' = Append(stored, e) /\ thread' = [thread EXCEPT ![b] = Append(@, m)]
  BY DEF Uploaded, Attach, command
<1>2. /\ option => stage' = "find" /\ at' = a /\ i' = i
      /\ ~option => i' = i + 1 /\ stage' \in {"upload", "report"}
  BY DEF Uploaded, NextTarget
<1>3. i \in DOMAIN targets /\ i \in Nat /\ b \in Bugs
  BY BugOf DEF Shaped
<1>4. stored \in Seq(Entries) /\ thread \in [Bugs -> Seq(Comments)] /\ Len(stored) \in Nat
      /\ option \in BOOLEAN
  BY DEF Shaped
<1>5. a \in Nat /\ m \in Comments /\ e \in Entries
  BY <1>3, <1>4 DEF Comments, Entries
<1> HIDE DEF b
<1>6. /\ Len(stored') = Len(stored) + 1
      /\ DOMAIN stored' = DOMAIN stored \cup {a}
      /\ \A x \in DOMAIN stored : stored'[x] = stored[x]
      /\ stored'[a] = e
  BY <1>1, <1>4, <1>5, StoredAppended
<1> HIDE DEF m, e
<1>7. /\ \A x \in Bugs : \A c \in DOMAIN thread[x] :
           c \in DOMAIN thread'[x] /\ thread'[x][c] = thread[x][c]
      /\ \A x \in Bugs : \A c \in DOMAIN thread'[x] :
           \/ c \in DOMAIN thread[x] /\ thread'[x][c] = thread[x][c]
           \/ x = b /\ c = Len(thread[b]) + 1 /\ thread'[x][c] = m
      /\ Len(thread[b]) + 1 \in DOMAIN thread'[b] /\ thread'[b][Len(thread[b]) + 1] = m
  BY <1>1, <1>3, <1>4, <1>5, ThreadAppended
<1>8. m.att = a /\ m.target = i /\ m.private = FALSE /\ e.bug = b
  BY DEF m, e
<1>9. \A x \in Bugs : \A c \in DOMAIN thread[x] : thread[x][c].target # i /\ thread[x][c].att # a
  <2>1. \A x \in Bugs : \A c \in DOMAIN thread[x] : thread[x][c].att \in Nat /\ thread[x][c].target \in Nat
    BY <1>4, CommentTypes
  <2>2. \A x \in Bugs : \A c \in DOMAIN thread[x] :
          /\ thread[x][c].att <= Len(stored)
          /\ thread[x][c].target # 0 => thread[x][c].target < i
    BY DEF UploadInv, CommentsOwn, Before
  <2>3. i >= 1 /\ i # 0 /\ ~(a <= Len(stored))
    BY <1>4 DEF Shaped
  <2>4. ASSUME NEW x \in Bugs, NEW c \in DOMAIN thread[x]
        PROVE  thread[x][c].target # i /\ thread[x][c].att # a
    <3>1. thread[x][c].target # 0 => thread[x][c].target < i
      BY <2>2
    <3>2. thread[x][c].target # i
      BY <1>3, <2>3, <3>1
    <3>3. QED
      BY <2>2, <2>3, <3>2
  <2>5. QED
    BY <2>4
<1>10. stage' \in UploadStages /\ BugsOnly'
  BY <1>1, <1>2, <1>4 DEF UploadInv, BugsOnly, UploadStages, IsInjective
<1>11. CommentsOwn'
  <2>1. ASSUME NEW x \in Bugs, NEW c \in DOMAIN thread'[x]
        PROVE  LET comment == thread'[x][c] IN
               /\ comment.att <= Len(stored')
               /\ comment.target # 0 =>
                    /\ comment.target \in DOMAIN targets' /\ comment.target <= i'
                    /\ targets'[comment.target].of = x
                    /\ stage' \in Before => comment.target < i'
                    /\ \A other \in DOMAIN thread'[x] :
                         thread'[x][other].target = comment.target => other = c
    <3>1. CASE c \in DOMAIN thread[x] /\ thread'[x][c] = thread[x][c]
      <4>1. thread[x][c].att \in Nat /\ thread[x][c].target \in Nat
        BY <1>4, <3>1, CommentTypes
      <4>2. /\ thread[x][c].att <= Len(stored)
            /\ thread[x][c].target # 0 =>
                 /\ thread[x][c].target \in DOMAIN targets /\ thread[x][c].target < i
                 /\ targets[thread[x][c].target].of = x
                 /\ \A other \in DOMAIN thread[x] :
                      thread[x][other].target = thread[x][c].target => other = c
        BY <3>1 DEF UploadInv, CommentsOwn, Before
      <4>3. i' = i \/ i' = i + 1
        BY <1>2, <1>4
      <4>4. ASSUME thread[x][c].target # 0, NEW other \in DOMAIN thread'[x],
                   thread'[x][other].target = thread[x][c].target
            PROVE  other = c
        <5>1. CASE other \in DOMAIN thread[x] /\ thread'[x][other] = thread[x][other]
          BY <4>2, <4>4, <5>1
        <5>2. CASE thread'[x][other] = m
          BY <1>8, <1>9, <3>1, <4>4, <5>2
        <5>3. QED
          BY <1>7, <5>1, <5>2
      <4>5. thread[x][c].att <= Len(stored')
        BY <1>4, <1>6, <4>1, <4>2
      <4>6. thread[x][c].target # 0 => thread[x][c].target <= i' /\ thread[x][c].target < i'
        BY <1>3, <4>1, <4>2, <4>3
      <4>7. thread'[x][c] = thread[x][c] /\ targets' = targets
        BY <1>1, <3>1
      <4>8. QED
        BY <4>2, <4>4, <4>5, <4>6, <4>7
    <3>2. CASE x = b /\ c = Len(thread[b]) + 1 /\ thread'[x][c] = m
      <4>1. \A other \in DOMAIN thread'[x] : thread'[x][other].target = i => other = c
        BY <1>7, <1>9, <3>2
      <4>2. i <= i' /\ (stage' \in Before => i < i')
        BY <1>2, <1>3, <1>4 DEF Before
      <4>3. m.att <= Len(stored') /\ targets' = targets /\ targets[i].of = b
        BY <1>1, <1>4, <1>6, <1>8 DEF b
      <4>4. thread'[x][c].att = m.att /\ thread'[x][c].target = i
        BY <1>8, <3>2
      <4>5. QED
        BY <1>3, <3>2, <4>1, <4>2, <4>3, <4>4
    <3>3. QED
      BY <1>7, <3>1, <3>2
  <2>2. QED
    BY <2>1 DEF CommentsOwn
<1>12. LateOnce'
  <2>1. ASSUME NEW w \in late
        PROVE  /\ w \in Nat \X Nat /\ w[1] \in DOMAIN targets
               /\ w[2] = 0 =>
                    /\ w[1] < i /\ \A d \in done' : d[1] # w[1]
                    /\ \A c \in DOMAIN thread'[targets[w[1]].of] :
                         thread'[targets[w[1]].of][c].target # w[1]
    <3>1. /\ w \in Nat \X Nat /\ w[1] \in DOMAIN targets
          /\ w[2] = 0 =>
               /\ w[1] < i /\ \A d \in done : d[1] # w[1]
               /\ \A c \in DOMAIN thread[targets[w[1]].of] :
                    thread[targets[w[1]].of][c].target # w[1]
      BY DEF UploadInv, LateOnce
    <3>2. w[2] = 0 => w[1] # i
      BY <1>3, <3>1
    <3>3. targets[w[1]].of \in Bugs
      BY <3>1, BugOf
    <3>4. w[2] = 0 => w[1] < i /\ \A d \in done' : d[1] # w[1]
      BY <1>1, <3>1, <3>2
    <3>5. ASSUME w[2] = 0, NEW c \in DOMAIN thread'[targets[w[1]].of]
          PROVE  thread'[targets[w[1]].of][c].target # w[1]
      <4>1. CASE /\ c \in DOMAIN thread[targets[w[1]].of]
                 /\ thread'[targets[w[1]].of][c] = thread[targets[w[1]].of][c]
        BY <3>1, <3>5, <4>1
      <4>2. CASE thread'[targets[w[1]].of][c] = m
        BY <1>8, <3>2, <3>5, <4>2
      <4>3. QED
        BY <1>7, <3>3, <4>1, <4>2
    <3>6. QED
      BY <1>1, <3>1, <3>4, <3>5
  <2>2. \A w \in late : w[1] \in DOMAIN targets /\ w[1] < i => w[1] < i'
    <3>1. DOMAIN targets \subseteq Nat
      BY DEF Shaped
    <3>2. i' = i \/ i' = i + 1
      BY <1>2, <1>4
    <3>3. QED
      BY <1>3, <3>1, <3>2
  <2>3. late' = late /\ targets' = targets
    BY <1>1
  <2>4. QED
    BY <2>1, <2>2, <2>3 DEF LateOnce
<1>13. DoneOnServer'
  <2>1. /\ \A d \in done :
             /\ d \in Nat \X Nat
             /\ d[1] \in DOMAIN targets /\ d[1] < i
             /\ d[2] \in DOMAIN stored /\ stored[d[2]].bug = targets[d[1]].of
        /\ \A d, x \in done : d[1] = x[1] => d = x
    BY DEF UploadInv, DoneOnServer, Before
  <2>2. i' \in {i, i + 1} /\ (stage' \in Before => i' = i + 1)
    BY <1>2, <1>4 DEF Before
  <2>3. \A d \in done' : d \in done \/ d = <<i, a>>
    BY <1>1
  <2>4. \A d \in done' :
           /\ d \in Nat \X Nat
           /\ d[1] \in DOMAIN targets /\ d[1] <= i
           /\ d[2] \in DOMAIN stored' /\ stored'[d[2]].bug = targets[d[1]].of
    BY <1>3, <1>5, <1>6, <1>8, <2>1, <2>3 DEF b
  <2>5. \A d, x \in done' : d[1] = x[1] => d = x
    BY <1>3, <2>1, <2>3
  <2>6. QED
    BY <1>1, <1>3, <2>2, <2>4, <2>5 DEF DoneOnServer
<1>14. CommentKnown'
  <2>1. CASE option
    <3>1. /\ stage' = "find" /\ at' = a /\ i' = i /\ option' = option /\ targets'[i'].of = b
          /\ a # 0
      BY <1>1, <1>2, <1>4, <2>1 DEF b
    <3>2. \E d \in done' : d[1] = i'
      <4>1. <<i, a>> \in done' /\ <<i, a>>[1] = i
        BY <1>1
      <4>2. QED
        BY <3>1, <4>1
    <3>3. \E c \in DOMAIN thread'[b] : thread'[b][c].att = a
      BY <1>7, <1>8
    <3>4. \A c \in DOMAIN thread'[b] : thread'[b][c].att = a <=> thread'[b][c].target = i
      BY <1>3, <1>7, <1>8, <1>9
    <3>5. QED
      BY <2>1, <3>1, <3>2, <3>3, <3>4 DEF CommentKnown
  <2>2. CASE ~option
    BY <1>2, <2>2 DEF CommentKnown
  <2>3. QED
    BY <1>4, <2>1, <2>2
<1>15. OneOnView'
  <2> SUFFICES ASSUME option, NEW d \in done', OnView(thread', d[1])
               PROVE  d[1] = i' /\ stage' = "find"
    BY <1>1, PublicOnView DEF OneOnView
  <2>1. CASE d = <<i, a>>
    BY <1>2, <2>1
  <2>2. CASE d \in done /\ d[1] # i
    <3>1. d[1] \in DOMAIN targets
      BY <2>2 DEF UploadInv, DoneOnServer
    <3>2. OnView(thread, d[1])
      BY <1>7, <1>8, <2>2, <3>1, BugOf DEF OnView
    <3>3. QED
      BY <2>2, <3>2, PublicOnView DEF UploadInv, OneOnView
  <2>3. \A x \in done : x[1] # i
    BY <1>3 DEF UploadInv, DoneOnServer, Before
  <2>4. QED
    BY <1>1, <2>1, <2>2, <2>3
<1>16. TargetsNamed'
  <2>1. \A f \in failed : f[1] < i
    BY DEF UploadInv, TargetsNamed
  <2>2. \A n \in DOMAIN targets : n < i => (Made(n) <=> ~Lost(n))
    BY DEF UploadInv, TargetsNamed
  <2>3. \A n : Lost(n)' <=> Lost(n)
    BY <1>1 DEF Lost
  <2>4. \A n : Made(n)' <=> Made(n) \/ n = i
    <3>1. \A d \in done' : d \in done \/ d[1] = i
      BY <1>1
    <3>2. done \subseteq done' /\ <<i, a>> \in done' /\ <<i, a>>[1] = i
      BY <1>1
    <3>3. QED
      BY <3>1, <3>2 DEF Made
  <2>5. ~Lost(i)
    BY <1>3, <2>1 DEF Lost
  <2>6. \A n \in DOMAIN targets : n <= i => (Made(n)' <=> ~Lost(n)')
    BY <1>3, <2>2, <2>3, <2>4, <2>5 DEF Shaped
  <2>7. i' = i \/ i' = i + 1
    BY <1>2, <1>4
  <2>8. stage' # "report" => \A f \in failed' : f[1] < i'
    BY <1>1, <1>3, <2>1, <2>7 DEF Shaped
  <2>9. \A n \in DOMAIN targets : n < i' \/ stage' = "report" \/ (n = i' /\ stage' \in {"find", "flip"}) => n <= i
    BY <1>2, <1>3, <1>4 DEF Uploaded, NextTarget, Shaped
  <2>10. QED
    BY <1>1, <2>6, <2>8, <2>9 DEF TargetsNamed
<1>17. QED
  BY <1>10, <1>11, <1>12, <1>13, <1>14, <1>15, <1>16 DEF UploadInv

\* An upload fails, and may be made later.
LEMMA NotUploadedUpload ==
  ASSUME Shaped, UploadInv, stage = "upload", NotUploaded
  PROVE  UploadInv'
<1>1. /\ targets' = targets /\ option' = option /\ thread' = thread /\ stored' = stored
      /\ done' = done /\ failed' = failed \cup {<<i, "upload">>}
      /\ i' = i + 1 /\ stage' = IF i < Len(targets) THEN "upload" ELSE "report"
      /\ late' \subseteq late \cup {<<i, 0>>}
  BY DEF NotUploaded, NextTarget, command
<1>2. i \in DOMAIN targets /\ i \in Nat
  BY DEF Shaped
<1>3. stage' \in UploadStages /\ BugsOnly'
  BY <1>1 DEF UploadInv, BugsOnly, UploadStages, IsInjective
<1>4. \A b \in Bugs : \A c \in DOMAIN thread[b] :
        /\ thread[b][c].target \in Nat /\ thread[b][c].target # i
        /\ thread[b][c].target # 0 => thread[b][c].target < i
  BY <1>2, CommentTypes DEF UploadInv, CommentsOwn, Before, Shaped
<1>5. CommentsOwn'
  BY <1>1, <1>2, <1>4 DEF UploadInv, CommentsOwn
<1>6. \A d \in done : d[1] \in Nat /\ d[1] < i
  BY <1>2 DEF UploadInv, DoneOnServer, Before
<1>7. LateOnce'
  <2>1. ASSUME NEW w \in late
        PROVE  /\ w \in Nat \X Nat /\ w[1] \in DOMAIN targets
               /\ w[2] = 0 =>
                    /\ w[1] < i + 1 /\ \A d \in done : d[1] # w[1]
                    /\ \A c \in DOMAIN thread[targets[w[1]].of] : thread[targets[w[1]].of][c].target # w[1]
    <3>1. w \in Nat \X Nat
      BY DEF UploadInv, LateOnce
    <3>2. w[1] \in Nat
      BY <3>1
    <3>3. QED
      BY <1>2, <3>1, <3>2 DEF UploadInv, LateOnce
  <2>2. targets[i].of \in Bugs
    BY <1>2, BugOf
  <2>3. /\ <<i, 0>> \in Nat \X Nat /\ <<i, 0>>[1] = i
        /\ i < i + 1 /\ \A d \in done : d[1] # i
        /\ \A c \in DOMAIN thread[targets[i].of] : thread[targets[i].of][c].target # i
    BY <1>2, <1>4, <1>6, <2>2
  <2>4. QED
    BY <1>1, <1>2, <2>1, <2>3 DEF LateOnce
<1>8. DoneOnServer'
  BY <1>1, <1>2, <1>6 DEF UploadInv, DoneOnServer
<1>9. CommentKnown'
  BY <1>1 DEF CommentKnown
<1>10. OneOnView'
  <2>1. \A n : Public(n)' <=> Public(n)
    BY <1>1, PublicOnView
  <2>2. \A d \in done : d[1] # i
    BY <1>2, <1>6
  <2>3. QED
    BY <1>1, <2>1, <2>2 DEF UploadInv, OneOnView
<1>11. TargetsNamed'
  <2>1. \A f \in failed : f[1] \in Nat /\ f[1] < i
    BY DEF UploadInv, TargetsNamed, Shaped
  <2>2. \A n : Made(n)' <=> Made(n)
    BY <1>1 DEF Made
  <2>3. ~Made(i)
    BY <1>2, <1>6 DEF Made
  <2>4. \A n : Lost(n)' <=> Lost(n) \/ n = i
    <3>1. \A f \in failed' : f \in failed \/ f[1] = i
      BY <1>1
    <3>2. /\ failed \subseteq failed' /\ <<i, "upload">> \in failed'
          /\ <<i, "upload">>[1] = i /\ <<i, "upload">>[2] = "upload"
      BY <1>1
    <3>3. QED
      BY <3>1, <3>2 DEF Lost
  <2>5. \A n \in DOMAIN targets : n < i => (Made(n) <=> ~Lost(n))
    BY DEF UploadInv, TargetsNamed
  <2>6. \A n \in DOMAIN targets : n <= i => (Made(n)' <=> ~Lost(n)')
    BY <1>2, <2>2, <2>3, <2>4, <2>5 DEF Shaped
  <2>7. \A f \in failed' : f[1] < i'
    BY <1>1, <1>2, <2>1
  <2>8. \A n \in DOMAIN targets : n < i' \/ stage' = "report" \/ (n = i' /\ stage' \in {"find", "flip"}) => n <= i
    BY <1>1, <1>2 DEF Shaped
  <2>9. QED
    BY <1>1, <2>6, <2>7, <2>8 DEF TargetsNamed
<1>12. QED
  BY <1>3, <1>5, <1>7, <1>8, <1>9, <1>10, <1>11 DEF UploadInv

\* The comment that came with the upload is found.
LEMMA FoundUpload ==
  ASSUME Shaped, UploadInv, stage = "find", stage' = "flip",
         at' = CommentOf(thread[targets[i].of], at),
         UNCHANGED <<targets, option, thread, stored, late, i, done, failed>>
  PROVE  UploadInv'
<1>1. stage' \in UploadStages /\ BugsOnly'
  BY DEF UploadInv, BugsOnly, UploadStages, IsInjective
<1>2. CommentsOwn' /\ LateOnce' /\ DoneOnServer'
  BY DEF UploadInv, CommentsOwn, LateOnce, DoneOnServer, Before
<1>3. CommentKnown'
  <2> DEFINE own == thread[targets[i].of]
  <2>1. /\ option /\ \E d \in done : d[1] = i
        /\ \E c \in DOMAIN own : own[c].att = at
        /\ \A c \in DOMAIN own : own[c].att = at <=> own[c].target = i
    BY DEF UploadInv, CommentKnown
  <2>2. at' \in DOMAIN own /\ own[at'].att = at
    BY <2>1 DEF CommentOf
  <2>3. QED
    BY <2>1, <2>2 DEF CommentKnown
<1>4. OneOnView'
  <2>1. \A n : Public(n)' <=> Public(n)
    BY PublicOnView
  <2>2. QED
    BY <2>1 DEF UploadInv, OneOnView
<1>5. TargetsNamed'
  <2>1. \A n : (Made(n)' <=> Made(n)) /\ (Lost(n)' <=> Lost(n))
    BY DEF Made, Lost
  <2>2. QED
    BY <2>1 DEF UploadInv, TargetsNamed
<1>6. QED
  BY <1>1, <1>2, <1>3, <1>4, <1>5 DEF UploadInv

\* The comment is not made private, or not yet: the batch ends.
LEMMA NotFlippedUpload ==
  ASSUME Shaped, UploadInv, stage \in {"find", "flip"}, NotFlipped,
         late' \subseteq late \/ (at \in Nat \ {0} /\ late' \subseteq late \cup {<<i, at>>})
  PROVE  UploadInv'
<1> DEFINE missed == {<<i, "comment_private">>} \cup {<<n, "not_attempted">> : n \in NotAttempted}
<1>1. /\ UNCHANGED <<targets, option, thread, stored, i, at, done>>
      /\ stage' = "report" /\ failed' = failed \cup missed
  BY DEF NotFlipped, command
<1>2. i \in DOMAIN targets /\ i \in Nat /\ DOMAIN targets = 1..Len(targets) /\ Len(targets) \in Nat
  BY DEF Shaped
<1>3. stage' \in UploadStages /\ BugsOnly'
  BY <1>1 DEF UploadInv, BugsOnly, UploadStages, IsInjective
<1>4. CommentsOwn' /\ DoneOnServer' /\ CommentKnown'
  BY <1>1 DEF UploadInv, CommentsOwn, DoneOnServer, CommentKnown, Before
<1>5. LateOnce'
  <2>1. \A w \in late' : w \in late \/ (w = <<i, at>> /\ at \in Nat \ {0})
    OBVIOUS
  <2>2. at \in Nat \ {0} => <<i, at>> \in Nat \X Nat /\ <<i, at>>[1] = i /\ <<i, at>>[2] # 0
    BY <1>2
  <2>3. QED
    BY <1>1, <1>2, <2>1, <2>2 DEF UploadInv, LateOnce
<1>6. OneOnView'
  <2>1. \A n : Public(n)' <=> Public(n)
    BY <1>1, PublicOnView
  <2>2. failed \subseteq failed' /\ <<i, "comment_private">> \in failed'
    BY <1>1
  <2>3. QED
    BY <1>1, <2>1, <2>2 DEF UploadInv, OneOnView
<1>7. TargetsNamed'
  <2>1. \A f \in failed : f[1] \in Nat /\ f[1] < i
    BY DEF UploadInv, TargetsNamed, Shaped
  <2>2. \A n : Made(n)' <=> Made(n)
    BY <1>1 DEF Made
  <2>3. \A n \in DOMAIN targets : n <= i => (Made(n) <=> ~Lost(n))
    BY <1>2 DEF UploadInv, TargetsNamed
  <2>4. \A f \in missed : \/ f[1] = i /\ f[2] = "comment_private"
                          \/ f[1] \in NotAttempted
    OBVIOUS
  <2>5. \A n \in DOMAIN targets : n <= i => (Lost(n)' <=> Lost(n))
    BY <1>1, <1>2, <2>4 DEF Lost, NotAttempted
  <2>6. ASSUME NEW n \in DOMAIN targets, ~(n <= i)
        PROVE  Lost(n)' /\ ~Made(n)
    <3>1. n \in NotAttempted
      BY <1>2, <2>6 DEF NotAttempted
    <3>2. <<n, "not_attempted">> \in failed' /\ <<n, "not_attempted">>[1] = n
          /\ <<n, "not_attempted">>[2] = "not_attempted"
      BY <1>1, <3>1
    <3>3. Lost(n)'
      BY <3>2 DEF Lost
    <3>4. ~Made(n)
      BY <1>2, <2>6 DEF Made, UploadInv, DoneOnServer
    <3>5. QED
      BY <3>3, <3>4
  <2>7. QED
    BY <1>1, <2>2, <2>3, <2>5, <2>6 DEF TargetsNamed
<1>8. QED
  BY <1>3, <1>4, <1>5, <1>6, <1>7 DEF UploadInv

\* It is made private.
LEMMA FlippedUpload ==
  ASSUME Shaped, UploadInv, stage = "flip", MakePrivate(targets[i].of, at), NextTarget("upload"),
         UNCHANGED <<targets, option, stored, late, done, failed>>
  PROVE  UploadInv'
<1> DEFINE b == targets[i].of
<1>1. i' = i + 1 /\ stage' = IF i < Len(targets) THEN "upload" ELSE "report"
  BY DEF NextTarget
<1>2. i \in DOMAIN targets /\ i \in Nat /\ b \in Bugs /\ at \in Nat
  BY BugOf DEF Shaped
<1>3. thread \in [Bugs -> Seq(Comments)]
  BY DEF Shaped
<1>4. /\ \A x \in Bugs : DOMAIN thread'[x] = DOMAIN thread[x]
      /\ \A x \in Bugs : \A c \in DOMAIN thread[x] :
           /\ thread'[x][c].att = thread[x][c].att /\ thread'[x][c].target = thread[x][c].target
           /\ ~thread'[x][c].private => ~thread[x][c].private
      /\ at \in DOMAIN thread[b] => thread'[b][at].private = TRUE
  BY <1>2, <1>3, ThreadPrivate
<1>5. stage' \in UploadStages /\ BugsOnly'
  BY <1>1 DEF UploadInv, BugsOnly, UploadStages, IsInjective
<1>6. CommentsOwn'
  <2>1. \A x \in Bugs : \A c \in DOMAIN thread[x] : thread[x][c].target \in Nat
    BY <1>3, CommentTypes
  <2>2. QED
    BY <1>1, <1>2, <1>4, <2>1 DEF UploadInv, CommentsOwn
<1>7. LateOnce'
  <2>1. ASSUME NEW w \in late
        PROVE  /\ w \in Nat \X Nat /\ w[1] \in DOMAIN targets
               /\ w[2] = 0 =>
                    /\ w[1] < i + 1 /\ \A d \in done : d[1] # w[1]
                    /\ \A c \in DOMAIN thread'[targets[w[1]].of] : thread'[targets[w[1]].of][c].target # w[1]
    <3>1. /\ w \in Nat \X Nat /\ w[1] \in DOMAIN targets
          /\ w[2] = 0 =>
               /\ w[1] < i /\ \A d \in done : d[1] # w[1]
               /\ \A c \in DOMAIN thread[targets[w[1]].of] : thread[targets[w[1]].of][c].target # w[1]
      BY DEF UploadInv, LateOnce
    <3>2. w[1] \in Nat /\ targets[w[1]].of \in Bugs
      BY <3>1, BugOf
    <3>3. QED
      BY <1>2, <1>4, <3>1, <3>2
  <2>2. QED
    BY <1>1, <2>1 DEF LateOnce
<1>8. DoneOnServer'
  <2>1. \A d \in done : d \in Nat \X Nat /\ d[1] <= i
    BY DEF UploadInv, DoneOnServer
  <2>2. \A d \in done : d[1] \in Nat
    BY <2>1
  <2>3. QED
    BY <1>1, <1>2, <2>1, <2>2 DEF UploadInv, DoneOnServer
<1>9. CommentKnown'
  BY <1>1 DEF CommentKnown
<1>10. OneOnView'
  <2> SUFFICES ASSUME option, NEW d \in done, OnView(thread', d[1])
               PROVE  FALSE
    BY PublicOnView DEF OneOnView
  <2>1. d[1] \in DOMAIN targets /\ targets[d[1]].of \in Bugs
    BY BugOf DEF UploadInv, DoneOnServer
  <2>2. PICK c \in DOMAIN thread'[targets[d[1]].of] :
          thread'[targets[d[1]].of][c].target = d[1] /\ ~thread'[targets[d[1]].of][c].private
    BY DEF OnView
  <2>3. OnView(thread, d[1])
    BY <1>4, <2>1, <2>2 DEF OnView
  <2>4. d[1] = i
    BY <2>3, PublicOnView DEF UploadInv, OneOnView
  <2>5. c \in DOMAIN thread[b] /\ thread[b][c].target = i
    BY <1>2, <1>4, <2>2, <2>4
  <2>6. at \in DOMAIN thread[b] /\ thread[b][at].target = i
    BY DEF UploadInv, CommentKnown
  <2>7. i # 0
    BY DEF Shaped
  <2>8. c = at
    BY <1>2, <2>5, <2>6, <2>7 DEF UploadInv, CommentsOwn
  <2>9. QED
    BY <1>4, <2>2, <2>4, <2>6, <2>8
<1>11. TargetsNamed'
  <2>1. \A f \in failed : f[1] \in Nat /\ f[1] < i
    BY DEF UploadInv, TargetsNamed, Shaped
  <2>2. \A n : (Made(n)' <=> Made(n)) /\ (Lost(n)' <=> Lost(n))
    BY DEF Made, Lost
  <2>3. \A n \in DOMAIN targets : n <= i => (Made(n) <=> ~Lost(n))
    BY <1>2 DEF UploadInv, TargetsNamed, Shaped
  <2>4. \A f \in failed' : f[1] < i'
    BY <1>1, <1>2, <2>1
  <2>5. \A n \in DOMAIN targets : n < i' \/ stage' = "report" \/ (n = i' /\ stage' \in {"find", "flip"}) => n <= i
    BY <1>1, <1>2 DEF Shaped
  <2>6. QED
    BY <1>1, <2>2, <2>3, <2>4, <2>5 DEF TargetsNamed
<1>12. QED
  BY <1>5, <1>6, <1>7, <1>8, <1>9, <1>10, <1>11 DEF UploadInv

\* The server's attachments stay, and stay with their bugs.
StoredStays ==
  /\ Len(stored) \in Nat /\ Len(stored') \in Nat /\ Len(stored) <= Len(stored')
  /\ DOMAIN stored \subseteq DOMAIN stored'
  /\ \A a \in DOMAIN stored : stored'[a].bug = stored[a].bug

\* Meanwhile the server makes a comment private, or has none more: the command,
\* which stands still, is not misled.
LEMMA SameComments ==
  ASSUME Shaped, UploadInv, StoredStays, late' \subseteq late,
         UNCHANGED <<targets, option, stage, i, at, done, failed>>,
         \A x \in Bugs : DOMAIN thread'[x] = DOMAIN thread[x],
         \A x \in Bugs : \A c \in DOMAIN thread[x] :
           /\ thread'[x][c].att = thread[x][c].att /\ thread'[x][c].target = thread[x][c].target
           /\ ~thread'[x][c].private => ~thread[x][c].private
  PROVE  UploadInv'
<1>1. stage' \in UploadStages /\ BugsOnly'
  BY DEF UploadInv, BugsOnly, IsInjective
<1>2. CommentsOwn'
  <2>1. \A x \in Bugs : \A c \in DOMAIN thread[x] : thread[x][c].att \in Nat
    BY CommentTypes DEF Shaped
  <2>2. QED
    BY <2>1 DEF UploadInv, CommentsOwn, StoredStays
<1>3. LateOnce'
  <2>1. ASSUME NEW w \in late
        PROVE  targets[w[1]].of \in Bugs
    BY BugOf DEF UploadInv, LateOnce
  <2>2. QED
    BY <2>1 DEF UploadInv, LateOnce
<1>4. DoneOnServer'
  BY DEF UploadInv, DoneOnServer, StoredStays
<1>5. CommentKnown'
  <2>1. CASE stage \in {"find", "flip"}
    <3>1. targets[i].of \in Bugs
      BY <2>1, BugOf DEF Shaped
    <3>2. QED
      BY <3>1 DEF UploadInv, CommentKnown
  <2>2. CASE stage \notin {"find", "flip"}
    BY <2>2 DEF CommentKnown
  <2>3. QED
    BY <2>1, <2>2
<1>6. OneOnView'
  <2>1. ASSUME NEW d \in done, OnView(thread', d[1])
        PROVE  OnView(thread, d[1])
    <3>1. targets[d[1]].of \in Bugs
      BY BugOf DEF UploadInv, DoneOnServer
    <3>2. QED
      BY <2>1, <3>1 DEF OnView
  <2>2. QED
    BY <2>1, PublicOnView DEF UploadInv, OneOnView
<1>7. TargetsNamed'
  <2>1. \A n : (Made(n)' <=> Made(n)) /\ (Lost(n)' <=> Lost(n))
    BY DEF Made, Lost
  <2>2. QED
    BY <2>1 DEF UploadInv, TargetsNamed
<1>8. QED
  BY <1>1, <1>2, <1>3, <1>4, <1>5, <1>6, <1>7 DEF UploadInv

\* Meanwhile a comment joins a bug: another user's, or that of a target given up.
LEMMA NewComment ==
  ASSUME Shaped, UploadInv, StoredStays, late' \subseteq late,
         UNCHANGED <<targets, option, stage, i, at, done, failed>>,
         NEW b \in Bugs, NEW m \in Comments, thread' = [thread EXCEPT ![b] = Append(@, m)],
         m.att = 0 \/ m.att > Len(stored), m.att <= Len(stored'),
         m.target # 0 =>
           /\ m.target \in DOMAIN targets /\ m.target < i /\ targets[m.target].of = b
           /\ \A d \in done : d[1] # m.target
           /\ \A c \in DOMAIN thread[b] : thread[b][c].target # m.target
           /\ \A w \in late' : w[2] = 0 => w[1] # m.target
  PROVE  UploadInv'
<1>1. thread \in [Bugs -> Seq(Comments)] /\ i \in Nat /\ i # 0
  BY DEF Shaped
<1>2. /\ \A x \in Bugs : \A c \in DOMAIN thread[x] :
           c \in DOMAIN thread'[x] /\ thread'[x][c] = thread[x][c]
      /\ \A x \in Bugs : \A c \in DOMAIN thread'[x] :
           \/ c \in DOMAIN thread[x] /\ thread'[x][c] = thread[x][c]
           \/ x = b /\ c = Len(thread[b]) + 1 /\ thread'[x][c] = m
  BY <1>1, ThreadAppended
<1>3. m.att \in Nat /\ m.target \in Nat
  BY DEF Comments
<1>4. \A x \in Bugs : \A c \in DOMAIN thread[x] : thread[x][c].att \in Nat /\ thread[x][c].target \in Nat
  BY <1>1, CommentTypes
<1>5. stage' \in UploadStages /\ BugsOnly'
  BY DEF UploadInv, BugsOnly, IsInjective
<1>6. CommentsOwn'
  <2>1. ASSUME NEW x \in Bugs, NEW c \in DOMAIN thread'[x]
        PROVE  LET comment == thread'[x][c] IN
               /\ comment.att <= Len(stored')
               /\ comment.target # 0 =>
                    /\ comment.target \in DOMAIN targets /\ comment.target <= i
                    /\ targets[comment.target].of = x
                    /\ stage \in Before => comment.target < i
                    /\ \A other \in DOMAIN thread'[x] :
                         thread'[x][other].target = comment.target => other = c
    <3>1. CASE c \in DOMAIN thread[x] /\ thread'[x][c] = thread[x][c]
      <4>1. /\ thread[x][c].att <= Len(stored)
            /\ thread[x][c].target # 0 =>
                 /\ thread[x][c].target \in DOMAIN targets /\ thread[x][c].target <= i
                 /\ targets[thread[x][c].target].of = x
                 /\ stage \in Before => thread[x][c].target < i
                 /\ \A other \in DOMAIN thread[x] :
                      thread[x][other].target = thread[x][c].target => other = c
        BY <3>1 DEF UploadInv, CommentsOwn
      <4>2. thread[x][c].target # 0 => \A other \in DOMAIN thread'[x] :
              thread'[x][other].target = thread[x][c].target => other = c
        BY <1>2, <3>1, <4>1
      <4>3. QED
        BY <1>4, <3>1, <4>1, <4>2 DEF StoredStays
    <3>2. CASE x = b /\ c = Len(thread[b]) + 1 /\ thread'[x][c] = m
      BY <1>1, <1>2, <1>3, <3>2
    <3>3. QED
      BY <1>2, <3>1, <3>2
  <2>2. QED
    BY <2>1 DEF CommentsOwn
<1>7. LateOnce'
  <2>1. ASSUME NEW w \in late'
        PROVE  /\ w \in Nat \X Nat /\ w[1] \in DOMAIN targets
               /\ w[2] = 0 =>
                    /\ w[1] < i /\ \A d \in done : d[1] # w[1]
                    /\ \A c \in DOMAIN thread'[targets[w[1]].of] : thread'[targets[w[1]].of][c].target # w[1]
    <3>1. /\ w \in Nat \X Nat /\ w[1] \in DOMAIN targets
          /\ w[2] = 0 =>
               /\ w[1] < i /\ \A d \in done : d[1] # w[1]
               /\ \A c \in DOMAIN thread[targets[w[1]].of] : thread[targets[w[1]].of][c].target # w[1]
      BY DEF UploadInv, LateOnce
    <3>2. targets[w[1]].of \in Bugs /\ w[1] # 0
      BY <3>1, BugOf DEF Shaped
    <3>3. QED
      BY <1>2, <3>1, <3>2
  <2>2. QED
    BY <2>1 DEF LateOnce
<1>8. DoneOnServer'
  BY DEF UploadInv, DoneOnServer, StoredStays
<1>9. CommentKnown'
  <2>1. CASE stage \in {"find", "flip"}
    <3> DEFINE x == targets[i].of
    <3>1. x \in Bugs
      BY <2>1, BugOf DEF Shaped
    <3> HIDE DEF x
    <3>2. m.target # i
      BY <1>1, <1>3
    <3>3. /\ option /\ \E d \in done : d[1] = i
          /\ stage = "find" =>
               /\ at # 0
               /\ \E c \in DOMAIN thread[x] : thread[x][c].att = at
               /\ \A c \in DOMAIN thread[x] : thread[x][c].att = at <=> thread[x][c].target = i
          /\ stage = "flip" => at \in DOMAIN thread[x] /\ thread[x][at].target = i
      BY <2>1 DEF UploadInv, CommentKnown, x
    <3>4. stage = "find" => m.att # at
      <4> SUFFICES ASSUME stage = "find" PROVE m.att # at
        OBVIOUS
      <4>1. PICK c \in DOMAIN thread[x] : thread[x][c].att = at
        BY <3>3
      <4>2. at <= Len(stored) /\ at \in Nat
        BY <1>4, <3>1, <4>1 DEF UploadInv, CommentsOwn
      <4>3. QED
        BY <1>3, <3>3, <4>2 DEF StoredStays
    <3>5. stage = "find" => \E c \in DOMAIN thread'[x] : thread'[x][c].att = at
      BY <1>2, <3>1, <3>3
    <3>6. stage = "find" => \A c \in DOMAIN thread'[x] : thread'[x][c].att = at <=> thread'[x][c].target = i
      BY <1>2, <3>1, <3>2, <3>3, <3>4
    <3>7. stage = "flip" => at \in DOMAIN thread'[x] /\ thread'[x][at].target = i
      BY <1>2, <3>1, <3>3
    <3>8. QED
      BY <3>3, <3>5, <3>6, <3>7 DEF CommentKnown, x
  <2>2. CASE stage \notin {"find", "flip"}
    BY <2>2 DEF CommentKnown
  <2>3. QED
    BY <2>1, <2>2
<1>10. OneOnView'
  <2>1. ASSUME NEW d \in done, OnView(thread', d[1])
        PROVE  OnView(thread, d[1])
    <3>1. d[1] \in DOMAIN targets /\ targets[d[1]].of \in Bugs
      BY BugOf DEF UploadInv, DoneOnServer
    <3>2. d[1] # 0 /\ d[1] # m.target
      BY <3>1 DEF Shaped
    <3>3. QED
      BY <1>2, <2>1, <3>1, <3>2 DEF OnView
  <2>2. QED
    BY <2>1, PublicOnView DEF UploadInv, OneOnView
<1>11. TargetsNamed'
  <2>1. \A n : (Made(n)' <=> Made(n)) /\ (Lost(n)' <=> Lost(n))
    BY DEF Made, Lost
  <2>2. QED
    BY <2>1 DEF UploadInv, TargetsNamed
<1>12. QED
  BY <1>5, <1>6, <1>7, <1>8, <1>9, <1>10, <1>11 DEF UploadInv

\* The invariant holds at the start.
LEMMA TransferStarts == TransferInit => TransferInv
<1> SUFFICES ASSUME TransferInit PROVE TransferInv
  OBVIOUS
<1> USE AttachmentsAssumption
<1>1. PICK m \in 0..MaxStored : old \in [1..m -> [bug : Bugs, obsolete : BOOLEAN]]
  BY DEF TransferInit
<1>2. old \in Seq(Entries) /\ Len(old) = m /\ DOMAIN old = 1..m /\ m \in Nat /\ m <= MaxStored
  <2>1. m \in Nat /\ m <= MaxStored
    OBVIOUS
  <2>2. old \in [1..m -> Entries]
    BY <1>1 DEF Entries
  <2>3. QED
    BY <2>1, <2>2
<1>3. PICK n \in 1..MaxTargets :
        targets \in [1..n -> {OnBug(b) : b \in Bugs} \cup {ById(a) : a \in DOMAIN old}]
  BY DEF TransferInit
<1>4. {OnBug(b) : b \in Bugs} \cup {ById(a) : a \in DOMAIN old} \subseteq Goals
  BY <1>2 DEF OnBug, ById, Goals
<1>5. targets \in Seq(Goals) /\ targets # <<>> /\ Len(targets) = n /\ Len(targets) >= 1
  BY <1>3, <1>4
<1>6. \A x \in DOMAIN targets : targets[x].kind = "id" => targets[x].of \in DOMAIN old
  BY <1>3 DEF OnBug, ById
<1>7. /\ stored = old /\ stage = "prepare" /\ i = 1 /\ queue = <<>> /\ at = 0
      /\ done = {} /\ failed = {} /\ received = {} /\ late = {} /\ others = 0 /\ ended = "no"
      /\ option \in BOOLEAN /\ form \in {"upload", "download"}
      /\ thread = [b \in Bugs |-> <<>>]
      /\ disk = [a \in 1..(MaxStored + MaxOthers) |-> "before"]
  BY DEF TransferInit, NoComments
<1>8. Shaped
  BY <1>2, <1>5, <1>7 DEF Shaped
<1>9. ASSUME form = "upload" PROVE UploadInv
  <2>1. BugsOnly
    BY <1>9 DEF TransferInit, Valid, BugsOnly
  <2>2. CommentsOwn /\ LateOnce /\ DoneOnServer /\ CommentKnown /\ OneOnView
    BY <1>7 DEF CommentsOwn, LateOnce, DoneOnServer, CommentKnown, OneOnView
  <2>3. TargetsNamed
    BY <1>5, <1>7 DEF TargetsNamed
  <2>4. QED
    BY <1>7, <2>1, <2>2, <2>3 DEF UploadInv, UploadStages
<1>10. DownloadInv
  <2>1. Known
    BY <1>2, <1>6, <1>7 DEF Known
  <2>2. WaitingAsked
    BY <1>7 DEF WaitingAsked, Transferring
  <2>3. FilesKept
    BY <1>5, <1>7 DEF FilesKept, Transferring
  <2>4. FilesReceived
    BY <1>7 DEF FilesReceived
  <2>5. QED
    BY <1>7, <2>1, <2>2, <2>3, <2>4 DEF DownloadInv, DownloadStages
<1>11. QED
  BY <1>7, <1>8, <1>9, <1>10 DEF TransferInv, UploadSide, DownloadSide

-----------------------------------------------------------------------------
(* The shape of a state, step by step *)

\* The command moves, and the server does not.
LEMMA MovesShaped ==
  ASSUME Shaped, UNCHANGED <<targets, option, stored, thread>>,
         i' \in {i, i + 1}, i <= Len(targets),
         i' = i + 1 => stage' \in {"upload", "list", "report"} /\ (i = Len(targets) => stage' = "report"),
         stage' \in {"prepare", "connect", "confirm"} =>
           /\ stage \in {"prepare", "connect", "confirm"}
           /\ UNCHANGED <<i, failed, done>>,
         queue' \in Seq(Nat), at' \in Nat,
         \A f \in failed' : f[1] \in DOMAIN targets,
         ended' \in {"ok", "failed"} => stage' = "report" /\ (ended' = "ok" <=> failed' = {})
  PROVE  Shaped'
<1>1. Len(targets) \in Nat /\ i \in Nat /\ i >= 1
  BY DEF Shaped
<1>2. i' \in Nat /\ i' >= 1 /\ i' <= Len(targets) + 1
  BY <1>1
<1>3. stage' # "report" => i' <= Len(targets)
  BY <1>1
<1>4. QED
  BY <1>2, <1>3 DEF Shaped

\* The server moves, and the command does not.
LEMMA ServerShaped ==
  ASSUME Shaped, UNCHANGED <<command, progress, files, ended>>,
         stored' \in Seq(Entries), thread' \in [Bugs -> Seq(Comments)]
  PROVE  Shaped'
  BY DEF Shaped, command, progress, files

\* The server makes an attachment, and a comment for it.
LEMMA AttachShaped ==
  ASSUME Shaped, NEW b \in Bugs, NEW n \in Nat, Attach(b, n)
  PROVE  /\ stored' \in Seq(Entries) /\ thread' \in [Bugs -> Seq(Comments)]
         /\ [att |-> Len(stored) + 1, target |-> n, private |-> FALSE] \in Comments
         /\ StoredStays /\ Len(stored') = Len(stored) + 1
         /\ \A a \in DOMAIN stored : stored'[a] = stored[a]
<1> DEFINE e == [bug |-> b, obsolete |-> FALSE]
           m == [att |-> Len(stored) + 1, target |-> n, private |-> FALSE]
<1>1. stored \in Seq(Entries) /\ thread \in [Bugs -> Seq(Comments)] /\ Len(stored) \in Nat
  BY DEF Shaped
<1>2. e \in Entries /\ m \in Comments
  BY <1>1 DEF Entries, Comments
<1>3. stored' = Append(stored, e) /\ thread' = [thread EXCEPT ![b] = Append(@, m)]
  BY DEF Attach
<1> HIDE DEF e, m
<1>4. /\ stored' \in Seq(Entries) /\ Len(stored') = Len(stored) + 1
      /\ DOMAIN stored' = DOMAIN stored \cup {Len(stored) + 1}
      /\ \A a \in DOMAIN stored : stored'[a] = stored[a]
  BY <1>1, <1>2, <1>3, StoredAppended
<1>5. thread' \in [Bugs -> Seq(Comments)]
  BY <1>1, <1>2, <1>3, ThreadAppended
<1>6. StoredStays
  BY <1>1, <1>4 DEF StoredStays
<1>7. QED
  BY <1>2, <1>4, <1>5, <1>6 DEF m

\* A target is over: the next one, or the report.
LEMMA NextTargetMoves ==
  ASSUME Shaped, NEW first \in {"upload", "list"}, NextTarget(first), i <= Len(targets)
  PROVE  /\ i' = i + 1 /\ i' \in {i, i + 1} /\ at' \in Nat
         /\ stage' \in {"upload", "list", "report"} /\ (i = Len(targets) => stage' = "report")
         /\ stage' \notin {"prepare", "connect", "confirm"}
  BY DEF NextTarget, Shaped

\* One called obsolete is otherwise the one it was.
LEMMA ObsoleteStays ==
  ASSUME Shaped, NEW a \in Stored, stored' = [stored EXCEPT ![a].obsolete = TRUE]
  PROVE  /\ StoredStays /\ stored' \in Seq(Entries) /\ Len(stored') = Len(stored)
         /\ \A x \in DOMAIN stored : stored[x].obsolete => stored'[x].obsolete
<1>1. /\ stored \in Seq(Entries) /\ Len(stored) \in Nat /\ DOMAIN stored = 1..Len(stored)
      /\ \A x \in DOMAIN stored : stored[x] \in Entries
  BY DEF Shaped
<1>2. \A e \in Entries : /\ [e EXCEPT !.obsolete = TRUE] \in Entries
                         /\ [e EXCEPT !.obsolete = TRUE].bug = e.bug
                         /\ [e EXCEPT !.obsolete = TRUE].obsolete = TRUE
  BY DEF Entries
<1>3. stored' = [x \in DOMAIN stored |-> IF x = a THEN [stored[a] EXCEPT !.obsolete = TRUE] ELSE stored[x]]
  BY <1>1
<1>4. \A x \in DOMAIN stored : /\ stored'[x] \in Entries /\ stored'[x].bug = stored[x].bug
                               /\ stored[x].obsolete => stored'[x].obsolete
  BY <1>1, <1>2, <1>3
<1>5. DOMAIN stored' = 1..Len(stored)
  BY <1>1, <1>3
<1>6. stored' \in [1..Len(stored) -> Entries]
  BY <1>1, <1>3, <1>4, <1>5
<1>7. stored' \in Seq(Entries) /\ Len(stored') = Len(stored)
  BY <1>1, <1>6
<1>8. QED
  BY <1>1, <1>4, <1>5, <1>7 DEF StoredStays

\* The command of an upload, step by step.
LEMMA CommandUpload ==
  ASSUME Shaped, UploadSide, Command
  PROVE  (Shaped /\ UploadSide)'
<1>1. /\ Shaped /\ UploadInv /\ form = "upload" /\ stage \in UploadStages
      /\ \A a \in DOMAIN disk : disk[a] = "before"
  BY DEF UploadSide, UploadInv
<1> DEFINE Kept == form' = form /\ disk' = disk
<1>2. ASSUME Kept, UploadInv' PROVE UploadSide'
  BY <1>1, <1>2 DEF UploadSide
<1>3. ASSUME NEW what \in Before, stage \in Before \ {"upload"}, ended = "no", Enter(what)
      PROVE  Shaped' /\ UploadSide'
  <2>1. UNCHANGED <<targets, option, thread, stored, late, i, at, done, failed, queue, ended>>
        /\ Kept /\ stage' = what
    BY <1>3 DEF Enter, command, files, server
  <2>2. UploadInv'
    BY <1>1, <1>3, <2>1, TurnUpload
  <2>3. Shaped'
    BY <1>1, <1>3, <2>1 DEF Shaped, Before
  <2>4. QED
    BY <1>2, <2>1, <2>2, <2>3
<1>4. ASSUME NEW how, End(how), how \in {"ok", "failed"} => stage = "report" /\ (how = "ok" <=> failed = {})
      PROVE  Shaped' /\ UploadSide'
  <2>1. UNCHANGED <<targets, option, thread, stored, late, i, at, done, failed, queue, stage>>
        /\ Kept /\ ended' = how
    BY <1>4 DEF End, command, progress, files, server
  <2>2. UploadInv'
    BY <1>1, <2>1, TurnUpload
  <2>3. Shaped'
    BY <1>1, <1>4, <2>1 DEF Shaped
  <2>4. QED
    BY <1>2, <2>1, <2>2, <2>3
<1>5. CASE Prepare
  BY <1>3, <1>4, <1>5 DEF Prepare, Running, Before
<1>6. CASE Connect
  BY <1>1, <1>3, <1>4, <1>6 DEF Connect, Running, Before
<1>7. CASE Confirm
  BY <1>3, <1>4, <1>7 DEF Confirm, Running, Before
<1>8. CASE ReportTransfers
  <2>1. stage = "report" /\ End(IF failed = {} THEN "ok" ELSE "failed")
    BY <1>8 DEF ReportTransfers, Running
  <2>2. QED
    BY <1>4, <2>1
<1>9. ASSUME Upload, Uploaded PROVE Shaped' /\ UploadSide'
  <2>1. stage = "upload" /\ ended = "no"
    BY <1>9 DEF Upload, Running
  <2>2. i \in DOMAIN targets /\ i \in Nat /\ i <= Len(targets) /\ targets[i].of \in Bugs
        /\ Len(stored) \in Nat
    BY <1>1, <2>1, BugOf DEF Shaped
  <2>3. Attach(targets[i].of, i) /\ UNCHANGED <<targets, option, queue, failed, ended>> /\ Kept
    BY <1>9 DEF Uploaded, command, files
  <2>4. stored' \in Seq(Entries) /\ thread' \in [Bugs -> Seq(Comments)]
    BY <1>1, <2>2, <2>3, AttachShaped
  <2>5. /\ i' \in {i, i + 1} /\ at' \in Nat
        /\ stage' \in {"find", "upload", "report"}
        /\ stage' # "report" => i' <= Len(targets)
    BY <1>1, <1>9, <2>2 DEF Uploaded, NextTarget, Shaped
  <2>6. Shaped'
    BY <1>1, <2>1, <2>2, <2>3, <2>4, <2>5 DEF Shaped
  <2>7. QED
    BY <1>1, <1>2, <1>9, <2>1, <2>3, <2>6, UploadedUpload
<1>10. ASSUME Upload, NotUploaded PROVE Shaped' /\ UploadSide'
  <2>1. stage = "upload" /\ ended = "no"
    BY <1>10 DEF Upload, Running
  <2>2. i \in DOMAIN targets /\ i \in Nat /\ i <= Len(targets)
    BY <1>1, <2>1 DEF Shaped
  <2>3. /\ UNCHANGED <<targets, option, queue, ended, stored, thread>> /\ Kept
        /\ failed' = failed \cup {<<i, "upload">>} /\ NextTarget("upload")
    BY <1>10 DEF NotUploaded, command, files
  <2>4. \A f \in failed' : f[1] \in DOMAIN targets
    BY <1>1, <2>2, <2>3 DEF Shaped
  <2>5. Shaped'
    BY <1>1, <2>1, <2>2, <2>3, <2>4 DEF Shaped, NextTarget
  <2>6. QED
    BY <1>1, <1>2, <1>10, <2>1, <2>3, <2>5, NotUploadedUpload
<1>11. ASSUME NotFlipped, stage \in {"find", "flip"}, ended = "no",
              late' \subseteq late \/ (at \in Nat \ {0} /\ late' \subseteq late \cup {<<i, at>>})
       PROVE  Shaped' /\ UploadSide'
  <2>1. i \in DOMAIN targets /\ i \in Nat /\ i <= Len(targets)
        /\ Len(targets) \in Nat /\ DOMAIN targets = 1..Len(targets)
    BY <1>1, <1>11 DEF Shaped
  <2>2. /\ UNCHANGED <<targets, option, queue, ended, stored, thread, i, at>> /\ Kept
        /\ stage' = "report"
        /\ failed' = failed \cup ({<<i, "comment_private">>} \cup { <<n, "not_attempted">> : n \in NotAttempted })
    BY <1>11 DEF NotFlipped, command, files
  <2>3. \A f \in failed' : f[1] \in DOMAIN targets
    BY <1>1, <2>1, <2>2 DEF Shaped, NotAttempted
  <2>4. Shaped'
    BY <1>1, <1>11, <2>1, <2>2, <2>3 DEF Shaped
  <2>5. QED
    BY <1>1, <1>2, <1>11, <2>2, <2>4, NotFlippedUpload
<1>12. CASE FindComment
  <2>1. stage = "find" /\ ended = "no"
    BY <1>12 DEF FindComment, Running
  <2>2. CASE NotFlipped /\ UNCHANGED late
    BY <1>11, <2>1, <2>2
  <2>3. ASSUME at' = CommentOf(thread[targets[i].of], at), stage' = "flip",
               UNCHANGED <<command, i, queue, done, failed, files, ended, server, others>>
        PROVE  Shaped' /\ UploadSide'
    <3>1. UNCHANGED <<targets, option, thread, stored, late, i, done, failed, queue, ended>> /\ Kept
      BY <2>3 DEF command, files, server
    <3>2. UploadInv'
      BY <1>1, <2>1, <2>3, <3>1, FoundUpload
    <3>3. at' \in Nat
      <4>1. targets[i].of \in Bugs
        BY <1>1, <2>1, BugOf DEF Shaped
      <4>2. at' \in DOMAIN thread[targets[i].of]
        BY <2>3, <3>1, <3>2 DEF UploadInv, CommentKnown
      <4>3. thread[targets[i].of] \in Seq(Comments)
        BY <1>1, <4>1 DEF Shaped
      <4>4. QED
        BY <4>2, <4>3
    <3>4. Shaped'
      BY <1>1, <2>1, <2>3, <3>1, <3>3 DEF Shaped
    <3>5. QED
      BY <1>2, <3>1, <3>2, <3>4
  <2>4. QED
    BY <1>12, <2>2, <2>3 DEF FindComment
<1>13. CASE Flip
  <2>1. stage = "flip" /\ ended = "no"
    BY <1>13 DEF Flip, Running
  <2>2. i \in DOMAIN targets /\ i \in Nat /\ i <= Len(targets) /\ targets[i].of \in Bugs
        /\ thread \in [Bugs -> Seq(Comments)] /\ at \in Nat
    BY <1>1, <2>1, BugOf DEF Shaped
  <2>3. at # 0
    <3>1. at \in DOMAIN thread[targets[i].of]
      BY <1>1, <2>1 DEF UploadInv, CommentKnown
    <3>2. QED
      BY <2>2, <3>1
  <2>4. CASE NotFlipped /\ late' \in IF insider THEN {late, late \cup {<<i, at>>}} ELSE {late}
    <3>1. late' \subseteq late \/ (at \in Nat \ {0} /\ late' \subseteq late \cup {<<i, at>>})
      BY <2>2, <2>3, <2>4
    <3>2. QED
      BY <1>11, <2>1, <2>4, <3>1
  <2>5. ASSUME MakePrivate(targets[i].of, at), NextTarget("upload"),
               UNCHANGED <<command, queue, done, failed, files, ended, stored, late, others>>
        PROVE  Shaped' /\ UploadSide'
    <3>1. UNCHANGED <<targets, option, stored, late, done, failed, queue, ended>> /\ Kept
      BY <2>5 DEF command, files
    <3>2. thread' \in [Bugs -> Seq(Comments)]
      BY <2>2, <2>5, ThreadPrivate
    <3>3. Shaped'
      BY <1>1, <2>1, <2>2, <2>5, <3>1, <3>2 DEF Shaped, NextTarget
    <3>4. QED
      BY <1>1, <1>2, <2>1, <2>5, <3>1, <3>3, FlippedUpload
  <2>6. QED
    BY <1>13, <2>4, <2>5 DEF Flip
<1>14. ~List /\ ~Fetch /\ ~Create /\ ~Copy
  BY <1>1 DEF List, Fetch, Create, Copy, Running, UploadStages
<1>15. QED
  BY <1>5, <1>6, <1>7, <1>8, <1>9, <1>10, <1>12, <1>13, <1>14 DEF Command, Upload

-----------------------------------------------------------------------------
(* An upload, and the server meanwhile *)

\* An attachment comes with the comment it is for.
LEMMA AttachUpload ==
  ASSUME Shaped, UploadSide, NEW b \in Bugs, NEW n \in Nat, Attach(b, n),
         UNCHANGED <<command, progress, files, ended>>, late' \subseteq late,
         n # 0 =>
           /\ n \in DOMAIN targets /\ n < i /\ targets[n].of = b
           /\ \A d \in done : d[1] # n
           /\ \A c \in DOMAIN thread[b] : thread[b][c].target # n
           /\ \A w \in late' : w[2] = 0 => w[1] # n
  PROVE  (Shaped /\ UploadSide)'
<1> DEFINE m == [att |-> Len(stored) + 1, target |-> n, private |-> FALSE]
<1>1. Shaped /\ UploadInv /\ form = "upload" /\ Len(stored) \in Nat
  BY DEF UploadSide, Shaped
<1>2. /\ stored' \in Seq(Entries) /\ thread' \in [Bugs -> Seq(Comments)]
      /\ m \in Comments /\ StoredStays /\ Len(stored') = Len(stored) + 1
  BY <1>1, AttachShaped
<1>3. thread' = [thread EXCEPT ![b] = Append(@, m)]
  BY DEF Attach
<1>4. m.att = Len(stored) + 1 /\ m.target = n
  OBVIOUS
<1>5. /\ UNCHANGED <<targets, option, stage, i, at, done, failed>>
      /\ form' = form /\ disk' = disk
  BY DEF command, progress, files
<1> HIDE DEF m
<1>6. m.att > Len(stored) /\ m.att <= Len(stored')
  BY <1>1, <1>2, <1>4
<1>7. UploadInv'
  BY <1>1, <1>2, <1>3, <1>4, <1>5, <1>6, NewComment
<1>8. Shaped'
  BY <1>1, <1>2, ServerShaped
<1>9. QED
  BY <1>5, <1>7, <1>8 DEF UploadSide

\* The server's own steps, and other users', while the command uploads.
LEMMA ServerUpload ==
  ASSUME Shaped, UploadSide, Late \/ OtherAttaches \/ OtherObsoletes \/ OtherComments
  PROVE  (Shaped /\ UploadSide)'
<1>1. /\ Shaped /\ UploadInv /\ form = "upload" /\ i \in Nat
      /\ stored \in Seq(Entries) /\ Len(stored) \in Nat /\ thread \in [Bugs -> Seq(Comments)]
  BY DEF UploadSide, Shaped
<1>2. UNCHANGED <<command, progress, files, ended>>
  BY DEF Late, OtherAttaches, OtherObsoletes, OtherComments
<1>3. /\ UNCHANGED <<targets, option, stage, i, at, done, failed>>
      /\ form' = form /\ disk' = disk
  BY <1>2 DEF command, progress, files
<1>4. ASSUME stored' = stored PROVE StoredStays
  BY <1>1, <1>4 DEF StoredStays
<1>5. CASE Late
  <2>1. PICK w \in late :
          /\ late' = late \ {w}
          /\ IF w[2] = 0 THEN Attach(targets[w[1]].of, w[1])
                         ELSE MakePrivate(targets[w[1]].of, w[2]) /\ UNCHANGED stored
    BY <1>5 DEF Late
  <2>2. /\ w \in Nat \X Nat /\ w[1] \in DOMAIN targets
        /\ w[2] = 0 =>
             /\ w[1] < i /\ \A d \in done : d[1] # w[1]
             /\ \A c \in DOMAIN thread[targets[w[1]].of] : thread[targets[w[1]].of][c].target # w[1]
    BY <1>1 DEF UploadInv, LateOnce
  <2>3. w[1] \in Nat /\ w[2] \in Nat /\ targets[w[1]].of \in Bugs /\ w = <<w[1], w[2]>>
    BY <1>1, <2>2, BugOf
  <2>4. CASE w[2] = 0
    <3>1. \A x \in late' : x[2] = 0 => x[1] # w[1]
      <4>1. \A x \in late : x \in Nat \X Nat
        BY <1>1 DEF UploadInv, LateOnce
      <4>2. \A x \in late : x = <<x[1], x[2]>>
        BY <4>1
      <4>3. \A x \in late : x[1] = w[1] /\ x[2] = w[2] => x = w
        BY <2>3, <4>2
      <4>4. QED
        BY <2>1, <2>4, <4>3
    <3>2. late' \subseteq late
      BY <2>1
    <3>3. QED
      BY <1>2, <2>1, <2>2, <2>3, <2>4, <3>1, <3>2, AttachUpload
  <2>5. CASE w[2] # 0
    <3>1. MakePrivate(targets[w[1]].of, w[2]) /\ stored' = stored /\ late' \subseteq late
      BY <2>1, <2>5
    <3>2. /\ thread' \in [Bugs -> Seq(Comments)]
          /\ \A x \in Bugs : DOMAIN thread'[x] = DOMAIN thread[x]
          /\ \A x \in Bugs : \A c \in DOMAIN thread[x] :
               /\ thread'[x][c].att = thread[x][c].att /\ thread'[x][c].target = thread[x][c].target
               /\ ~thread'[x][c].private => ~thread[x][c].private
      BY <1>1, <2>3, <3>1, ThreadPrivate
    <3>3. UploadInv'
      BY <1>1, <1>3, <1>4, <3>1, <3>2, SameComments
    <3>4. Shaped'
      BY <1>1, <1>2, <3>1, <3>2, ServerShaped
    <3>5. QED
      BY <1>3, <3>3, <3>4 DEF UploadSide
  <2>6. QED
    BY <2>4, <2>5
<1>6. CASE OtherAttaches
  <2>1. PICK b \in Bugs : Attach(b, 0)
    BY <1>6 DEF OtherAttaches
  <2>2. late' \subseteq late
    BY <1>6 DEF OtherAttaches
  <2>3. QED
    BY <1>2, <2>1, <2>2, AttachUpload
<1>7. CASE OtherObsoletes
  <2>1. PICK a \in Stored : stored' = [stored EXCEPT ![a].obsolete = TRUE]
    BY <1>7 DEF OtherObsoletes
  <2>2. thread' = thread /\ late' = late
    BY <1>7 DEF OtherObsoletes
  <2>3. StoredStays /\ stored' \in Seq(Entries)
    BY <1>1, <2>1, ObsoleteStays
  <2>4. UploadInv'
    BY <1>1, <1>3, <2>2, <2>3, SameComments
  <2>5. Shaped'
    BY <1>1, <1>2, <2>2, <2>3, ServerShaped
  <2>6. QED
    BY <1>3, <2>4, <2>5 DEF UploadSide
<1>8. CASE OtherComments
  <2> DEFINE m == [att |-> 0, target |-> 0, private |-> FALSE]
  <2>1. PICK b \in Bugs : thread' = [thread EXCEPT ![b] = Append(@, m)]
    BY <1>8 DEF OtherComments
  <2>2. stored' = stored /\ late' \subseteq late
    BY <1>8 DEF OtherComments
  <2>3. m \in Comments /\ m.att = 0 /\ m.target = 0
    BY DEF Comments
  <2> HIDE DEF m
  <2>4. /\ m.att = 0 \/ m.att > Len(stored)
        /\ m.att <= Len(stored')
        /\ m.target # 0 =>
             /\ m.target \in DOMAIN targets /\ m.target < i /\ targets[m.target].of = b
             /\ \A d \in done : d[1] # m.target
             /\ \A c \in DOMAIN thread[b] : thread[b][c].target # m.target
             /\ \A w \in late' : w[2] = 0 => w[1] # m.target
    BY <1>1, <2>2, <2>3
  <2>5. StoredStays
    BY <1>4, <2>2
  <2>6. UploadInv'
    BY <1>1, <1>3, <2>1, <2>2, <2>3, <2>4, <2>5, NewComment
  <2>7. thread' \in [Bugs -> Seq(Comments)]
    BY <1>1, <2>1, <2>3, ThreadAppended
  <2>8. Shaped'
    BY <1>1, <1>2, <2>2, <2>7, ServerShaped
  <2>9. QED
    BY <1>3, <2>6, <2>8 DEF UploadSide
<1>9. QED
  BY <1>5, <1>6, <1>7, <1>8

-----------------------------------------------------------------------------
(* What a download asks for *)

\* What a target asks for is on the server.
LEMMA WantedKnown ==
  ASSUME Shaped, Known, NEW n \in DOMAIN targets
  PROVE  WantedOf(n) \subseteq Stored
<1>1. \A a \in DOMAIN old : a \in Stored
  BY DEF Known, Shaped, Stored
<1>2. CASE targets[n].kind = "id"
  BY <1>1, <1>2 DEF WantedOf, Known
<1>3. CASE targets[n].kind # "id"
  BY <1>1, <1>3 DEF WantedOf
<1>4. QED
  BY <1>2, <1>3

\* A target is an attachment's id,
LEMMA GoalById ==
  ASSUME Shaped, NEW n \in DOMAIN targets, targets[n].kind = "id"
  PROVE  targets[n] = ById(targets[n].of) /\ targets[n].of \in Nat
<1>1. targets[n] \in Goals
  BY DEF Shaped
<1>2. PICK g \in [kind : {"id"}, of : Nat] : targets[n] = g
  BY <1>1 DEF Goals
<1>3. QED
  BY <1>2 DEF ById

\* or a bug.
LEMMA GoalOnBug ==
  ASSUME Shaped, NEW n \in DOMAIN targets, targets[n].kind = "bug"
  PROVE  targets[n] = OnBug(targets[n].of)
<1>1. targets[n] \in Goals
  BY DEF Shaped
<1>2. PICK g \in [kind : {"bug"}, of : Bugs] : targets[n] = g
  BY <1>1 DEF Goals
<1>3. QED
  BY <1>2 DEF OnBug

\* The attachment under way is one the target asks for, and has its file.
LEMMA CurrentAsked ==
  ASSUME Shaped, DownloadInv, stage \in Transferring
  PROVE  /\ i \in DOMAIN targets
         /\ Current \in Stored /\ Asks(i, Current) /\ Current \in DOMAIN disk
         /\ Rest \in Seq(Nat) /\ (OneById => Rest = <<>>)
         /\ Waiting \subseteq {Current} \cup ToSet(Rest) /\ (~OneById => ToSet(Rest) \subseteq Waiting)
<1>1. i \in DOMAIN targets
  BY DEF Shaped, Transferring
<1> DEFINE Parts == /\ Current \in Waiting /\ Rest \in Seq(Nat) /\ (OneById => Rest = <<>>)
                    /\ Waiting \subseteq {Current} \cup ToSet(Rest)
                    /\ (~OneById => ToSet(Rest) \subseteq Waiting)
<1>2. ASSUME OneById PROVE Parts
  <2>1. Current = targets[1].of /\ Waiting = {targets[1].of} /\ Rest = <<>>
    BY <1>2 DEF Current, Waiting, Rest
  <2>2. QED
    BY <1>2, <2>1
<1>3. ASSUME ~OneById PROVE Parts
  <2>1. Current = Head(queue) /\ Waiting = ToSet(queue) /\ Rest = Tail(queue)
        /\ queue \in Seq(Nat) /\ queue # <<>>
    BY <1>3 DEF Current, Waiting, Rest, Shaped, DownloadInv, WaitingAsked
  <2>2. /\ Tail(queue) \in Seq(Nat) /\ Len(queue) \in Nat /\ Len(queue) >= 1
        /\ DOMAIN queue = 1..Len(queue) /\ DOMAIN Tail(queue) = 1..(Len(queue) - 1)
        /\ \A n \in 1..(Len(queue) - 1) : Tail(queue)[n] = queue[n + 1]
        /\ Head(queue) = queue[1]
    BY <2>1
  <2>3. Head(queue) \in ToSet(queue)
    BY <2>2 DEF ToSet
  <2>4. ToSet(Tail(queue)) \subseteq ToSet(queue)
    BY <2>2 DEF ToSet
  <2>5. ToSet(queue) \subseteq {Head(queue)} \cup ToSet(Tail(queue))
    <3> SUFFICES ASSUME NEW n \in DOMAIN queue, n # 1 PROVE queue[n] \in ToSet(Tail(queue))
      BY <2>2 DEF ToSet
    <3>1. n - 1 \in DOMAIN Tail(queue) /\ Tail(queue)[n - 1] = queue[n]
      BY <2>2
    <3>2. QED
      BY <3>1 DEF ToSet
  <2>6. QED
    BY <1>3, <2>1, <2>2, <2>3, <2>4, <2>5
<1> HIDE DEF Parts
<1>4. Parts
  BY <1>2, <1>3
<1>5. Current \in Stored /\ Asks(i, Current)
  BY <1>4 DEF DownloadInv, WaitingAsked, Parts
<1>6. Current \in DOMAIN disk
  <2>1. Len(stored) \in Nat /\ Stored = 1..Len(stored)
    BY DEF Shaped, Stored
  <2>2. QED
    BY <1>5, <2>1, AttachmentsAssumption DEF DownloadInv, Known
<1>7. QED
  BY <1>1, <1>4, <1>5, <1>6 DEF Parts

-----------------------------------------------------------------------------
(* A download goes on to the next attachment, or the next target. *)

\* Where a download goes on.
LEMMA ProceedMoves ==
  ASSUME Shaped, NEW rest \in Seq(Nat), Proceed(rest), i <= Len(targets)
  PROVE  /\ queue' = rest /\ at' \in Nat
         /\ \/ i' = i /\ stage' = "fetch" /\ rest # <<>>
            \/ /\ i' = i + 1 /\ rest = <<>> /\ stage' \in {"list", "report"}
               /\ (stage' = "report" <=> i' = Len(targets) + 1)
<1>1. CASE rest # <<>>
  BY <1>1 DEF Proceed, Shaped
<1>2. CASE rest = <<>>
  <2>1. queue' = rest /\ NextTarget("list")
    BY <1>2 DEF Proceed
  <2>2. i \in Nat /\ Len(targets) \in Nat
    BY DEF Shaped
  <2>3. QED
    BY <1>2, <2>1, <2>2 DEF NextTarget
<1>3. QED
  BY <1>1, <1>2

\* What is under way is over, well or badly: the invariant says so of the rest.
LEMMA GoesOn ==
  ASSUME Shaped, DownloadInv, stage \in Transferring \cup {"list"},
         NEW rest \in Seq(Nat), Proceed(rest),
         UNCHANGED <<command, server, others, received>>,
         failed \subseteq failed', DOMAIN disk' = DOMAIN disk,
         \A a \in ToSet(rest) : a \in Stored /\ Asks(i, a),
         OneById => rest = <<>> \/ ToSet(rest) = {targets[1].of},
         \A a \in Stored : Fine(a) => disk'[a] = "whole" \/ Blamed(a)',
         \A a \in DOMAIN disk : disk'[a] = "part" => Blamed(a)',
         \A a \in DOMAIN disk : disk'[a] # "before" => a \in received,
         \A d \in done' : d \in done \/ (d[2] \in Stored /\ disk'[d[2]] = "whole"),
         i \notin Faulty' => \A a \in WantedOf(i) : a \in ToSet(rest) \/ disk'[a] = "whole" \/ Blamed(a)'
  PROVE  DownloadInv'
<1>1. i \in DOMAIN targets /\ i \in Nat /\ i <= Len(targets) /\ Len(targets) \in Nat
  BY DEF Shaped, Transferring
<1>2. /\ queue' = rest
      /\ \/ i' = i /\ stage' = "fetch" /\ rest # <<>>
         \/ /\ i' = i + 1 /\ rest = <<>> /\ stage' \in {"list", "report"}
            /\ (stage' = "report" <=> i' = Len(targets) + 1)
  BY <1>1, ProceedMoves
<1>3. UNCHANGED <<targets, option, old, stored, late, others>>
  BY DEF command, server
<1>4. /\ OneById' = OneById /\ \A n : WantedOf(n)' = WantedOf(n)
      /\ \A n, a : Asks(n, a)' = Asks(n, a)
      /\ Stored' = Stored
  BY <1>3 DEF OneById, WantedOf, Asks, Stored, Skipped
<1>5. stage' \in DownloadStages
  BY <1>2 DEF DownloadStages
<1>6. Known'
  BY <1>3 DEF DownloadInv, Known
<1>7. rest # <<>> => Waiting' = ToSet(rest)
  BY <1>2, <1>3, <1>4 DEF Waiting
<1>8. WaitingAsked'
  BY <1>2, <1>4, <1>7 DEF WaitingAsked, Transferring
<1>9. \A a : Fine(a)' <=> disk'[a] = "whole" \/ Blamed(a)'
  BY <1>2 DEF Fine, InHand
<1>10. Faulty \subseteq Faulty'
  BY DEF Faulty
<1>11. FilesKept'
  <2>1. \A d \in done' : d[2] \in Stored' /\ Fine(d[2])'
    BY <1>4, <1>9 DEF DownloadInv, FilesKept
  <2>2. \A a \in DOMAIN disk' : disk'[a] = "part" => Blamed(a)' \/ InHand(a)'
    OBVIOUS
  <2>3. ASSUME NEW n \in DOMAIN targets \ Faulty', n < i'
        PROVE  \A a \in WantedOf(n) : Fine(a)'
    <3>1. CASE n = i
      <4>1. rest = <<>>
        BY <1>1, <1>2, <2>3, <3>1
      <4>2. ToSet(rest) = {}
        BY <4>1 DEF ToSet
      <4>3. QED
        BY <1>9, <2>3, <3>1, <4>2
    <3>2. CASE n # i
      <4>1. n < i /\ n \notin Faulty
        BY <1>1, <1>2, <1>10, <2>3, <3>2
      <4>2. \A a \in WantedOf(n) : a \in Stored /\ Fine(a)
        BY <4>1, WantedKnown DEF DownloadInv, FilesKept
      <4>3. QED
        BY <1>9, <4>2
    <3>3. QED
      BY <3>1, <3>2
  <2>4. ASSUME NEW n \in DOMAIN targets \ Faulty', n = i', stage' \in Transferring
        PROVE  \A a \in WantedOf(n) : a \in Waiting' \/ Fine(a)'
    <3>1. i' = i /\ rest # <<>>
      BY <1>2, <2>4 DEF Transferring
    <3>2. QED
      BY <1>7, <1>9, <2>4, <3>1
  <2>5. stage' = "report" => i' = Len(targets') + 1
    BY <1>2, <1>3
  <2>6. QED
    BY <1>3, <1>4, <2>1, <2>2, <2>3, <2>4, <2>5 DEF FilesKept
<1>12. FilesReceived'
  BY <1>2, <1>4 DEF DownloadInv, FilesReceived
<1>13. QED
  BY <1>5, <1>6, <1>8, <1>11, <1>12 DEF DownloadInv

\* An attachment is missed: the target under way bears the blame.
LEMMA GoesOnMissed ==
  ASSUME Shaped, DownloadInv, stage \in Transferring, Missed,
         UNCHANGED <<command, server, others, received, disk>>
  PROVE  DownloadInv'
<1>1. failed' = failed \cup {<<i, "file">>} /\ Proceed(Rest) /\ done' = done
  BY DEF Missed
<1>2. /\ i \in DOMAIN targets /\ Current \in Stored /\ Asks(i, Current)
      /\ Rest \in Seq(Nat) /\ (OneById => Rest = <<>>) /\ (~OneById => ToSet(Rest) \subseteq Waiting)
  BY CurrentAsked
<1>3. i \in Faulty' /\ Faulty \subseteq Faulty'
  <2>1. <<i, "file">> \in failed' /\ <<i, "file">>[1] = i
    BY <1>1
  <2>2. QED
    BY <1>1, <2>1 DEF Faulty
<1>4. \A n, a : Asks(n, a)' = Asks(n, a)
  BY DEF Asks, command, server
<1>5. \A a : Blamed(a) => Blamed(a)'
  BY <1>3, <1>4 DEF Blamed
<1>6. \A a : Asks(i, a) => Blamed(a)'
  BY <1>3, <1>4 DEF Blamed
<1>7. \A a \in ToSet(Rest) : a \in Stored /\ Asks(i, a)
  <2>1. ToSet(<<>>) = {}
    BY DEF ToSet
  <2>2. QED
    BY <1>2, <2>1 DEF DownloadInv, WaitingAsked
<1>8. \A a : InHand(a) => Blamed(a)'
  BY <1>2, <1>6 DEF InHand
<1>9. \A a \in Stored : Fine(a) => disk'[a] = "whole" \/ Blamed(a)'
  BY <1>5, <1>8 DEF Fine
<1>10. \A a \in DOMAIN disk : disk'[a] = "part" => Blamed(a)'
  BY <1>5, <1>8 DEF DownloadInv, FilesKept
<1>11. \A a \in DOMAIN disk : disk'[a] # "before" => a \in received
  BY DEF DownloadInv, FilesReceived
<1>12. failed \subseteq failed'
  BY <1>1
<1>13. QED
  BY <1>1, <1>2, <1>3, <1>7, <1>9, <1>10, <1>11, <1>12, GoesOn

-----------------------------------------------------------------------------
(* The steps of a download *)

\* A download that ends, or turns to its first target.
LEMMA TurnDownload ==
  ASSUME Shaped, DownloadInv,
         UNCHANGED <<targets, option, old, stored, late, others, i, queue, done, failed, received, disk>>,
         \/ stage' = stage
         \/ /\ stage \in {"prepare", "connect"}
            /\ \/ stage' \in {"connect", "list"}
               \/ OneById /\ stage' = "fetch"
  PROVE  DownloadInv'
<1>1. stage' \in DownloadStages
  BY DEF DownloadInv, DownloadStages
<1>2. Known'
  BY DEF DownloadInv, Known
<1>3. /\ OneById' = OneById /\ \A n : WantedOf(n)' = WantedOf(n)
      /\ \A n, a : Asks(n, a)' = Asks(n, a)
      /\ Stored' = Stored /\ Faulty' = Faulty /\ \A a : Blamed(a)' = Blamed(a)
      /\ Waiting' = Waiting /\ Current' = Current
  BY DEF OneById, WantedOf, Asks, Stored, Skipped, Faulty, Blamed, Waiting, Current
<1>4. CASE stage' = stage
  <2>1. \A a : (InHand(a)' <=> InHand(a)) /\ (Fine(a)' <=> Fine(a))
    BY <1>3, <1>4 DEF InHand, Fine
  <2>2. WaitingAsked' /\ FilesReceived'
    BY <1>3, <1>4 DEF DownloadInv, WaitingAsked, FilesReceived
  <2>3. FilesKept'
    BY <1>3, <1>4, <2>1 DEF DownloadInv, FilesKept
  <2>4. QED
    BY <1>1, <1>2, <2>2, <2>3 DEF DownloadInv
<1>5. ASSUME stage \in {"prepare", "connect"}, stage' \in {"connect", "list", "fetch"},
             stage' = "fetch" => OneById
      PROVE  DownloadInv'
  <2>1. i = 1 /\ 1 \in DOMAIN targets /\ failed = {} /\ done = {}
    BY <1>5 DEF Shaped
  <2>2. ASSUME stage' = "fetch"
        PROVE  /\ Waiting = {targets[1].of} /\ WantedOf(1) = {targets[1].of}
               /\ targets[1].of \in Stored /\ Asks(1, targets[1].of)
    <3>1. targets[1].kind = "id" /\ OneById
      BY <1>5, <2>2 DEF OneById
    <3>2. Waiting = {targets[1].of} /\ WantedOf(1) = {targets[1].of}
      BY <3>1 DEF Waiting, WantedOf
    <3>3. targets[1].of \in Stored
      BY <2>1, <3>2, WantedKnown DEF DownloadInv
    <3>4. Asks(1, targets[1].of)
      BY <2>1, <3>1, GoalById DEF Asks
    <3>5. QED
      BY <3>2, <3>3, <3>4
  <2>3. WaitingAsked'
    BY <1>3, <1>5, <2>1, <2>2 DEF WaitingAsked, Transferring
  <2>4. \A a : ~InHand(a) /\ ~InHand(a)' /\ (Fine(a)' <=> Fine(a))
    BY <1>3, <1>5 DEF InHand, Fine
  <2>5. FilesKept'
    <3>1. \A d \in done' : d[2] \in Stored' /\ Fine(d[2])'
      BY <2>1
    <3>2. \A a \in DOMAIN disk' : disk'[a] = "part" => Blamed(a)' \/ InHand(a)'
      BY <1>3, <2>4 DEF DownloadInv, FilesKept
    <3>3. ASSUME NEW n \in DOMAIN targets \ Faulty
          PROVE  ~(n < i) /\ (n = i /\ stage' = "fetch" => \A a \in WantedOf(n) : a \in Waiting)
      BY <2>1, <2>2 DEF Shaped
    <3>4. QED
      BY <1>3, <1>5, <3>1, <3>2, <3>3 DEF FilesKept, Transferring
  <2>6. FilesReceived'
    BY <1>3, <1>5 DEF DownloadInv, FilesReceived
  <2>7. QED
    BY <1>1, <1>2, <2>3, <2>5, <2>6 DEF DownloadInv
<1>6. QED
  BY <1>4, <1>5

\* An answer is received whole.
LEMMA FetchedDownload ==
  ASSUME Shaped, DownloadInv, stage = "fetch", stage' = "create",
         UNCHANGED <<targets, option, old, stored, late, others, i, queue, done, failed, disk>>,
         received' = received \cup {Current}
  PROVE  DownloadInv'
<1>1. Current \in Stored
  BY CurrentAsked DEF Transferring
<1>2. stage' \in DownloadStages /\ Known'
  BY DEF DownloadInv, DownloadStages, Known
<1>3. /\ OneById' = OneById /\ \A n : WantedOf(n)' = WantedOf(n)
      /\ \A n, a : Asks(n, a)' = Asks(n, a)
      /\ Stored' = Stored /\ Faulty' = Faulty /\ \A a : Blamed(a)' = Blamed(a)
      /\ Waiting' = Waiting /\ Current' = Current
  BY DEF OneById, WantedOf, Asks, Stored, Skipped, Faulty, Blamed, Waiting, Current
<1>4. \A a : ~InHand(a) /\ ~InHand(a)' /\ (Fine(a)' <=> Fine(a))
  BY <1>3 DEF InHand, Fine
<1>5. WaitingAsked' /\ FilesReceived'
  BY <1>1, <1>3 DEF DownloadInv, WaitingAsked, FilesReceived, Transferring
<1>6. FilesKept'
  BY <1>3, <1>4 DEF DownloadInv, FilesKept, Transferring
<1>7. QED
  BY <1>2, <1>5, <1>6 DEF DownloadInv

\* The destination is truncated.
LEMMA CreatedDownload ==
  ASSUME Shaped, DownloadInv, stage = "create", stage' = "copy",
         UNCHANGED <<targets, option, old, stored, late, others, i, queue, done, failed, received>>,
         disk' = [disk EXCEPT ![Current] = "part"]
  PROVE  DownloadInv'
<1>1. Current \in Stored /\ Current \in DOMAIN disk
  BY CurrentAsked DEF Transferring
<1>2. /\ DOMAIN disk' = DOMAIN disk /\ disk'[Current] = "part"
      /\ \A a : a # Current /\ a \in DOMAIN disk => disk'[a] = disk[a]
  BY <1>1
<1>3. stage' \in DownloadStages /\ Known'
  BY <1>2 DEF DownloadInv, DownloadStages, Known
<1>4. /\ OneById' = OneById /\ \A n : WantedOf(n)' = WantedOf(n)
      /\ \A n, a : Asks(n, a)' = Asks(n, a)
      /\ Stored' = Stored /\ Faulty' = Faulty /\ \A a : Blamed(a)' = Blamed(a)
      /\ Waiting' = Waiting /\ Current' = Current
  BY DEF OneById, WantedOf, Asks, Stored, Skipped, Faulty, Blamed, Waiting, Current
<1>5. \A a : ~InHand(a) /\ (InHand(a)' <=> a = Current)
  BY <1>4 DEF InHand
<1>6. \A a \in Stored : a \in DOMAIN disk
  <2>1. Len(stored) \in Nat /\ Stored = 1..Len(stored)
    BY DEF Shaped, Stored
  <2>2. QED
    BY <2>1, AttachmentsAssumption DEF DownloadInv, Known
<1>7. \A a \in Stored : Fine(a) => Fine(a)'
  BY <1>2, <1>4, <1>5, <1>6 DEF Fine
<1>8. WaitingAsked' /\ FilesReceived'
  BY <1>1, <1>2, <1>4 DEF DownloadInv, WaitingAsked, FilesReceived, Transferring
<1>9. FilesKept'
  <2>1. \A d \in done' : d[2] \in Stored' /\ Fine(d[2])'
    BY <1>4, <1>7 DEF DownloadInv, FilesKept
  <2>2. \A a \in DOMAIN disk' : disk'[a] = "part" => Blamed(a)' \/ InHand(a)'
    BY <1>2, <1>4, <1>5 DEF DownloadInv, FilesKept
  <2>3. ASSUME NEW n \in DOMAIN targets \ Faulty
        PROVE  /\ n < i => \A a \in WantedOf(n) : Fine(a)'
               /\ n = i => \A a \in WantedOf(n) : a \in Waiting \/ Fine(a)'
    <3>1. WantedOf(n) \subseteq Stored
      BY WantedKnown DEF DownloadInv
    <3>2. QED
      BY <1>7, <3>1 DEF DownloadInv, FilesKept, Transferring
  <2>4. QED
    BY <1>4, <2>1, <2>2, <2>3 DEF FilesKept
<1>10. QED
  BY <1>3, <1>8, <1>9 DEF DownloadInv

\* The file is whole.
LEMMA CopiedDownload ==
  ASSUME Shaped, DownloadInv, stage = "copy", Proceed(Rest),
         UNCHANGED <<command, server, others, received, failed>>,
         disk' = [disk EXCEPT ![Current] = "whole"],
         done' = done \cup {<<i, Current>>}
  PROVE  DownloadInv'
<1>1. /\ i \in DOMAIN targets /\ Current \in Stored /\ Asks(i, Current) /\ Current \in DOMAIN disk
      /\ Rest \in Seq(Nat) /\ (OneById => Rest = <<>>)
      /\ Waiting \subseteq {Current} \cup ToSet(Rest) /\ (~OneById => ToSet(Rest) \subseteq Waiting)
  BY CurrentAsked DEF Transferring
<1>2. /\ DOMAIN disk' = DOMAIN disk /\ disk'[Current] = "whole"
      /\ \A a : a # Current /\ a \in DOMAIN disk => disk'[a] = disk[a]
  BY <1>1
<1>3. /\ \A n, a : Asks(n, a)' = Asks(n, a)
      /\ Faulty' = Faulty /\ \A a : Blamed(a)' = Blamed(a)
  BY DEF Asks, Faulty, Blamed, command, server
<1>4. \A a \in Stored : a \in DOMAIN disk
  <2>1. Len(stored) \in Nat /\ Stored = 1..Len(stored)
    BY DEF Shaped, Stored
  <2>2. QED
    BY <2>1, AttachmentsAssumption DEF DownloadInv, Known
<1>5. \A a \in Stored : Fine(a) => disk'[a] = "whole" \/ Blamed(a)'
  BY <1>2, <1>3, <1>4 DEF Fine, InHand
<1>6. \A a \in DOMAIN disk : disk'[a] = "part" => Blamed(a)'
  BY <1>2, <1>3 DEF DownloadInv, FilesKept, InHand
<1>7. \A a \in DOMAIN disk : disk'[a] # "before" => a \in received
  BY <1>2 DEF DownloadInv, FilesReceived
<1>8. \A d \in done' : d \in done \/ (d[2] \in Stored /\ disk'[d[2]] = "whole")
  BY <1>1, <1>2
<1>9. i \notin Faulty' => \A a \in WantedOf(i) : a \in ToSet(Rest) \/ disk'[a] = "whole" \/ Blamed(a)'
  <2> SUFFICES ASSUME i \notin Faulty, NEW a \in WantedOf(i)
               PROVE  a \in ToSet(Rest) \/ disk'[a] = "whole" \/ Blamed(a)'
    BY <1>3
  <2>1. a \in Waiting \/ Fine(a)
    BY <1>1 DEF DownloadInv, FilesKept, Transferring
  <2>2. a \in Stored
    BY <1>1, WantedKnown DEF DownloadInv
  <2>3. QED
    BY <1>1, <1>2, <1>5, <2>1, <2>2
<1>10. \A a \in ToSet(Rest) : a \in Stored /\ Asks(i, a)
  <2>1. ToSet(<<>>) = {}
    BY DEF ToSet
  <2>2. QED
    BY <1>1, <2>1 DEF DownloadInv, WaitingAsked, Transferring
<1>11. failed \subseteq failed' /\ stage \in Transferring
  BY DEF Transferring
<1>12. QED
  BY <1>1, <1>2, <1>5, <1>6, <1>7, <1>8, <1>9, <1>10, <1>11, GoesOn

\* The attachments of a target are listed, or they are not.
LEMMA ListedDownload ==
  ASSUME Shaped, DownloadInv, List, form = "download"
  PROVE  DownloadInv' /\ queue' \in Seq(Nat)
<1>1. stage = "list" /\ i \in DOMAIN targets /\ i \in Nat /\ i <= Len(targets)
      /\ Len(stored) \in Nat /\ Stored = 1..Len(stored) /\ Len(targets) \in Nat
  BY DEF List, Running, Shaped, Stored
<1>2. UNCHANGED <<command, server, others, received, disk, done>>
  BY DEF List, files
<1>3. /\ \A n, a : Asks(n, a)' = Asks(n, a)
  BY <1>2 DEF Asks, command, server
<1>4. failed \subseteq failed'
  BY DEF List
<1>5. Faulty \subseteq Faulty' /\ \A a : Blamed(a) => Blamed(a)'
  BY <1>3, <1>4 DEF Faulty, Blamed
<1>6. \A a \in Stored : Fine(a) => disk'[a] = "whole" \/ Blamed(a)'
  BY <1>1, <1>2, <1>5 DEF Fine, InHand
<1>7. \A a \in DOMAIN disk : disk'[a] = "part" => Blamed(a)'
  BY <1>1, <1>2, <1>5 DEF DownloadInv, FilesKept, InHand
<1>8. \A a \in DOMAIN disk : disk'[a] # "before" => a \in received
  BY <1>2 DEF DownloadInv, FilesReceived
<1>9. \A d \in done' : d \in done
  BY <1>2
<1>10. CASE failed' = failed \cup {<<i, "list">>} /\ Proceed(<<>>)
  <2>1. <<>> \in Seq(Nat) /\ ToSet(<<>>) = {}
    BY DEF ToSet
  <2>2. i \in Faulty'
    <3>1. <<i, "list">> \in failed' /\ <<i, "list">>[1] = i
      BY <1>10
    <3>2. QED
      BY <3>1 DEF Faulty
  <2>3. DownloadInv'
    BY <1>1, <1>2, <1>4, <1>6, <1>7, <1>8, <1>9, <1>10, <2>1, <2>2, GoesOn
  <2>4. QED
    BY <1>10, <2>1, <2>3 DEF Proceed
<1>11. CASE (\E q \in Listings(targets[i]) : Proceed(q)) /\ UNCHANGED failed
  <2>1. PICK q \in Listings(targets[i]) : Proceed(q)
    BY <1>11
  <2>2. q \in Seq(Asked(targets[i])) /\ ToSet(q) = Asked(targets[i])
    <3>1. q \in SeqOf(Asked(targets[i]), Len(stored)) /\ ToSet(q) = Asked(targets[i])
      BY DEF Listings
    <3>2. PICK m \in 0..Len(stored) : q \in [1..m -> Asked(targets[i])]
      BY <3>1 DEF SeqOf
    <3>3. m \in Nat
      BY <1>1
    <3>4. QED
      BY <3>1, <3>2, <3>3
  <2>3. ASSUME targets[i].kind = "id"
        PROVE  /\ Asked(targets[i]) = {targets[i].of} /\ targets[i].of \in Stored
               /\ Asks(i, targets[i].of) /\ WantedOf(i) = {targets[i].of}
    <3>1. Asked(targets[i]) = {targets[i].of} /\ WantedOf(i) = {targets[i].of}
      BY <2>3 DEF Asked, WantedOf
    <3>2. targets[i].of \in Stored
      BY <1>1, <3>1, WantedKnown DEF DownloadInv
    <3>3. Asks(i, targets[i].of)
      BY <1>1, <2>3, GoalById DEF Asks
    <3>4. QED
      BY <3>1, <3>2, <3>3
  <2>4. ASSUME targets[i].kind # "id"
        PROVE  /\ \A a \in Asked(targets[i]) : a \in Stored /\ Asks(i, a)
               /\ WantedOf(i) \subseteq Asked(targets[i])
    <3>1. targets[i].kind = "bug"
      BY <1>1, <2>4 DEF Shaped, Goals
    <3>2. targets[i] = OnBug(targets[i].of)
      BY <1>1, <3>1, GoalOnBug
    <3>3. \A a \in Asked(targets[i]) : a \in Stored /\ stored[a].bug = targets[i].of
      BY <3>1 DEF Asked
    <3>4. \A a \in WantedOf(i) : a \in Stored /\ stored[a].bug = targets[i].of /\ ~Skipped(a)
      BY <1>1, <2>4 DEF WantedOf, DownloadInv, Known, Stored, Shaped
    <3>5. QED
      BY <3>1, <3>2, <3>3, <3>4 DEF Asked, Asks
  <2>5. \A a \in ToSet(q) : a \in Stored /\ Asks(i, a)
    BY <2>2, <2>3, <2>4
  <2>6. WantedOf(i) \subseteq ToSet(q)
    BY <2>2, <2>3, <2>4
  <2>7. OneById => ToSet(q) = {targets[1].of}
    <3>1. OneById => i = 1 /\ targets[i].kind = "id"
      BY <1>1 DEF OneById
    <3>2. QED
      BY <2>2, <2>3, <3>1
  <2>8. q \in Seq(Nat)
    <3>1. Asked(targets[i]) \subseteq Nat
      BY <1>1, <2>3, <2>4
    <3>2. QED
      BY <2>2, <3>1
  <2>9. DownloadInv'
    BY <1>1, <1>2, <1>4, <1>6, <1>7, <1>8, <1>9, <2>1, <2>5, <2>6, <2>7, <2>8, GoesOn
  <2>10. QED
    BY <2>1, <2>8, <2>9 DEF Proceed, NextTarget
<1>12. QED
  BY <1>10, <1>11 DEF List

\* The command of a download, step by step.
LEMMA CommandDownload ==
  ASSUME Shaped, DownloadSide, Command
  PROVE  (Shaped /\ DownloadSide)'
<1>1. Shaped /\ DownloadInv /\ form = "download" /\ stage \in DownloadStages
  BY DEF DownloadSide, DownloadInv
<1>2. ASSUME form' = form, DownloadInv' PROVE DownloadSide'
  BY <1>1, <1>2 DEF DownloadSide
<1> DEFINE Stands == UNCHANGED <<targets, option, stored, thread, late, old, others>> /\ form' = form
<1>3. ASSUME UNCHANGED <<command, server, others>> PROVE Stands
  BY <1>3 DEF command, server
<1>4. ASSUME NEW how, End(how), how \in {"ok", "failed"} => stage = "report" /\ (how = "ok" <=> failed = {})
      PROVE  Shaped' /\ DownloadSide'
  <2>1. /\ Stands /\ ended' = how
        /\ UNCHANGED <<i, queue, at, done, failed, received, disk, stage>>
    BY <1>3, <1>4 DEF End, progress, files
  <2>2. DownloadInv'
    BY <1>1, <2>1, TurnDownload
  <2>3. Shaped'
    BY <1>1, <1>4, <2>1 DEF Shaped
  <2>4. QED
    BY <1>2, <2>1, <2>2, <2>3
<1>5. ASSUME NEW what, Enter(what), ended = "no", stage \in {"prepare", "connect"},
             what \in {"connect", "list"} \/ (OneById /\ what = "fetch")
      PROVE  Shaped' /\ DownloadSide'
  <2>1. /\ Stands /\ stage' = what
        /\ UNCHANGED <<i, queue, at, done, failed, received, disk, ended>>
    BY <1>3, <1>5 DEF Enter, files
  <2>2. DownloadInv'
    BY <1>1, <1>5, <2>1, TurnDownload
  <2>3. Shaped'
    BY <1>1, <1>5, <2>1 DEF Shaped
  <2>4. QED
    BY <1>2, <2>1, <2>2, <2>3
<1>6. CASE Prepare
  BY <1>4, <1>5, <1>6 DEF Prepare, Running
<1>7. CASE Connect
  BY <1>1, <1>4, <1>5, <1>7 DEF Connect, Running
<1>8. CASE ReportTransfers
  <2>1. stage = "report" /\ End(IF failed = {} THEN "ok" ELSE "failed")
    BY <1>8 DEF ReportTransfers, Running
  <2>2. QED
    BY <1>4, <2>1
<1>9. ASSUME stage \in Transferring \cup {"list"}, ended = "no", ended' = ended,
             NEW rest \in Seq(Nat), Proceed(rest), UNCHANGED <<command, server, others>>,
             \A f \in failed' : f \in failed \/ f[1] = i
      PROVE  Shaped'
  <2>1. i \in DOMAIN targets /\ i \in Nat /\ i <= Len(targets) /\ Len(targets) \in Nat
    BY <1>1, <1>9 DEF Shaped, Transferring
  <2>2. Stands
    BY <1>3, <1>9
  <2>3. /\ queue' = rest /\ at' \in Nat
        /\ \/ i' = i /\ stage' = "fetch"
           \/ i' = i + 1 /\ stage' \in {"list", "report"} /\ (stage' = "report" <=> i' = Len(targets) + 1)
    BY <1>1, <1>9, <2>1, ProceedMoves
  <2>4. \A f \in failed' : f[1] \in DOMAIN targets
    BY <1>1, <1>9, <2>1 DEF Shaped
  <2>5. QED
    BY <1>1, <1>9, <2>1, <2>2, <2>3, <2>4 DEF Shaped, Transferring
<1>10. CASE List
  <2>1. stage \in Transferring \cup {"list"} /\ ended = "no" /\ UNCHANGED <<command, server, others, ended>>
    BY <1>10 DEF List, Running
  <2>2. DownloadInv' /\ queue' \in Seq(Nat)
    BY <1>1, <1>10, ListedDownload
  <2>3. Proceed(queue')
    BY <1>10 DEF List, Proceed
  <2>4. \A f \in failed' : f \in failed \/ f[1] = i
    BY <1>10 DEF List
  <2>5. Shaped'
    BY <1>9, <2>1, <2>2, <2>3, <2>4
  <2>6. form' = form
    BY <1>3, <2>1
  <2>7. QED
    BY <1>2, <2>2, <2>5, <2>6
<1>11. ASSUME Missed, stage \in Transferring, ended = "no",
              UNCHANGED <<command, server, others, ended, received, disk>>
       PROVE  Shaped' /\ DownloadSide'
  <2>1. DownloadInv'
    BY <1>1, <1>11, GoesOnMissed
  <2>2. Rest \in Seq(Nat) /\ Proceed(Rest) /\ \A f \in failed' : f \in failed \/ f[1] = i
    BY <1>1, <1>11, CurrentAsked DEF Missed
  <2>3. Shaped'
    BY <1>9, <1>11, <2>2
  <2>4. QED
    BY <1>2, <1>3, <1>11, <2>1, <2>3
<1>12. ASSUME stage \in Transferring, stage' \in Transferring, ended = "no",
              UNCHANGED <<command, server, others, ended, i, queue, at, done, failed>>
       PROVE  Shaped' /\ form' = form
  <2>1. Stands
    BY <1>3, <1>12
  <2>2. QED
    BY <1>1, <1>12, <2>1 DEF Shaped, Transferring
<1>13. CASE Fetch
  <2>1. stage = "fetch" /\ ended = "no" /\ stage \in Transferring
        /\ UNCHANGED <<command, disk, ended, server, others>>
    BY <1>13 DEF Fetch, Running, Transferring
  <2>2. CASE Missed /\ UNCHANGED received
    BY <1>11, <2>1, <2>2
  <2>3. ASSUME received' = received \cup {Current}, stage' = "create",
               UNCHANGED <<i, queue, at, done, failed>>
        PROVE  Shaped' /\ DownloadSide'
    <3>1. stage' \in Transferring
      BY <2>3 DEF Transferring
    <3>2. Shaped' /\ form' = form
      BY <1>12, <2>1, <2>3, <3>1
    <3>3. DownloadInv'
      BY <1>1, <1>3, <2>1, <2>3, FetchedDownload
    <3>4. QED
      BY <1>2, <3>2, <3>3
  <2>4. QED
    BY <1>13, <2>2, <2>3 DEF Fetch
<1>14. CASE Create
  <2>1. stage = "create" /\ ended = "no" /\ stage \in Transferring
        /\ UNCHANGED <<command, received, ended, server, others>>
    BY <1>14 DEF Create, Running, Transferring
  <2>2. CASE Missed /\ UNCHANGED disk
    BY <1>11, <2>1, <2>2
  <2>3. ASSUME disk' = [disk EXCEPT ![Current] = "part"], stage' = "copy",
               UNCHANGED <<i, queue, at, done, failed>>
        PROVE  Shaped' /\ DownloadSide'
    <3>1. stage' \in Transferring
      BY <2>3 DEF Transferring
    <3>2. Shaped' /\ form' = form
      BY <1>12, <2>1, <2>3, <3>1
    <3>3. DownloadInv'
      BY <1>1, <1>3, <2>1, <2>3, CreatedDownload
    <3>4. QED
      BY <1>2, <3>2, <3>3
  <2>4. QED
    BY <1>14, <2>2, <2>3 DEF Create
<1>15. CASE Copy
  <2>1. stage = "copy" /\ ended = "no" /\ stage \in Transferring
        /\ UNCHANGED <<command, received, ended, server, others>>
    BY <1>15 DEF Copy, Running, Transferring
  <2>2. CASE Missed /\ UNCHANGED disk
    BY <1>11, <2>1, <2>2
  <2>3. ASSUME disk' = [disk EXCEPT ![Current] = "whole"], done' = done \cup {<<i, Current>>},
               Proceed(Rest), UNCHANGED failed
        PROVE  Shaped' /\ DownloadSide'
    <3>1. Rest \in Seq(Nat)
      BY <1>1, <2>1, CurrentAsked
    <3>2. Shaped'
      BY <1>9, <2>1, <2>3, <3>1
    <3>3. DownloadInv'
      BY <1>1, <2>1, <2>3, CopiedDownload
    <3>4. QED
      BY <1>2, <1>3, <2>1, <3>2, <3>3
  <2>4. QED
    BY <1>15, <2>2, <2>3 DEF Copy
<1>16. ~Confirm /\ ~Upload /\ ~FindComment /\ ~Flip
  BY <1>1 DEF Confirm, Upload, FindComment, Flip, Running, DownloadStages
<1>17. QED
  BY <1>6, <1>7, <1>8, <1>10, <1>13, <1>14, <1>15, <1>16 DEF Command

\* Another user's attachment, or one called obsolete, takes nothing from what was
\* asked.
LEMMA ServerDownloadKept ==
  ASSUME Shaped, DownloadSide, StoredStays, stored' \in Seq(Entries),
         UNCHANGED <<command, progress, files, ended, late>>,
         \A a \in DOMAIN stored : stored[a].obsolete => stored'[a].obsolete,
         others' = others + 1, others < MaxOthers, Len(stored') <= Len(stored) + 1
  PROVE  DownloadSide'
<1>1. DownloadInv /\ form' = form
  BY DEF DownloadSide, command
<1>2. UNCHANGED <<targets, option, old, stage, i, queue, done, failed, received, disk>>
  BY DEF command, progress, files
<1>3. /\ Stored \subseteq Stored' /\ OneById' = OneById /\ Faulty' = Faulty
      /\ Waiting' = Waiting /\ Current' = Current
  BY <1>2 DEF StoredStays, Stored, OneById, Faulty, Waiting, Current
<1>4. \A n, a : a \in Stored => (Asks(n, a)' <=> Asks(n, a))
  BY <1>2 DEF StoredStays, Stored, Asks
<1>5. \A a \in Stored : Blamed(a)' <=> Blamed(a)
  BY <1>3, <1>4 DEF Blamed
<1>6. \A a : InHand(a)' <=> InHand(a)
  BY <1>2, <1>3 DEF InHand
<1>7. \A a \in Stored : Fine(a)' <=> Fine(a)
  BY <1>2, <1>5, <1>6 DEF Fine
<1>8. ASSUME NEW n \in DOMAIN targets
      PROVE  WantedOf(n)' \subseteq WantedOf(n) /\ WantedOf(n) \subseteq Stored
  <2>1. WantedOf(n) \subseteq Stored
    BY <1>1, WantedKnown DEF DownloadInv
  <2>2. \A a \in DOMAIN old : a \in DOMAIN stored
    BY <1>1 DEF DownloadInv, Known, Shaped
  <2>3. \A a \in DOMAIN old : Skipped(a) => Skipped(a)'
    BY <1>2, <2>2 DEF Skipped
  <2>4. QED
    BY <1>2, <2>1, <2>3 DEF WantedOf
<1>9. Known'
  <2>1. others \in Nat /\ MaxOthers \in Nat /\ MaxStored \in Nat /\ Len(old) \in Nat
    BY <1>1, AttachmentsAssumption DEF DownloadInv, Known
  <2>2. \A a \in DOMAIN old : a \in DOMAIN stored
    BY <1>1 DEF DownloadInv, Known, Shaped
  <2>3. Len(stored') <= MaxStored + others' /\ others' \in 0..MaxOthers /\ Len(old) <= Len(stored')
    BY <1>1, <2>1 DEF DownloadInv, Known, StoredStays
  <2>4. QED
    BY <1>1, <1>2, <2>2, <2>3 DEF DownloadInv, Known, StoredStays
<1>10. WaitingAsked'
  BY <1>1, <1>2, <1>3, <1>4 DEF DownloadInv, WaitingAsked
<1>11. FilesReceived'
  BY <1>1, <1>2, <1>3 DEF DownloadInv, FilesReceived
<1>12. FilesKept'
  <2>1. \A d \in done' : d[2] \in Stored' /\ Fine(d[2])'
    BY <1>1, <1>2, <1>3, <1>7 DEF DownloadInv, FilesKept
  <2>2. \A a \in DOMAIN disk : disk[a] # "before" => a \in Stored
    BY <1>1 DEF DownloadInv, FilesReceived
  <2>3. \A a \in DOMAIN disk' : disk'[a] = "part" => Blamed(a)' \/ InHand(a)'
    BY <1>1, <1>2, <1>5, <1>6, <2>2 DEF DownloadInv, FilesKept
  <2>4. ASSUME NEW n \in DOMAIN targets \ Faulty
        PROVE  /\ n < i => \A a \in WantedOf(n)' : Fine(a)'
               /\ n = i /\ stage \in Transferring => \A a \in WantedOf(n)' : a \in Waiting \/ Fine(a)'
    BY <1>1, <1>7, <1>8 DEF DownloadInv, FilesKept
  <2>5. stage = "report" => i = Len(targets) + 1
    BY <1>1 DEF DownloadInv, FilesKept
  <2>6. QED
    BY <1>2, <1>3, <2>1, <2>3, <2>4, <2>5 DEF FilesKept
<1>13. stage' \in DownloadStages
  BY <1>1, <1>2 DEF DownloadInv
<1>14. QED
  BY <1>1, <1>9, <1>10, <1>11, <1>12, <1>13 DEF DownloadSide, DownloadInv

\* Other users, while the command downloads.
LEMMA ServerDownload ==
  ASSUME Shaped, DownloadSide, Late \/ OtherAttaches \/ OtherObsoletes \/ OtherComments
  PROVE  (Shaped /\ DownloadSide)'
<1>1. late = {} /\ form # "upload" /\ Len(stored) \in Nat /\ thread \in [Bugs -> Seq(Comments)]
  BY DEF DownloadSide, DownloadInv, Known, Shaped
<1>2. ~Late
  BY <1>1 DEF Late
<1>3. ~OtherComments
  BY <1>1 DEF OtherComments
<1>4. CASE OtherAttaches
  <2>1. PICK b \in Bugs : Attach(b, 0)
    BY <1>4 DEF OtherAttaches
  <2>2. UNCHANGED <<command, progress, files, ended, late>> /\ others' = others + 1 /\ others < MaxOthers
    BY <1>4 DEF OtherAttaches
  <2>3. /\ stored' \in Seq(Entries) /\ thread' \in [Bugs -> Seq(Comments)]
        /\ StoredStays /\ Len(stored') = Len(stored) + 1
        /\ \A a \in DOMAIN stored : stored'[a] = stored[a]
    BY <2>1, AttachShaped
  <2>4. /\ \A a \in DOMAIN stored : stored[a].obsolete => stored'[a].obsolete
        /\ Len(stored') <= Len(stored) + 1
    BY <1>1, <2>3
  <2>5. QED
    BY <2>2, <2>3, <2>4, ServerShaped, ServerDownloadKept
<1>5. CASE OtherObsoletes
  <2>1. PICK a \in Stored : stored' = [stored EXCEPT ![a].obsolete = TRUE]
    BY <1>5 DEF OtherObsoletes
  <2>2. UNCHANGED <<command, progress, files, ended, late, thread>> /\ others' = others + 1 /\ others < MaxOthers
    BY <1>5 DEF OtherObsoletes
  <2>3. /\ StoredStays /\ stored' \in Seq(Entries) /\ Len(stored') = Len(stored)
        /\ \A x \in DOMAIN stored : stored[x].obsolete => stored'[x].obsolete
    BY <2>1, ObsoleteStays
  <2>4. Len(stored') <= Len(stored) + 1 /\ thread' \in [Bugs -> Seq(Comments)]
    BY <1>1, <2>2, <2>3
  <2>5. QED
    BY <2>2, <2>3, <2>4, ServerShaped, ServerDownloadKept
<1>6. QED
  BY <1>2, <1>3, <1>4, <1>5

\* No step of the command, the server or other users breaks the invariant.
LEMMA TransferKept == TransferInv /\ [TransferNext]_transferVars => TransferInv'
<1> SUFFICES ASSUME TransferInv, [TransferNext]_transferVars PROVE TransferInv'
  OBVIOUS
<1>1. CASE UNCHANGED transferVars
  <2>1. UNCHANGED <<form, targets, option, insider, old, stage, i, queue, at, done, failed,
                    received, disk, ended, stored, thread, late, others>>
    BY <1>1 DEF transferVars, command, progress, files, server
  <2>2. StoredStays
    BY <2>1 DEF TransferInv, Shaped, StoredStays
  <2>3. Shaped'
    BY <2>1 DEF TransferInv, Shaped
  <2>4. UploadSide => UploadSide'
    BY <2>1, TurnUpload DEF TransferInv, UploadSide
  <2>5. DownloadSide => DownloadSide'
    BY <2>1, TurnDownload DEF TransferInv, DownloadSide
  <2>6. QED
    BY <2>3, <2>4, <2>5 DEF TransferInv
<1>2. CASE TransferNext
  <2>1. CASE Shaped /\ UploadSide
    BY <1>2, <2>1, CommandUpload, ServerUpload DEF TransferNext, TransferInv
  <2>2. CASE Shaped /\ DownloadSide
    BY <1>2, <2>2, CommandDownload, ServerDownload DEF TransferNext, TransferInv
  <2>3. QED
    BY <2>1, <2>2 DEF TransferInv
<1>3. QED
  BY <1>1, <1>2

\* The invariant of a transfer, in either direction.
THEOREM TransferInvariant == TransferSpec => []TransferInv
<1>1. TransferInit => TransferInv
  BY TransferStarts
<1>2. TransferInv /\ [TransferNext]_transferVars => TransferInv'
  BY TransferKept
<1>3. QED
  BY <1>1, <1>2, PTL DEF TransferSpec

\* A text meant to be private is on view on one bug at most of those the command has
\* had an answer for, whatever is lost, late or done by others meanwhile
\* (upload_batch stops at the first comment it cannot make private).
THEOREM TextExposedOnce == TransferSpec => []ExposedOnce
<1>1. ASSUME TransferInv PROVE ExposedOnce
  <2> SUFFICES ASSUME form = "upload", option
               PROVE  Cardinality({d \in done : Public(d[1])}) <= 1
    BY DEF ExposedOnce
  <2> DEFINE exposed == {d \in done : Public(d[1])}
  <2>1. \A d, e \in exposed : d = e
    BY <1>1 DEF TransferInv, UploadSide, DownloadSide, UploadInv, OneOnView, DoneOnServer
  <2> HIDE DEF exposed
  <2>2. CASE exposed = {}
    BY <2>2, FS_EmptySet DEF exposed
  <2>3. CASE exposed # {}
    <3>1. PICK d : exposed = {d}
      BY <2>1, <2>3
    <3>2. Cardinality(exposed) = 1
      BY <3>1, FS_Singleton
    <3>3. QED
      BY <3>2 DEF exposed
  <2>4. QED
    BY <2>2, <2>3
<1>2. QED
  BY <1>1, TransferInvariant, PTL

\* The report of a batch, of uploads or of downloads, is true of the server and of
\* the disk, and a transfer that failed has left the file that was there
\* (upload_batch, download_batch, download_attachment).
THEOREM ReportsTrue == TransferSpec => []TransfersTrue
<1>1. ASSUME TransferInv PROVE TransfersTrue
  <2>1. UploadsNamed
    <3> SUFFICES ASSUME form = "upload", Over PROVE UploadsNamed
      BY DEF UploadsNamed
    <3>1. stage = "report" /\ (ended = "ok" <=> failed = {}) /\ UploadInv
      BY <1>1 DEF TransferInv, UploadSide, DownloadSide, Shaped, Over
    <3>2. \A n \in DOMAIN targets : Made(n) <=> ~Lost(n)
      BY <3>1 DEF UploadInv, TargetsNamed
    <3>3. \A d \in done : stored[d[2]].bug = targets[d[1]].of
      BY <3>1 DEF UploadInv, DoneOnServer
    <3>4. \A d \in done : option /\ Public(d[1]) => <<d[1], "comment_private">> \in failed
      BY <3>1 DEF UploadInv, OneOnView
    <3>5. QED
      BY <3>1, <3>2, <3>3, <3>4 DEF UploadsNamed, Made, Lost
  <2>2. DownloadsTrue
    <3> SUFFICES ASSUME form = "download", Over PROVE DownloadsTrue
      BY DEF DownloadsTrue
    <3>1. stage = "report" /\ DownloadInv /\ Len(targets) \in Nat /\ DOMAIN targets = 1..Len(targets)
      BY <1>1 DEF TransferInv, UploadSide, DownloadSide, Shaped, Over
    <3>2. \A a : Fine(a) <=> disk[a] = "whole" \/ Blamed(a)
      BY <3>1 DEF Fine, InHand
    <3>3. \A n \in DOMAIN targets \ Faulty : \A a \in WantedOf(n) : disk[a] = "whole" \/ Blamed(a)
      BY <3>1, <3>2 DEF DownloadInv, FilesKept
    <3>4. \A d \in done : disk[d[2]] = "whole" \/ Blamed(d[2])
      BY <3>1, <3>2 DEF DownloadInv, FilesKept
    <3>5. \A a \in DOMAIN disk : disk[a] = "part" => Blamed(a)
      BY <3>1 DEF DownloadInv, FilesKept, InHand
    <3>6. QED
      BY <3>3, <3>4, <3>5 DEF DownloadsTrue, Faulty, Blamed, Asks
  <2>3. ReceivedFirst
    <3>1. CASE form = "upload"
      BY <1>1, <3>1 DEF TransferInv, UploadSide, DownloadSide, ReceivedFirst
    <3>2. CASE form # "upload"
      BY <1>1, <3>2 DEF TransferInv, UploadSide, DownloadSide, DownloadInv, FilesReceived, ReceivedFirst
    <3>3. QED
      BY <3>1, <3>2
  <2>4. QED
    BY <2>1, <2>2, <2>3 DEF TransfersTrue
<1>2. QED
  BY <1>1, TransferInvariant, PTL
=============================================================================
