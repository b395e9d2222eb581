----------------------------- MODULE AuthDetect -----------------------------
(***************************************************************************)
(* detect_server_settings: how a client finds out, from answers it cannot  *)
(* trust, in which form a server takes its API key and which protocol the  *)
(* server speaks.                                                          *)
(*                                                                         *)
(* The probes go out one after the other.  rest/whoami is asked first,     *)
(* rest/valid_login next, each with the key in a header before it is put   *)
(* into a URL; a server that refuses the header only at valid_login is     *)
(* tried again at rest/user, where the answers to the header, to nobody    *)
(* and to the key in the URL are compared; then rest/version is read.      *)
(*                                                                         *)
(* A server answers by its nature, or something between it and the client  *)
(* (a rate limiter, a proxy) answers once in its place.  Both are the      *)
(* environment: a Reply is a choice of Exchange.  A reply is its status    *)
(* class and what its body amounts to; whoever reads the key out of a URL  *)
(* is out of the model, which keeps a log of every request and its answer. *)
(***************************************************************************)
EXTENDS Naturals, Sequences

CONSTANTS Servers,       \* the servers a detection may meet
          Nil,           \* no minor version, no version, nothing decided
          MaxAnomalies   \* bound: answers that are not the server's own

Forms == {"header", "query", "bearer"}    \* how a request carries the key

\* A server, as far as its answers tell it apart, and the target's email.
ServerType ==
  [redhat    : BOOLEAN,                            \* bugzilla.redhat.com
   email     : BOOLEAN,                            \* the target names a login
   key       : BOOLEAN,                            \* the target has an API key
   header    : BOOLEAN,                            \* honours X-BUGZILLA-API-KEY
   query     : BOOLEAN,                            \* honours ?Bugzilla_api_key=
   whoami    : {"works", "missing", "broken"},
   login     : {"works", "denies header", "missing", "broken"},
   anonymous : {"same", "public", "refused"},      \* rest/user without a key
   challenge : {"none", "html", "error"},          \* rest/user with any key
   \* what rest/version says: numbers, a string without any, another body, 404
   version   : {"numbers", "odd", "custom", "none"} \X Nat \X (Nat \cup {Nil})]

\* Status class and body.  "lost" and "untrusted" never became a response: the
\* request failed, or the handshake did, over the certificate.
Statuses == {"ok", "refused", "missing", "failed", "lost", "untrusted"}
Bodies == {"yes",      \* an id, {"result": true}, the user's own record
           "no",       \* id 0, {"result": false}
           "public",   \* another JSON record
           "error",    \* a JSON error
           "html", "large", "cut", "version", "nothing"}
Reply(s, b) == [status |-> s, body |-> b]

\* What a server may send, or something between.
Replies == [status : Statuses, body : Bodies]

ASSUME AuthDetectAssumption ==
  /\ Nil \notin Nat \cup Forms \cup Replies
  /\ Servers \subseteq ServerType
  /\ MaxAnomalies \in Nat

\* What comes between: nothing of it can show the user's own record.
Anomalies ==
  {Reply("ok", "html"), Reply("ok", "error"), Reply("refused", "html"),
   Reply("refused", "error"), Reply("failed", "html"), Reply("ok", "large"),
   Reply("refused", "large"), Reply("failed", "large"), Reply("ok", "cut"),
   Reply("lost", "nothing"), Reply("untrusted", "nothing")}

\* The requests of a detection, in the order they may come in.
Legs == {"compare header", "compare anonymous", "compare query", "compare again"}
Probes == {"whoami header", "whoami query", "login header", "login query"}
            \cup Legs \cup {"version"}

\* A request as it went out, and what came back.
Requests == [probe : Probes, form : Forms \cup {Nil}, reply : Replies]

VARIABLES
  server,     \* the target
  next,       \* the next probe, or "done"
  legs,       \* the answers the comparison at rest/user has collected
  settled,    \* the method detection has settled on, and whether by a probe
  version,    \* server_version
  mode,       \* api_mode
  outcome,    \* "running", "settings" or "error"
  asked,      \* every request so far, with its answer (history)
  anomalies   \* answers that were not the server's

detectVars == <<server, next, legs, settled, version, mode, outcome, asked, anomalies>>

Undecided == [method |-> Nil, probed |-> FALSE]
NoLegs == [header |-> Nil, anonymous |-> Nil]

-----------------------------------------------------------------------------
(* The server *)

\* It knows the caller by a key sent in this form.
Sees(s, form) ==
  \/ form = "header" /\ s.header
  \/ form = "query" /\ s.query
  \/ form = "bearer" /\ s.redhat

Stranger == {Reply("ok", "no"), Reply("refused", "error")}

WhoamiAnswers(s, form) ==
  CASE s.whoami = "missing" -> {Reply("missing", "html")}
    [] s.whoami = "broken"  -> {Reply("ok", "html")}
    [] OTHER -> IF Sees(s, form) THEN {Reply("ok", "yes")} ELSE Stranger

LoginAnswers(s, form) ==
  CASE s.login = "missing" -> {Reply("missing", "html")}
    [] s.login = "broken"  -> {Reply("ok", "html")}
    [] OTHER -> IF Sees(s, form) /\ ~(form = "header" /\ s.login = "denies header")
                THEN {Reply("ok", "yes")} ELSE Stranger

\* rest/user?names=<login>: a header the server does not honour is no key at
\* all, but a challenge is put to whoever shows one.
UserAnswers(s, form) ==
  IF form # Nil /\ s.challenge # "none" THEN {Reply("ok", s.challenge)}
  ELSE IF Sees(s, form) \/ s.anonymous = "same" THEN {Reply("ok", "yes")}
  ELSE IF s.anonymous = "public" THEN {Reply("ok", "public")}
  ELSE {Reply("refused", "error")}

VersionAnswers(s) ==
  CASE s.version[1] = "none"   -> {Reply("missing", "html")}
    [] s.version[1] = "custom" -> {Reply("ok", "html")}
    [] OTHER -> {Reply("ok", "version")}

-----------------------------------------------------------------------------
(* Reading an answer *)

Success(r) == r.status = "ok"

\* No status was received, or the body broke off.
Unreached(r) == r.status \in {"lost", "untrusted"} \/ r.body = "cut"

\* Mutant of WhoamiOutcome: a body too large is no answer, as a refusal is none.
WhoamiOutcomeLargeRejected(r) ==
  IF r.status = "untrusted" THEN "untrusted"
  ELSE IF Unreached(r) THEN "network"
  ELSE IF r.status = "missing" THEN "not found"
  ELSE IF Success(r) /\ r.body = "yes" THEN "authenticated"
  ELSE IF Success(r) /\ r.body \notin {"no", "large"} THEN "malformed"
  ELSE "rejected"

\* probe_whoami: the body is read before the status is looked at.
WhoamiOutcome(r) ==
  IF r.status = "untrusted" THEN "untrusted"
  ELSE IF Unreached(r) THEN "network"
  ELSE IF r.body = "large" THEN "too large"
  ELSE IF r.status = "missing" THEN "not found"
  ELSE IF Success(r) /\ r.body = "yes" THEN "authenticated"
  ELSE IF Success(r) /\ r.body # "no" THEN "malformed"
  ELSE "rejected"

\* probe_valid_login: the status comes first, and 404 is no special one.
LoginOutcome(r) ==
  IF r.status = "untrusted" THEN "untrusted"
  ELSE IF r.status = "lost" THEN "network"
  ELSE IF ~Success(r) THEN "rejected"
  ELSE IF r.body = "cut" THEN "network"
  ELSE IF r.body = "large" THEN "too large"
  ELSE IF r.body = "yes" THEN "authenticated"
  ELSE IF r.body = "no" THEN "rejected"
  ELSE "malformed"

\* leg_status_is_conclusive, and a body that could be read: the rest is no leg.
Conclusive(r) == r.status \in {"ok", "refused"} /\ r.body \notin {"cut", "large"}

\* ProbeLeg::credential_accepted: JSON, a success, and no error inside a 200.
CredentialAccepted(r) == Success(r) /\ r.body \notin {"html", "error"}

\* version_to_api_mode, over parse_major_minor; "odd" has no major number.
ApiMode(v) ==
  IF v[1] = "odd" THEN "hybrid"
  ELSE IF v[2] < 5 THEN "xmlrpc"
  ELSE IF v[2] = 5 /\ v[3] \in {Nil, 0} THEN "hybrid"
  ELSE "rest"

-----------------------------------------------------------------------------
(* detect_server_settings without a key, and detect_auth_method up to its  *)
(* first probe: Red Hat's documented Bearer scheme is not probed at all.   *)
DetectInit ==
  /\ server \in Servers
  /\ next = IF ~server.key \/ server.redhat THEN "version" ELSE "whoami header"
  /\ legs = NoLegs
  /\ settled = IF server.key /\ server.redhat THEN [method |-> "header", probed |-> FALSE]
                                            ELSE Undecided
  /\ version = Nil /\ mode = Nil
  /\ outcome = "running"
  /\ asked = <<>>
  /\ anomalies = 0

\* The next request, with the key in this form, and its answer r.
Exchange(form, honest, r) ==
  /\ \/ r \in honest /\ UNCHANGED anomalies
     \/ /\ r \in Anomalies
        /\ anomalies < MaxAnomalies
        /\ anomalies' = anomalies + 1
  /\ asked' = Append(asked, [probe |-> next, form |-> form, reply |-> r])
  /\ UNCHANGED server

GoOn(step) ==
  /\ next' = step
  /\ UNCHANGED <<settled, version, mode, outcome>>

Fail ==
  /\ next' = "done"
  /\ outcome' = "error"
  /\ UNCHANGED <<settled, version, mode>>

\* The method is decided; the version is read next.
Settle(method, probed) ==
  /\ next' = "version"
  /\ settled' = [method |-> method, probed |-> probed]
  /\ UNCHANGED <<version, mode, outcome>>

\* What both kinds of probes have in common: an unreachable server leaves the
\* header as a fallback (network_error_outcome), a certificate's failure and an
\* oversized body end the detection.
Common(o) ==
  \/ o = "network" /\ Settle("header", FALSE)
  \/ o \in {"untrusted", "too large"} /\ Fail

\* rest/valid_login wants a login.
TryLogin == IF server.email THEN GoOn("login header") ELSE Fail

\* detect_whoami_auth: after a refusal the key is tried in the URL; a server
\* that has no whoami is not asked twice.
Whoami(form) ==
  /\ next = (IF form = "header" THEN "whoami header" ELSE "whoami query")
  /\ \E r \in WhoamiAnswers(server, form) \cup Anomalies :
       LET o == WhoamiOutcome(r) IN
       /\ Exchange(form, WhoamiAnswers(server, form), r)
       /\ \/ Common(o)
          \/ o = "authenticated" /\ Settle(form, TRUE)
          \/ o = "not found" /\ TryLogin
          \/ o \in {"rejected", "malformed"}
               /\ IF form = "header" THEN GoOn("whoami query") ELSE TryLogin
  /\ UNCHANGED legs

\* detect_valid_login_auth: the key accepted in a URL only starts the comparison.
Login(form) ==
  /\ next = (IF form = "header" THEN "login header" ELSE "login query")
  /\ \E r \in LoginAnswers(server, form) \cup Anomalies :
       LET o == LoginOutcome(r) IN
       /\ Exchange(form, LoginAnswers(server, form), r)
       /\ \/ Common(o)
          \/ o = "authenticated" /\ form = "header" /\ Settle("header", TRUE)
          \/ o = "authenticated" /\ form = "query" /\ GoOn("compare header")
          \/ o \in {"rejected", "malformed"}
               /\ IF form = "header" THEN GoOn("login query") ELSE Fail
  /\ UNCHANGED legs

-----------------------------------------------------------------------------
(* verify_header_auth_via_rest: four requests, each of which has to speak   *)
(* for the header, or the query form that valid_login proved is kept; no   *)
(* failure of one of them ends the detection.                              *)

KeepQuery == Settle("query", TRUE) /\ UNCHANGED legs

\* One request to rest/user (read_probe_leg).
Leg(step, form, r) ==
  /\ next = step
  /\ r \in UserAnswers(server, form) \cup Anomalies
  /\ Exchange(form, UserAnswers(server, form), r)

CompareHeader ==
  \E r \in Replies :
    /\ Leg("compare header", "header", r)
    /\ IF Conclusive(r) /\ CredentialAccepted(r)
       THEN GoOn("compare anonymous") /\ legs' = [legs EXCEPT !.header = r]
       ELSE KeepQuery

CompareAnonymous ==
  \E r \in Replies :
    /\ Leg("compare anonymous", Nil, r)
    /\ IF Conclusive(r) /\ r.body # legs.header.body
       THEN GoOn("compare query") /\ legs' = [legs EXCEPT !.anonymous = r]
       ELSE KeepQuery

\* Mutant of CompareQuery: nobody is asked a second time.
CompareQueryLast ==
  \E r \in Replies :
    /\ Leg("compare query", "query", r)
    /\ IF Conclusive(r) /\ CredentialAccepted(r) /\ r.body = legs.header.body
       THEN Settle("header", TRUE) /\ UNCHANGED legs
       ELSE KeepQuery

CompareQuery ==
  \E r \in Replies :
    /\ Leg("compare query", "query", r)
    /\ IF Conclusive(r) /\ CredentialAccepted(r) /\ r.body = legs.header.body
       THEN GoOn("compare again") /\ UNCHANGED legs
       ELSE KeepQuery

\* The difference has to be there a second time.
CompareAgain ==
  \E r \in Replies :
    /\ Leg("compare again", Nil, r)
    /\ IF /\ Conclusive(r)
          /\ Success(r) = Success(legs.anonymous)
          /\ r.body = legs.anonymous.body
       THEN Settle("header", TRUE) /\ UNCHANGED legs
       ELSE KeepQuery

-----------------------------------------------------------------------------
(* detect_version_and_mode *)

\* apply_auth; nothing is sent along without a key.
VersionForm ==
  IF ~server.key THEN Nil ELSE IF server.redhat THEN "bearer" ELSE settled.method

\* The end: what is known of the version, and the protocol to speak.
Report(v, m) ==
  /\ next' = "done"
  /\ version' = v
  /\ mode' = m
  /\ outcome' = "settings"
  /\ UNCHANGED settled

\* Without a key a certificate's failure is still news to the caller; with one
\* the auth probes would have met it.
ReadVersion ==
  /\ next = "version"
  /\ \E r \in VersionAnswers(server) \cup Anomalies :
       /\ Exchange(VersionForm, VersionAnswers(server), r)
       /\ \/ r.status = "untrusted" /\ ~server.key /\ Fail
          \/ r.status = "untrusted" /\ server.key /\ Report(Nil, "xmlrpc")
          \/ r.status \in {"lost", "refused", "missing", "failed"} /\ Report(Nil, "xmlrpc")
          \/ Success(r) /\ r.body = "cut" /\ Report(Nil, "xmlrpc")
          \/ Success(r) /\ r.body = "large" /\ Fail
          \/ /\ Success(r) /\ r.body \notin {"cut", "large", "version"}
             /\ Report(Nil, "hybrid")
          \/ /\ r.body = "version"
             /\ Report(server.version, ApiMode(server.version))
  /\ UNCHANGED legs

DetectNext ==
  \/ \E form \in {"header", "query"} : Whoami(form) \/ Login(form)
  \/ CompareHeader \/ CompareAnonymous \/ CompareQuery \/ CompareAgain
  \/ ReadVersion

DetectSpec == DetectInit /\ [][DetectNext]_detectVars

-----------------------------------------------------------------------------
(* Properties *)

\* Every variable keeps its shape; the comparison has the legs it needs.
DetectTypeOK ==
  /\ server \in Servers
  /\ next \in Probes \cup {"done"}
  /\ legs.header \in Replies \cup {Nil} /\ legs.anonymous \in Replies \cup {Nil}
  /\ settled \in [method : {"header", "query", Nil}, probed : BOOLEAN]
  /\ mode \in {"rest", "hybrid", "xmlrpc", Nil}
  /\ outcome \in {"running", "settings", "error"}
  /\ asked \in Seq(Requests)
  /\ anomalies \in 0..MaxAnomalies
  /\ next \in {"compare anonymous", "compare query", "compare again"} => legs.header # Nil
  /\ next \in {"compare query", "compare again"} => legs.anonymous # Nil

\* The thresholds: below 5.0, from 5.0, from 5.1; 5 alone may be 5.0.
Threshold(v) ==
  LET From(major, minor) == v[2] > major \/ (v[2] = major /\ v[3] # Nil /\ v[3] >= minor)
  IN  IF v[1] = "odd" THEN "hybrid"
      ELSE IF From(5, 1) THEN "rest" ELSE IF v[2] >= 5 THEN "hybrid" ELSE "xmlrpc"

\* What is cached with the server is true of it, whatever a single answer that is
\* not the server's says - one page of a rate limiter in the comparison, a failure
\* of the network - and though every request with a key may be challenged: it
\* honours the method stamped as probed (ADR 0056, auth_method_probed), and
\* a recorded version comes with the protocol of its threshold.
SettingsTrue ==
  outcome = "settings" =>
    /\ settled.probed => Sees(server, settled.method)
    /\ version # Nil => version = server.version /\ mode = Threshold(version)

\* The server's own answers show that it takes the header.
ShowsHeader(s) ==
  /\ s.key /\ ~s.redhat /\ s.header
  /\ \/ s.whoami = "works"
     \/ s.email /\ s.login = "works"
     \/ /\ s.email /\ s.login = "denies header" /\ s.query
        /\ s.anonymous # "same" /\ s.challenge = "none"

\* It is told so by the first endpoint it has.
ShowsHeaderFirst(s) ==
  /\ s.key /\ ~s.redhat /\ s.header
  /\ s.whoami = "works" \/ (s.whoami = "missing" /\ s.email /\ s.login = "works")

\* A server that takes the header and shows it is not sent the key in URLs: not
\* by the commands after the detection ("Prefer header when both work"), even
\* if its valid_login denies it (IBM LTC), ...
HeaderPreferred ==
  outcome = "settings" /\ anomalies = 0 /\ ShowsHeader(server)
    => settled = [method |-> "header", probed |-> TRUE]

\* The forms in which the key has gone out.
FormsSent == {asked[i].form : i \in 1..Len(asked)} \ {Nil}

\* ... nor by the detection itself, where the first endpoint it has tells; and
\* Red Hat's is sent the key as a bearer token only.
KeyOutOfUrls ==
  /\ anomalies = 0 /\ ShowsHeaderFirst(server) => "query" \notin FormsSent
  /\ server.redhat => FormsSent \subseteq {"bearer"}

\* What reading an answer turned up: a certificate that is not trusted, or a
\* body over the limit, which only an answer whose body is read can show.
Alarming(q) ==
  \/ q.reply.status = "untrusted"
  \/ /\ q.reply.body = "large"
     /\ \/ q.probe \in {"whoami header", "whoami query"}
        \/ q.reply.status = "ok"
        \/ q.probe \in Legs /\ q.reply.status = "refused"

\* The version probe, with the key in the form that valid_login accepted.
AsAccepted(q) == q.probe = "version" /\ q.form = "query"

\* An alarm is the last request of the detection, in whatever form the key was
\* to go out again (ProbeRefused, ADR 0068).  Only the comparison, whose legs
\* may fail without failing the detection, is given up instead: after an alarm
\* there the version is asked for, once, with the key as valid_login took it.
NoKeyAfterAlarm ==
  \A i \in 1..Len(asked) :
    Alarming(asked[i]) /\ i < Len(asked) =>
      asked[i].probe \in Legs /\ i + 1 = Len(asked) /\ AsAccepted(asked[i + 1])
=============================================================================
