------------------------------ MODULE Dispatch ------------------------------
(***************************************************************************)
(* One operation of BugzillaClient over the two protocols of a server.     *)
(*                                                                         *)
(* An operation asks a route: a REST resource ("rest"), the REST bug       *)
(* search ("search"), the REST user lookup ("user") or the XML-RPC         *)
(* endpoint ("xmlrpc").  What comes of the answer (Verdict) either is the  *)
(* operation's result or sends it on to another route (Onward), by rules   *)
(* that differ from operation to operation.  An alias, a field list or a   *)
(* body's layout is left out: an answer is an error or some rows.          *)
(*                                                                         *)
(* The server is the environment.  It may know the caller on one route and *)
(* not on another, lack a route, or fail at one; and the network may lose  *)
(* a request or its answer, or bring one that is too large or makes no     *)
(* sense.                                                                  *)
(***************************************************************************)
EXTENDS Integers, SequencesExt, Selection

CONSTANTS Operations,  \* the operations a client may be asked for
          Servers,     \* the servers it may meet
          Bugs,        \* the bugs that may match a search
          Private,     \* those that only a caller the server knows may see
          Categories,  \* what a search selects by: assignee, creator, cc
          None,        \* no operation, route, result or error
          MaxFaults    \* bound: answers that are spoiled, retries that run out

Modes == {"rest", "xmlrpc", "hybrid"}

\* Calls that exist over one protocol only.
RestOnly   == {"rest call", "whoami"}
XmlRpcOnly == {"xmlrpc call"}
XmlRpcFirst == {"comments", "attachments"}     \* dispatch_xmlrpc_first
Kinds == RestOnly \cup XmlRpcOnly \cup XmlRpcFirst \cup
         {"bug", "links root", "links nodes", "adjacency", "search", "group",
          "extensions", "login", "create user"}

OperationType ==
  [kind : Kinds, mode : Modes,
   key : BOOLEAN,         \* the client has an API key
   named : BOOLEAN,       \* whoami: an email is configured; user: a login is given
   structured : BOOLEAN,  \* the search has filters other than free text
   raw : BOOLEAN,         \* it carries parameters of a saved URL
   category : Categories \cup {None}, offset : Nat, limit : Nat]

\* What sets one server apart from another.
ServerType ==
  [target : {"public", "private", "absent"},     \* the bug, group or user asked for
   header : BOOLEAN,                             \* REST knows who shows a key
   xmlrpc : BOOLEAN,                             \* xmlrpc.cgi is there
   crashes : {"never", "direct", "both"},        \* 100500 at the lookup, and at search
   blocks : BOOLEAN,                             \* GET group answers 32610
   endpoints : BOOLEAN,                          \* rest/whoami, rest/extensions
   filters : BOOLEAN,                            \* REST honours structured filters
   clamp : Nat]                                  \* most rows of an answer; 0: no bound

VARIABLES
  server,   \* the server
  matches,  \* per category, what matches now, in the order of the search
  op,       \* the operation under way, or None
  route,    \* the route it asks, or None when it is over
  result,   \* what it returned
  tried,    \* the routes that answered, and with which error (history)
  applied,  \* the routes over which the server applied a creation (history)
  faults    \* answers the network spoiled so far

callVars == <<op, route, result, tried, applied>>
vars == <<server, matches, callVars, faults>>

Errors == {"fault",        \* an API error about this object or this request
           "internal", "crashed",       \* 100500: in a body of HTTP 200; of an error status
           "blocked", "no method",      \* 32610, 32614
           "gone", "lost", "garbled",   \* HTTP 404; no answer; XML-RPC that does not parse
           "large", "not found", "other"}

Routes == {"rest", "search", "user", "xmlrpc"}

ASSUME DispatchAssumption ==
  /\ Operations \subseteq OperationType
  /\ Servers \subseteq ServerType
  /\ Private \subseteq Bugs
  /\ None \notin Categories \cup Errors \cup Routes
  /\ MaxFaults \in Nat

Rows(s) == [error |-> None, rows |-> s]
Err(e)  == [error |-> e, rows |-> <<>>]

\* Mutant of IsTransportFailure: an oversized body counts as no answer.
IsTransportFailureLarge(r) == r.error \in {"gone", "lost", "garbled", "large"}

\* is_transport_failure: a refusal of an oversized body is none, nor is JSON that
\* does not parse.
IsTransportFailure(r) == r.error \in {"gone", "lost", "garbled"}

-----------------------------------------------------------------------------
(* The server *)

Knows(at) == op.key /\ (at = "xmlrpc" \/ server.header)
Visible(at) == server.target = "public" \/ (server.target = "private" /\ Knows(at))

\* An endpoint that looks one object up.
Object(at) ==
  IF Visible(at) THEN {Rows(<<"object">>)}
  ELSE {Err("fault")} \cup (IF server.target = "absent" THEN {Rows(<<>>)} ELSE {})

\* The rows of one answer: REST drops what the caller may not see.
Window(at) ==
  LET seen == Select(matches[op.category], IF Knows(at) THEN Bugs ELSE Bugs \ Private)
      most == IF op.limit = 0 THEN Len(seen) ELSE op.limit
      size == IF server.clamp > 0 /\ server.clamp < most THEN server.clamp ELSE most
      last == IF op.offset + size < Len(seen) THEN op.offset + size ELSE Len(seen)
  IN  SubSeq(seen, op.offset + 1, last)

\* A handler that crashes may say so in a body of HTTP 200 or of an error status.
Crash == {Err("internal"), Err("crashed")}

SearchAnswers(at) ==
  IF op.kind = "search" /\ at = "search" /\ op.structured /\ ~server.filters THEN {Rows(<<>>)}
  ELSE IF op.kind = "search" THEN {Rows(Window(at))}
  ELSE IF server.crashes = "both" THEN Crash
  ELSE {Rows(IF Visible(at) THEN <<"object">> ELSE <<>>)}

\* Comments or attachments of a bug: the private ones for a caller it knows.
ThreadAnswers(at) ==
  IF Visible(at)
  THEN {Rows(IF Knows(at) THEN <<"public", "private">> ELSE <<"public">>)}
  ELSE {Err("fault")} \cup (IF server.target = "absent" THEN {Rows(<<>>)} ELSE {})

\* An endpoint that is missing: an API error, or a web server's page.
Missing == {Err("no method"), Err("gone")}

Answers(at) ==
  IF at = "xmlrpc" /\ ~server.xmlrpc THEN {Err("gone")}
  ELSE IF op.kind = "search" \/ at = "search" THEN SearchAnswers(at)
  ELSE IF op.kind \in {"comments", "attachments"} THEN ThreadAnswers(at)
  ELSE IF op.kind \in {"bug", "links root"} /\ at = "rest" /\ server.crashes # "never" THEN Crash
  ELSE IF op.kind = "group" /\ at = "rest" /\ server.blocks THEN {Err("blocked")}
  ELSE IF op.kind \in {"extensions", "whoami"} /\ at = "rest" /\ ~server.endpoints THEN Missing
  ELSE IF op.kind = "extensions" THEN {Rows(<<"list">>)}
  ELSE IF op.kind = "create user" THEN {IF applied = {} THEN Rows(<<"object">>) ELSE Err("fault")}
  ELSE IF op.kind \in {"login", "xmlrpc call"} THEN {Rows(<<"object">>), Err("fault")}
  ELSE Object(at)

-----------------------------------------------------------------------------
(* The client *)

Hybrid == op.mode = "hybrid"

\* Mutant of First: Hybrid mode reads comments over REST, as it did once.
FirstRest(o) ==
  IF o.kind \in XmlRpcOnly THEN "xmlrpc"
  ELSE IF o.mode = "xmlrpc" /\ o.kind \notin RestOnly /\ ~(o.kind = "search" /\ o.raw) THEN "xmlrpc"
  ELSE IF o.mode = "hybrid" /\ o.kind = "create user" /\ o.named THEN "xmlrpc"
  ELSE IF o.kind \in {"search", "links nodes"} THEN "search"
  ELSE "rest"

\* The route an operation asks first.  A search with raw parameters is REST's
\* whatever the mode; in Hybrid mode a user with a login name is XML-RPC's.
First(o) ==
  IF o.kind \in XmlRpcOnly THEN "xmlrpc"
  ELSE IF o.kind \in RestOnly THEN "rest"
  ELSE IF o.mode = "xmlrpc" /\ ~(o.kind = "search" /\ o.raw) THEN "xmlrpc"
  ELSE IF o.mode = "hybrid" /\ o.kind \in XmlRpcFirst THEN "xmlrpc"
  ELSE IF o.mode = "hybrid" /\ o.kind = "create user" /\ o.named THEN "xmlrpc"
  ELSE IF o.kind \in {"search", "links nodes"} THEN "search"
  ELSE "rest"

\* Mutant of Verdict: an empty retry by search reads as no such bug.
VerdictEmptySearch(at, r) ==
  IF r.error # None \/ r.rows # <<>> THEN r
  ELSE IF op.kind \in {"search", "links nodes", "extensions"} THEN r
  ELSE IF op.kind = "attachments" THEN IF at = "rest" THEN Err("other") ELSE r
  ELSE Err("not found")

\* What a handler makes of one answer.  Nothing where one object was looked up
\* is NotFound, but the search that retries a lookup returns the error which
\* forced it; links nodes leaves out what it does not find; a caller without an
\* email is told that whoami does not exist.
Verdict(at, r) ==
  IF r = Err("gone") /\ op.kind = "whoami" /\ ~op.named THEN Err("no method")
  ELSE IF r.error # None \/ r.rows # <<>> THEN r
  ELSE IF op.kind \in {"search", "links nodes", "extensions"} THEN r
  ELSE IF op.kind = "attachments" THEN IF at = "rest" THEN Err("other") ELSE r
  ELSE IF at = "search" THEN Err("internal") ELSE Err("not found")

\* server_extensions: an error of any kind says nothing about the extensions.
Undetermined(v) == v.error # None

\* Where each operation goes on after the verdict v on the route at.  An error
\* status ends a lookup before its body is looked at: no retry by search then.
LookupToSearch(at, v) ==
  at = "rest" /\ op.kind \in {"bug", "links root"} /\ v.error = "internal"
BugToXmlRpc(at, v) ==
  /\ op.kind = "bug" /\ Hybrid
  /\ \/ at \in {"rest", "search"} /\ IsTransportFailure(v)
     \/ at \in {"rest", "search"} /\ v.error \in {"internal", "crashed"} /\ ~LookupToSearch(at, v)
ThreadToRest(at, v) ==
  op.kind \in XmlRpcFirst /\ at = "xmlrpc" /\ Hybrid /\ IsTransportFailure(v)
GroupToXmlRpc(at, v) ==
  /\ op.kind = "group" /\ at = "rest" /\ op.key
  /\ v.error = "blocked" \/ (Hybrid /\ IsTransportFailure(v))
ExtensionsToXmlRpc(at, v) ==
  op.kind = "extensions" /\ at = "rest" /\ Hybrid /\ Undetermined(v)
LoginToXmlRpc(at, v) == op.kind = "login" /\ at = "rest" /\ Hybrid /\ IsTransportFailure(v)
UserToXmlRpc(at, v) ==
  op.kind = "create user" /\ at = "rest" /\ Hybrid /\ IsTransportFailure(v)
WhoamiToUser(at, v) ==
  op.kind = "whoami" /\ at = "rest" /\ op.named /\ v.error \in {"no method", "gone"}
SearchToXmlRpc(at, v) ==
  /\ op.kind = "search" /\ at = "search" /\ Hybrid /\ ~op.raw
  /\ op.structured /\ v = Rows(<<>>)

\* At most one route follows.
Onward(at, v) ==
  {next \in Routes :
     CASE next = "rest"   -> ThreadToRest(at, v)
       [] next = "search" -> LookupToSearch(at, v)
       [] next = "user"   -> WhoamiToUser(at, v)
       [] next = "xmlrpc" -> \/ BugToXmlRpc(at, v) \/ GroupToXmlRpc(at, v)
                             \/ ExtensionsToXmlRpc(at, v) \/ LoginToXmlRpc(at, v)
                             \/ UserToXmlRpc(at, v) \/ SearchToXmlRpc(at, v)}

Begin(o) ==
  /\ op' = o
  /\ route' = First(o)
  /\ result' = None
  /\ tried' = <<>>
  /\ applied' = {}

Init ==
  /\ server \in Servers
  /\ matches = [c \in Categories |-> <<>>]
  /\ \E o \in Operations : op = o /\ route = First(o)
  /\ result = None /\ tried = <<>> /\ applied = {}
  /\ faults = 0

\* An answer r comes in on the route asked.
Take(r) ==
  LET v == Verdict(route, r)
      onward == Onward(route, v)
  IN  /\ tried' = Append(tried, [route |-> route, error |-> r.error])
      /\ route' = IF onward = {} THEN None ELSE CHOOSE next \in onward : TRUE
      /\ result' = IF onward = {} THEN v ELSE None

Waiting == op # None /\ route # None

\* The server answers; a creation it accepts is made.
Answer ==
  /\ Waiting
  /\ \E r \in Answers(route) :
       /\ Take(r)
       /\ applied' = IF op.kind = "create user" /\ r.error = None
                     THEN applied \cup {route} ELSE applied
  /\ UNCHANGED <<server, matches, op, faults>>

Fault == faults < MaxFaults /\ faults' = faults + 1

\* No answer comes: the request was lost, or the server took it and the answer was.
Lose ==
  /\ Waiting /\ Fault
  /\ Take(Err("lost"))
  /\ applied' \in IF op.kind = "create user" /\ (route = "rest" \/ server.xmlrpc)
                  THEN {applied, applied \cup {route}} ELSE {applied}
  /\ UNCHANGED <<server, matches, op>>

\* What comes does not parse, though the server did what it was asked.
Garble ==
  /\ Waiting /\ Fault
  /\ Take(Err(IF route = "xmlrpc" THEN "garbled" ELSE "other"))
  /\ applied' = IF op.kind = "create user" /\ (route = "rest" \/ server.xmlrpc)
                THEN applied \cup {route} ELSE applied
  /\ UNCHANGED <<server, matches, op>>

\* The answer is larger than a body may be.
Oversize ==
  /\ Waiting /\ Fault
  /\ Take(Err("large"))
  /\ UNCHANGED <<server, matches, op, applied>>

\* search_bugs_hybrid: the retry runs into its own time limit.
CapOut ==
  /\ Waiting /\ Fault
  /\ op.kind = "search" /\ route = "xmlrpc" /\ Hybrid
  /\ tried' = Append(tried, [route |-> route, error |-> "late"])
  /\ route' = None
  /\ result' = Rows(<<>>)
  /\ UNCHANGED <<server, matches, op, applied>>

Leg == Answer \/ Lose \/ Garble \/ Oversize \/ CapOut

Spec == Init /\ [][Leg]_vars

-----------------------------------------------------------------------------
(* Properties *)

TypeOK ==
  /\ server \in ServerType
  /\ matches \in [Categories -> Seq(Bugs)]
  /\ op \in OperationType \cup {None}
  /\ route \in Routes \cup {None}
  /\ result # None => result.error \in Errors \cup {None}
  /\ applied \subseteq {"rest", "xmlrpc"}
  /\ faults \in 0..MaxFaults

\* NotFound is only said of what is not there.  A bug the caller may not see is
\* an error of another kind, though search answers both with an empty list: "an
\* empty retry must not be reported as not found" (ADR 0015).
NotFoundMeansAbsent ==
  result # None /\ result.error = "not found" => server.target = "absent"

\* In Hybrid mode the private part of a thread is missing only where XML-RPC
\* gave no answer, or none that can be read: REST may take the caller for nobody
\* and answer without it, "indistinguishable from a thread that has none".
PrivateShown ==
  (/\ result # None /\ op.kind \in XmlRpcFirst /\ Hybrid /\ op.key
   /\ result.error = None /\ Visible("xmlrpc"))
    => \/ "private" \in ToSet(result.rows)
       \/ \E i \in DOMAIN tried : tried[i].route = "xmlrpc" /\ tried[i].error \in {"gone", "lost", "garbled"}

\* Whoever has a list of extensions gets it: one protocol that cannot say is no
\* answer while the other can.
ExtensionsFound ==
  (/\ result # None /\ op.kind = "extensions" /\ Hybrid
   /\ server.xmlrpc /\ ~ \E i \in DOMAIN tried : tried[i].error \in {"lost", "large", "garbled", "other"})
    => result.error = None

\* What was too large once is not fetched a second time over the other protocol:
\* "the second bounded read the bound exists to prevent".  The list of extensions
\* is the exception, which goes on after any error.
LargeNotRepeated ==
  [][(/\ op # None /\ op' = op /\ op.kind # "extensions"
      /\ Len(tried') > Len(tried) /\ tried'[Len(tried')].error = "large")
       => route' = None]_vars

\* An account that was made is not reported as one the server refused.  Fails in
\* Hybrid mode (README.md, Further counterexamples).
NoFalseRefusal ==
  result # None /\ result.error = "fault" => applied = {}

\* In XML-RPC mode "inaccessible/nonexistent ids are omitted" too.  Fails: a bug
\* the caller may not see is a fault there, which ends the walk
\* (README.md).
InvisibleOmitted ==
  result # None /\ op.kind = "links nodes" => result.error # "fault"
=============================================================================
