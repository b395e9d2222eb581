----------------------------- MODULE Transport -----------------------------
(***************************************************************************)
(* BugzillaClient::send (client/transport.rs): one request, the retries of *)
(* --retry, the second try with the other way to authenticate after a 401, *)
(* and how the last answer is reported (client/response.rs).               *)
(*                                                                         *)
(* The network may refuse a connection, lose an answer or deliver it after *)
(* the client gave up; a server may fail after it has done what was asked. *)
(* Requests are numbered in the order they reach the server.               *)
(***************************************************************************)
EXTENDS Integers

CONSTANT RetryMax       \* --retry

ASSUME TransportAssumption == RetryMax \in Nat

Auths == {"header", "query", "other"}

VARIABLES
  accepts,    \* the ways to authenticate the server honours
  codeless,   \* it may refuse without a Bugzilla code (a proxy does)
  safe,       \* the method is GET or HEAD
  cloneable,  \* the body can be sent again
  auth,       \* how the client authenticates: other is Bearer, Token or None
  pc,         \* the client's next step
  attempt,    \* retries made
  alternate,  \* the request under way is the alternate-auth one
  sent,       \* requests that reached the server
  inflight,   \* those it has not handled: <<number, how it authenticates>>
  applied,    \* those whose change it made (history)
  answer,     \* the response the client looks at
  result      \* what send returned

request == <<accepts, codeless, safe, cloneable, auth>>
vars == <<request, pc, attempt, alternate, sent, inflight, applied, answer, result>>

-----------------------------------------------------------------------------
(* Responses: the class of the status, what code the body carries, and     *)
(* whether the body can be read within MAX_RESPONSE_BODY_BYTES.            *)

Statuses == {"2xx", "rejected", "401", "403", "429", "4xx", "5xx"}
Codes == {"none", "auth", "other"}
Response == [status : Statuses, code : Codes, readable : BOOLEAN]

\* "rejected" is a 2xx answer whose body is an error envelope.
NoAnswer == [status |-> "2xx", code |-> "none", readable |-> TRUE]

\* Mutant of should_retry_status: any failure of the server is retried.
should_retry_any(status) == status \in {"429", "5xx"}

\* should_retry_status: rate limits always, failures of the server for safe
\* methods only.
should_retry_status(status) == status = "429" \/ (safe /\ status = "5xx")

\* check_mutation_response: a body that could not be read says nothing, though
\* the status is a success; an error envelope in it says that the request was
\* not carried out.
CheckBody(r) ==
  IF ~r.readable THEN "unknown" ELSE IF r.status = "2xx" THEN "ok" ELSE "refused"

\* check_response_status, for the others: a failure of the server says nothing
\* of the request, any other error status is a refusal.
Report(r) ==
  IF r.status \in {"2xx", "rejected"} THEN CheckBody(r)
  ELSE IF r.status = "5xx" THEN "unknown" ELSE "refused"

-----------------------------------------------------------------------------
\* A body that cannot be cloned leaves the method unknown, and so unsafe.
Init ==
  /\ accepts \in SUBSET Auths
  /\ codeless \in BOOLEAN
  /\ cloneable \in BOOLEAN
  /\ safe \in {cloneable, FALSE}
  /\ auth \in Auths
  /\ pc = "send"
  /\ attempt = 0
  /\ alternate = FALSE
  /\ sent = 0
  /\ inflight = {}
  /\ applied = {}
  /\ answer = NoAnswer
  /\ result = "pending"

Return(r) == pc' = "done" /\ result' = r

Retry == pc' = "send" /\ attempt' = attempt + 1 /\ alternate' = FALSE

\* How the request under way authenticates (apply_auth, apply_alternate_auth).
Credential ==
  IF ~alternate THEN auth ELSE IF auth = "header" THEN "query" ELSE "header"

\* The request reaches the server.
Deliver ==
  /\ pc = "send"
  /\ pc' = "wait"
  /\ sent' = sent + 1
  /\ inflight' = inflight \cup {<<sent + 1, Credential>>}
  /\ UNCHANGED <<request, attempt, alternate, applied, answer, result>>

\* The loop of send on an error of send_raw: retried if the body can be sent
\* again, a retry is left and the failure is transient.
OnError(transient) ==
  IF cloneable /\ attempt < RetryMax /\ transient
    THEN Retry /\ UNCHANGED result
    ELSE Return("unknown") /\ UNCHANGED <<attempt, alternate>>

\* No connection: the server never saw the request (is_connect).
ConnectFails ==
  /\ pc = "send"
  /\ OnError(TRUE)
  /\ UNCHANGED <<request, sent, inflight, applied, answer>>

\* The client stops waiting: on a timeout, or another failure of the
\* connection.  The request may still be at the server, or may be done.
TimesOut ==
  /\ pc = "wait"
  /\ OnError(safe) \/ OnError(FALSE)
  /\ UNCHANGED <<request, sent, inflight, applied, answer>>

\* The responses of a server to a request it does not carry out.  It says 401
\* to a caller it does not know, with a code of its own range, and also, like
\* 403, to one it knows and refuses.
Refusals(credential) ==
  LET Bodies(statuses, code) ==
        [status : statuses, code : IF codeless THEN {code, "none"} ELSE {code},
         readable : BOOLEAN]
  IN  [status : {"429", "5xx"}, code : {"none"}, readable : {TRUE}] \cup
      IF credential \in accepts THEN Bodies({"401", "403", "4xx", "rejected"}, "other")
                                ELSE Bodies({"401"}, "auth")

\* Those to a request it has carried out.
Completions == [status : {"2xx", "5xx"}, code : {"none"}, readable : BOOLEAN]

\* The server handles a request, and answers if the client still waits for it.
Handle ==
  \E m \in inflight :
    /\ inflight' = inflight \ {m}
    /\ \E done \in BOOLEAN :
         /\ done => m[2] \in accepts
         /\ applied' = IF done THEN applied \cup {m[1]} ELSE applied
         /\ \/ /\ pc = "wait" /\ m[1] = sent
               /\ answer' \in IF done THEN Completions ELSE Refusals(m[2])
               /\ pc' = "answered"
            \/ /\ ~(pc = "wait" /\ m[1] = sent)
               /\ UNCHANGED <<answer, pc>>
    /\ UNCHANGED <<request, attempt, alternate, sent, result>>

\* The answer to a request that was not cloned for a second try, or not a 401:
\* the end of send_raw, and the loop of send.
Conclude(r) ==
  IF cloneable /\ attempt < RetryMax /\ should_retry_status(r.status)
    THEN Retry /\ UNCHANGED result
    ELSE Return(Report(r)) /\ UNCHANGED <<attempt, alternate>>

\* retry_with_alternate_auth is possible.
HasAlternate == auth \in {"header", "query"} /\ cloneable

\* send_raw: a 401 is tried again with the other method.
Unauthorized ==
  /\ pc = "answered" /\ ~alternate
  /\ answer.status = "401" /\ HasAlternate
  /\ pc' = "send"
  /\ alternate' = TRUE
  /\ UNCHANGED <<request, attempt, sent, inflight, applied, answer, result>>

\* send_raw: any other answer is looked at as it is.
Answered ==
  /\ pc = "answered" /\ ~alternate
  /\ ~(answer.status = "401" /\ HasAlternate)
  /\ Conclude(answer)
  /\ UNCHANGED <<request, sent, inflight, applied, answer>>

\* code_proves_auth_failure, on the body of the alternate's answer.
Authenticated(r) == r.readable /\ r.code = "other"

\* Mutant of AlternateAnswered: any second refusal leaves the first.
AlternateAnsweredByStatus ==
  /\ pc = "answered" /\ alternate
  /\ IF answer.status \notin {"401", "403"}
       THEN Conclude(answer)
       ELSE Return("unauthorized") /\ UNCHANGED <<attempt, alternate>>
  /\ UNCHANGED <<request, sent, inflight, applied, answer>>

\* The alternate's answer replaces the 401; or it is a refusal of a request
\* that did authenticate, which is reported; or the first 401 stands.
AlternateAnswered ==
  /\ pc = "answered" /\ alternate
  /\ \/ answer.status \notin {"401", "403"} /\ Conclude(answer)
     \/ /\ answer.status \in {"401", "403"}
        /\ Return(IF Authenticated(answer) THEN "refused" ELSE "unauthorized")
        /\ UNCHANGED <<attempt, alternate>>
  /\ UNCHANGED <<request, sent, inflight, applied, answer>>

Client ==
  \/ Deliver \/ ConnectFails \/ TimesOut
  \/ Unauthorized \/ Answered \/ AlternateAnswered

Next == Client \/ Handle

Spec == Init /\ [][Next]_vars

\* The request timeout ends every wait, and a connection attempt ends.
FairSpec == Spec /\ WF_vars(Client)

-----------------------------------------------------------------------------
(* Properties *)

TypeOK ==
  /\ accepts \subseteq Auths /\ codeless \in BOOLEAN
  /\ safe \in BOOLEAN /\ cloneable \in BOOLEAN /\ auth \in Auths
  /\ pc \in {"send", "wait", "answered", "done"}
  /\ attempt \in 0..RetryMax
  /\ alternate \in BOOLEAN
  /\ sent \in Nat
  /\ inflight \subseteq (1..sent) \X Auths
  /\ applied \subseteq 1..sent
  /\ answer \in Response
  /\ result \in {"pending", "ok", "refused", "unauthorized", "unknown"}

\* The abstract call: of a request that changes nothing there is nothing to say
\* but that it returns.
Call == INSTANCE RemoteCall WITH
  effect  <- IF safe THEN {} ELSE applied,
  outcome <- IF safe /\ pc = "done" THEN "unknown"
             ELSE IF result = "unauthorized" THEN "refused" ELSE result

\* send keeps its promise (its comment: "A write must not be replayed after a
\* 5xx or read timeout: the server may have already applied it"): whatever is
\* retried, lost, late or answered by the second authentication, a write is
\* applied at most once, "ok" means applied, and a refusal means that it is not
\* applied and never will be.
ImplementsCall == Call!Spec

\* A request reaches the server at most twice per attempt, and there are no
\* more attempts than --retry allows.
RequestsBounded == sent <= 2 * (RetryMax + 1)

\* What the second try says of the key is true (retry_with_alternate_auth: "the
\* status alone cannot say whether the retry failed to authenticate or
\* authenticated and was then refused; only the body can"): a 401 that stands
\* although the second answer was readable and had a code means that the server
\* does not honour the second method, and a refusal is reported in its place
\* only by a server that does.
AuthVerdictTruthful ==
  pc = "done" /\ alternate =>
    /\ result = "unauthorized" /\ answer.readable /\ ~codeless => Credential \notin accepts
    /\ result = "refused" /\ answer.status \in {"401", "403"} => Credential \in accepts

\* send returns, whatever the server and the network do.
EveryCallReturns == <>(pc = "done")
=============================================================================
