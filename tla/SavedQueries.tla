----------------------------- MODULE SavedQueries -----------------------------
(***************************************************************************)
(* Saved queries and the searches of the command line (commands/query,     *)
(* commands/bug/list.rs, my.rs and search.rs, types/query.rs, url_parser). *)
(*                                                                         *)
(* Commands run beside each other on one config file.  What is decided     *)
(* from a URL or from a saved query is decided on the file as it was read; *)
(* every write re-reads it under the lock of ConfigStore and is one step.  *)
(* A search connects, which reads the file again, and asks REST, XML-RPC,  *)
(* or the one and then the other.                                          *)
(***************************************************************************)
EXTENDS SearchRequest

CONSTANTS
  Runners,        \* the processes
  Commands,       \* the commands there are
  QueryNames,
  Stored,         \* the saved queries there may be at first
  Hosts,          \* the servers at first: a function from names to hosts
  DefaultServer,  \* the name of one, never removed, or Nothing
  Mode,           \* the API mode of each server
  Extended,       \* the servers with the extension that saved searches need
  Me,             \* the user's login
  NaN,            \* a limit that is no number
  Nothing,
  MaxCommands     \* bound: the commands run

ASSUME SavedQueriesAssumption ==
  /\ Nothing \notin DOMAIN Hosts \cup QueryNames
  /\ DefaultServer \in DOMAIN Hosts \cup {Nothing}
  /\ DOMAIN Mode = DOMAIN Hosts /\ Extended \subseteq DOMAIN Hosts
  /\ \A n \in DOMAIN Hosts : Mode[n] \in {"rest", "xmlrpc", "hybrid"}
  /\ \A q \in Stored : DOMAIN q = {"set", "raw", "source", "server"}
  /\ \A c \in Commands : {"kind", "name", "given", "count", "offset"} \subseteq DOMAIN c
  /\ \A c \in Commands : c.name \in QueryNames
  /\ MaxCommands \in Nat

\* A list of values, of words or of parameters; and what is set, each a list.
IsList(s) == s \in Seq(ToSet(s))
OfLists(set) == \A k \in DOMAIN set : IsList(set[k])

\* What is given and saved are lists, and bug my shows the assigned bugs by default.
ASSUME ListsAssumption ==
  /\ \A c \in Commands :
       /\ OfLists(c.given) /\ IsList(c.ids) /\ IsList(c.offset) /\ IsList(c.views)
       /\ c.kind = "my" => c.views # <<>>
       /\ c.url # <<>> => IsList(c.url[1].pairs)
  /\ \A q \in Stored : OfLists(q.set) /\ IsList(q.raw)

\* The charts of a URL, as the web pages number them, do not share a slot.
ASSUME ChartsAssumption ==
  /\ \A c \in Commands : c.url # <<>> => SlotsDistinct(c.url[1].pairs)
  /\ \A q \in Stored : SlotsDistinct(q.raw)

VARIABLES
  queries,  \* the saved queries of the file, or NoQuery
  hosts,    \* the servers of the file
  runner,   \* the command each process is at
  begun     \* how many have begun

queryVars == <<queries, hosts, runner, begun>>

\* A saved query: what is set of it, its raw parameters, the URL it came from
\* (a sequence of at most one) and the server that URL belongs to.
EmptyQuery == [set |-> <<>>, raw |-> <<>>, source |-> <<>>, server |-> Nothing]
NoQuery == [EmptyQuery EXCEPT !.server = "none"]

\* What a query can set, under the names of SearchParams.
DateFields == {"creation_time", "last_change_time"}
UrlOverrides == {"limit", "include_fields", "exclude_fields"} \cup DateFields
QueryFields == FilterField \cup UrlOverrides \cup {"quicksearch", "order"}

\* What narrows the search: not the limit, the selection of fields and the order.
HasFilters(q) ==
  DOMAIN q.set \cap (FilterField \cup DateFields \cup {"quicksearch"}) # {} \/ q.raw # <<>>

SearchOf(q) == [set |-> q.set, raw |-> q.raw, types |-> <<>>, ids |-> <<>>]

-----------------------------------------------------------------------------
(* The URL of a list of bugs *)

Credentials == {"bugzilla_api_key", "token", "api_key"}
Ignored == {"columnlist", "list_id", "query_format"}

IsRaw(key) ==
  key \notin Credentials \cup Ignored \cup {"known_name", "query_based_on", "limit",
                "include_fields", "fields", "exclude_fields"} \cup {UrlParam(f) : f \in FilterField}

SanitizeUrl(url) == [url EXCEPT !.pairs = Select(@, {r \in ToSet(@) : r.key \notin Credentials})]

\* The values of a parameter, in order; "!" before a word negates it.
InUrl(url, key) ==
  LET at == Select(url.pairs, {r \in ToSet(url.pairs) : r.key = key})
  IN  [n \in DOMAIN at |->
         IF at[n].value[1] = "!" THEN Not(at[n].value[2]) ELSE Value(at[n].value[1])]

\* An option is what was last given for it that is not empty.
LastInUrl(url, keys) ==
  LET at == Select(url.pairs, {r \in ToSet(url.pairs) : r.key \in keys /\ r.value # <<"">>})
  IN  IF at = <<>> THEN <<>> ELSE Just(Last(at).value[1])

\* Any server with the host of the URL.
ServersOf(url) == {n \in DOMAIN hosts : hosts[n] = url.host}
UrlRefused(url) ==
  \/ ServersOf(url) = {} /\ DefaultServer = Nothing
  \/ LastInUrl(url, {"limit"}) = Just(NaN)

ParsedUrl(url) ==
  LET values == [k \in FilterField \cup {"limit", "include_fields", "exclude_fields"} |->
                   IF k \in {"limit", "exclude_fields"} THEN LastInUrl(url, {k})
                   ELSE IF k = "include_fields" THEN LastInUrl(url, {"include_fields", "fields"})
                   ELSE InUrl(url, UrlParam(k))]
  IN  [set |-> [k \in {f \in DOMAIN values : values[f] # <<>>} |-> values[k]],
       raw |-> Select(url.pairs, {r \in ToSet(url.pairs) : IsRaw(r.key)}),
       source |-> <<SanitizeUrl(url)>>,
       server |-> IF ServersOf(url) = {} THEN Nothing ELSE CHOOSE n \in ServersOf(url) : TRUE]

\* query save and update take options beside the URL, and its order from --sort.
QueryFromUrl(c) ==
  [ParsedUrl(c.url[1]) EXCEPT !.set = Layered(Keep(c.given, UrlOverrides \cup {"order"}), @)]

-----------------------------------------------------------------------------
(* The searches of a command; given are the flags, order the clause of --sort *)

\* limit and offset once, as options: what the command line says before the URL,
\* which counts if the first it says is a number.
PageWindow(s, offset) ==
  LET inRaw(key) == Select(s.raw, {r \in ToSet(s.raw) : r.key = key})
      numeric == {k \in {"limit", "offset"} :
                    inRaw(k) # <<>> /\ inRaw(k)[1].value[1] \notin {NaN, ""}}
  IN  [s EXCEPT
        !.raw = Select(@, {r \in ToSet(@) : r.key \notin {"limit", "offset"}}),
        !.set = Layered([k \in IF offset = <<>> THEN {} ELSE {"offset"} |-> offset],
                     Layered(Drop(@, {"offset"}), [k \in numeric |-> Just(inRaw(k)[1].value[1])]))]

\* --count: every match, and of each the id.
CountSearch(s) ==
  [s EXCEPT !.raw = Select(@, {r \in ToSet(@) : r.key # "offset"}),
            !.set = Layered([include_fields |-> Just("id"), limit |-> Just("0")],
                         Drop(@, {"exclude_fields", "offset"}))]

StableOrder == [order |-> Just("bug_id")]

\* The filters that a run can override.
OverrideFilters ==
  {"whiteboard", "target_milestone", "version", "op_sys", "platform", "resolution",
   "qa_contact", "url"}
Overridable == OverrideFilters \cup UrlOverrides \cup {"order"}

\* Mutant of ApplyOverrides: it forgets one of the filters.
ApplyOverridesForgetful(set, given) ==
  LET lists == {f \in OverrideFilters \ {"resolution"} : ValuesOf(given, f) # <<>>}
      single == DOMAIN given \cap UrlOverrides
  IN  [k \in lists \cup single \cup DOMAIN set |->
         IF k \in lists \cup single THEN given[k] ELSE set[k]]

\* Overrides: these filters unless empty, limit, dates and selection; not the order.
ApplyOverrides(set, given) ==
  LET lists == {f \in OverrideFilters : ValuesOf(given, f) # <<>>}
      single == DOMAIN given \cap UrlOverrides
  IN  [k \in lists \cup single \cup DOMAIN set |->
         IF k \in lists \cup single THEN given[k] ELSE set[k]]

HasRawOrder(s) == \E n \in DOMAIN s.raw : s.raw[n].key = "order"

\* query run: the saved query under this run's flags, sorted as --sort says, as it
\* is saved, or in a stable order.
RunSearch(c, q) ==
  LET s == PageWindow([SearchOf(q) EXCEPT !.set = ApplyOverrides(@, c.given)], c.offset)
      order == IF "order" \in DOMAIN c.given THEN Keep(c.given, {"order"})
               ELSE IF "order" \in DOMAIN s.set \/ HasRawOrder(s) THEN <<>> ELSE StableOrder
  IN  [s EXCEPT !.set = Layered(order, @)]

\* bug search --from-url: it has a limit, and its own order but for --sort.
UrlSearch(c, q) ==
  LET limited == IF "limit" \in DOMAIN q.set \cup DOMAIN c.given THEN q.set
                 ELSE Layered([limit |-> Just("50")], q.set)
      given == Keep(c.given, {"limit", "include_fields", "exclude_fields"})
      s == PageWindow([SearchOf(q) EXCEPT !.set = ApplyOverrides(limited, given)], c.offset)
  IN  [s EXCEPT !.set = Layered(Keep(c.given, {"order"}), @)]

\* bug list, bug my and a search in words.
BaseSearch(c) ==
  [set |-> Layered([k \in IF c.offset = <<>> THEN {} ELSE {"offset"} |-> c.offset],
                Layered(c.given, Layered([limit |-> Just("50")], StableOrder))),
   raw |-> <<>>, types |-> c.types, ids |-> c.ids]

\* bug my: a search for each view of the user.
MySearches(c) ==
  [n \in DOMAIN c.views |->
     [BaseSearch(c) EXCEPT !.set = Layered([k \in {c.views[n]} |-> Just(Me)], @)]]

Searches(c, q) ==
  LET plain == IF c.kind = "run" THEN <<RunSearch(c, q)>>
               ELSE IF c.kind = "my" THEN MySearches(c)
               ELSE IF c.kind = "search" /\ c.url # <<>> THEN <<UrlSearch(c, q)>>
               ELSE <<BaseSearch(c)>>
  IN  IF c.count THEN [n \in DOMAIN plain |-> CountSearch(plain[n])] ELSE plain

-----------------------------------------------------------------------------
(* A command *)

\* The flags of the commands: filters, of roles too, and match types; what to
\* select and show.
FilterFlags == FilterField \ {"assigned_to", "creator"}
ActorFilters == {"assigned_to", "creator"}
MatchTypes == {"whiteboard", "url", "email"}
Selection == UrlOverrides \cup {"order"}
ListFlags == FilterFlags \cup ActorFilters \cup Selection \cup {"alias", "summary"}
SearchFlags ==
  (Selection \ DateFields) \cup {"quicksearch", "savedsearch", "sharer_id"}

Flags(kind) ==
  CASE kind = "list" -> ListFlags
    [] kind = "my" -> FilterFlags \cup Selection
    [] kind = "search" -> SearchFlags
    [] kind = "run" -> Overridable
    [] kind \in {"save", "update"} -> QueryFields
    [] OTHER -> {}

\* What the command line refuses: a flag it does not have; a URL, a server's saved
\* search or words beside each other or beside filters.  --tag is not among those
\* it knows of.
FilterFlagArgs == FilterField \ {"tags"}
Accepted(c) ==
  LET given == DOMAIN c.given
      filtered == given \cap FilterFlagArgs # {}
  IN
  /\ given \subseteq Flags(c.kind)
  /\ DOMAIN c.types \subseteq IF c.kind \in {"list", "my"} THEN MatchTypes ELSE {}
  /\ c.url # <<>> => /\ ~filtered /\ c.clear = {}
                     /\ given \cap {"quicksearch", "savedsearch"} = {}
  /\ c.clear # {} => c.kind = "update"
  /\ c.saveAs # <<>> => c.url # <<>>
  /\ c.kind = "save" /\ "quicksearch" \in given => ~filtered
  /\ "savedsearch" \in given => "quicksearch" \notin given
  /\ "sharer_id" \in given => "savedsearch" \in given

QueriesInit ==
  /\ queries \in [QueryNames -> Stored \cup {NoQuery}]
  /\ hosts = Hosts
  /\ runner = [r \in Runners |-> [stage |-> "idle"]]
  /\ begun = 0

\* The command, its query, the searches to come, and what has been sent:
\* the search with the requests it was put in.
AtWork(c, stage, q, server) ==
  [stage |-> stage, cmd |-> c, query |-> q, server |-> server,
   todo |-> IF stage = "connect" THEN Searches(c, q) ELSE <<>>, sent |-> <<>>]

Begins(r, c, stage, q, server) ==
  runner' = [runner EXCEPT ![r] = AtWork(c, stage, q, server)]

RefusedAt(r, c) == Begins(r, c, "failed", EmptyQuery, Nothing)

BeginWrite(r, c) ==
  /\ c.kind \in {"save", "update", "delete"}
  /\ IF c.url # <<>>
       THEN IF UrlRefused(c.url[1]) THEN RefusedAt(r, c)
            ELSE IF c.kind = "save" /\ ~HasFilters(QueryFromUrl(c)) THEN RefusedAt(r, c)
            ELSE Begins(r, c, "store", QueryFromUrl(c), Nothing)
       ELSE LET q == [EmptyQuery EXCEPT !.set = c.given]
            IN  IF c.kind = "save" /\ ~HasFilters(q) THEN RefusedAt(r, c)
                ELSE Begins(r, c, "store", q, Nothing)

\* The server of the command line, or else of the query.
EffectiveServer(c, q) == IF c.server # Nothing THEN c.server ELSE q.server

BeginSearch(r, c) ==
  /\ c.kind \in {"run", "list", "my", "search"}
  /\ LET q == IF c.kind = "run" THEN queries[c.name]
              ELSE IF c.url # <<>> THEN ParsedUrl(c.url[1]) ELSE EmptyQuery
     IN  IF \/ c.count /\ (c.offset # <<>> \/ c.paginate)
            \/ c.kind = "run" /\ q = NoQuery
            \/ c.url # <<>> /\ UrlRefused(c.url[1])
           THEN RefusedAt(r, c)
           ELSE Begins(r, c, "connect", q, EffectiveServer(c, q))

BeginCommand(r) ==
  /\ runner[r].stage \in {"idle", "done", "failed"} /\ begun < MaxCommands
  /\ begun' = begun + 1
  /\ \E c \in Commands : Accepted(c) /\ (BeginWrite(r, c) \/ BeginSearch(r, c))
  /\ UNCHANGED <<queries, hosts>>

To(r, stage) == runner' = [runner EXCEPT ![r].stage = stage]

-----------------------------------------------------------------------------
(* Writes, each on the file as it is under the lock *)

Put(r, name, q) ==
  /\ queries' = [queries EXCEPT ![name] = q]
  /\ To(r, "done")
  /\ UNCHANGED <<hosts, begun>>

Rejected(r) ==
  /\ To(r, "failed")
  /\ UNCHANGED <<queries, hosts, begun>>

SaveQuery(r) ==
  LET c == runner[r].cmd IN
  /\ runner[r].stage = "store" /\ c.kind = "save"
  /\ Put(r, c.name, runner[r].query)

DeleteQuery(r) ==
  LET c == runner[r].cmd IN
  /\ runner[r].stage = "store" /\ c.kind = "delete"
  /\ IF queries[c.name] = NoQuery THEN Rejected(r) ELSE Put(r, c.name, NoQuery)

\* Mutant of Updated: the query is made anew from what is given.
UpdatedAnew(q, c) ==
  [EmptyQuery EXCEPT !.set = Drop(Layered(c.given, q.set), c.clear), !.server = q.server]

\* Every filter unless empty (merge_vec), every single value, the order from --sort;
\* then what is cleared goes, given or not.
Updated(q, c) ==
  LET vectors == {f \in FilterField : ValuesOf(c.given, f) # <<>>}
      scalars == DOMAIN c.given \cap (UrlOverrides \cup {"quicksearch", "order"})
      kept == DOMAIN q.set \ (vectors \cup scalars)
      merged == [k \in vectors \cup scalars \cup kept |->
                   IF k \in kept THEN q.set[k] ELSE c.given[k]]
  IN  [q EXCEPT !.set = Drop(merged, c.clear)]

UpdateQuery(r) ==
  LET c == runner[r].cmd
      q == IF c.url # <<>> THEN runner[r].query ELSE Updated(queries[c.name], c)
      named == c.url # <<>> \/ (DOMAIN c.given \cup c.clear # {} /\ c.clear \subseteq QueryFields)
  IN
  /\ runner[r].stage = "store" /\ c.kind = "update"
  /\ IF queries[c.name] # NoQuery /\ named /\ HasFilters(q)
       THEN Put(r, c.name, q) ELSE Rejected(r)

-----------------------------------------------------------------------------
(* Searches *)

\* bug search --save-as without a name, of a URL that has none either.
Nameless(c) == c.saveAs = <<"">> /\ c.url[1].known = ""

\* The server is looked up in the file as it is now; then the saved search and the
\* name to save under are.
Connect(r) ==
  LET w == runner[r]
      name == IF w.server = Nothing THEN DefaultServer ELSE w.server
  IN
  /\ w.stage = "connect"
  /\ runner' = [runner EXCEPT ![r].server = name,
       ![r].stage = IF /\ name \in DOMAIN hosts
                       /\ "savedsearch" \in DOMAIN w.cmd.given => name \in Extended
                       /\ ~Nameless(w.cmd)
                    THEN "ask" ELSE "failed"]
  /\ UNCHANGED <<queries, hosts, begun>>

PutTo(search, via) ==
  LET s == [search EXCEPT !.set = ForceIdFields(@)]
  IN  IF via = "rest" THEN RestRequest(s) ELSE XmlRpcRequest(s)

\* Raw parameters are for REST only.
Via(r) ==
  IF Head(runner[r].todo).raw # <<>> \/ Mode[runner[r].server] = "hybrid" THEN "rest"
  ELSE Mode[runner[r].server]

Invalid(s, via) == InvalidMatchType(s) \/ InvalidRoleNegation(s) \/ (via = "rest" /\ RestRefuses(s))

\* An empty answer to structured filters is asked for again in hybrid mode.
MayFallBack(r, s) ==
  Mode[runner[r].server] = "hybrid" /\ s.raw = <<>> /\ HasStructuredFilters(s)

\* The searches of a command end with the last, and then its query is saved.
After(w) ==
  IF Len(w.todo) > 1 THEN "ask" ELSE IF w.cmd.saveAs # <<>> THEN "save" ELSE "done"

AskServer(r) ==
  LET w == runner[r]
      s == Head(w.todo)
      sent == Append(w.sent, [search |-> s, requests |-> <<PutTo(s, Via(r))>>])
  IN
  /\ w.stage = "ask"
  /\ IF Invalid(s, Via(r)) THEN To(r, "failed")
     ELSE \/ runner' = [runner EXCEPT ![r].sent = sent, ![r].stage = "failed"]
          \/ runner' = [runner EXCEPT ![r].sent = sent, ![r].todo = Tail(@), ![r].stage = After(w)]
          \/ /\ MayFallBack(r, s)
             /\ runner' = [runner EXCEPT ![r].sent = sent, ![r].stage = "fallback"]
  /\ UNCHANGED <<queries, hosts, begun>>

\* XML-RPC answers or is too slow, and the search goes on; or it fails.
FallBack(r) ==
  LET w == runner[r]
      sent == [w.sent EXCEPT ![Len(w.sent)].requests = Append(@, PutTo(Head(w.todo), "xmlrpc"))]
  IN
  /\ w.stage = "fallback"
  /\ \/ runner' = [runner EXCEPT ![r].sent = sent, ![r].stage = "failed"]
     \/ runner' = [runner EXCEPT ![r].sent = sent, ![r].todo = Tail(@), ![r].stage = After(w)]
  /\ UNCHANGED <<queries, hosts, begun>>

\* bug search --save-as, once the search has succeeded: the URL's query, as it
\* was read; without a name it has the URL's.
SaveAs(r) ==
  LET c == runner[r].cmd IN
  /\ runner[r].stage = "save"
  /\ Put(r, IF c.saveAs = <<"">> THEN c.url[1].known ELSE c.saveAs[1], runner[r].query)

\* Another command removes a server; the queries that name it stay.
RemoveServer(name) ==
  /\ name \in DOMAIN hosts \ {DefaultServer}
  /\ hosts' = Drop(hosts, {name})
  /\ UNCHANGED <<queries, runner, begun>>

QueriesNext ==
  \/ \E r \in Runners :
       \/ BeginCommand(r) \/ SaveQuery(r) \/ DeleteQuery(r) \/ UpdateQuery(r)
       \/ Connect(r) \/ AskServer(r) \/ FallBack(r) \/ SaveAs(r)
  \/ \E name \in DOMAIN Hosts : RemoveServer(name)

QueriesSpec == QueriesInit /\ [][QueriesNext]_queryVars

-----------------------------------------------------------------------------
SentBy(r) == IF runner[r].stage = "idle" THEN <<>> ELSE runner[r].sent
Sent == UNION {ToSet(SentBy(r)) : r \in Runners}

QueriesTypeOK ==
  /\ \A n \in QueryNames : queries[n] # NoQuery => DOMAIN queries[n].set \subseteq QueryFields
  /\ DOMAIN hosts \subseteq DOMAIN Hosts
  /\ \A r \in Runners :
       runner[r].stage \in {"idle", "store", "connect", "ask", "fallback", "save", "done", "failed"}
  /\ begun \in 0..MaxCommands

\* No two terms of a request stand in one slot of the boolean chart, where the
\* server would take the last and drop the others (append_negated_params begins
\* after the typed values; the charts of a URL come as they are).
ChartsDistinct == \A x \in Sent : \A n \in DOMAIN x.requests : SlotsDistinct(x.requests[n])

\* Asked again over XML-RPC, a search is the same but for its order: what the
\* server reads of the struct, which the code puts together apart, under other
\* names, in other lists of options and in other slots, is what it read of the
\* URL (append_*_params and search_bugs_rest, add_vec_filters and search_bugs).
FallbackAsksTheSame ==
  \A x \in Sent : Len(x.requests) = 2 =>
    {a \in RestReads(x.requests[1]) : a.key # "order"} = XmlRpcReads(x.requests[2])

\* `query run` with flags asks what it would ask after a `query update` with
\* those flags: the help says a run's flags are the update's for once.  Each of
\* the two names the fields it replaces, and each finds the order in its own way
\* (apply_overrides and handle of run.rs, apply_query_updates).
RunAsUpdated ==
  \A r \in Runners :
    LET w == runner[r] IN
    SentBy(r) # <<>> /\ w.cmd.kind = "run" =>
      w.sent[1].search = Searches([w.cmd EXCEPT !.given = <<>>], Updated(w.query, w.cmd))[1]

\* An update changes of the file what its flags name, and nothing that another
\* command wrote meanwhile, be it to the same query; and it leaves a filter.
UpdatesOnlyNamed ==
  [][\A r \in Runners :
       runner[r].stage = "store" /\ runner[r].cmd.kind = "update" /\ runner[r].cmd.url = <<>>
         /\ queries' # queries =>
       LET c == runner[r].cmd
           unnamed(q) == [q EXCEPT !.set = Drop(@, DOMAIN c.given \cup c.clear)]
       IN  runner'[r].stage = "done" =>
             /\ \A n \in QueryNames \ {c.name} : queries'[n] = queries[n]
             /\ unnamed(queries'[c.name]) = unnamed(queries[c.name])
             /\ HasFilters(queries'[c.name])]_queryVars

\* What the help of `query update` says of every query of the file: it keeps at
\* least one filter.
AllFiltered == \A n \in QueryNames : queries[n] # NoQuery => HasFilters(queries[n])

\* A request has one order: with --sort that clause, else the URL's.
OneOrder ==
  \A x \in Sent : \A n \in DOMAIN x.requests :
    \A i, j \in DOMAIN x.requests[n] :
      x.requests[n][i].key = "order" /\ x.requests[n][j].key = "order" => i = j
=============================================================================
