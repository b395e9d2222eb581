--------------------------- MODULE MCSavedQueries ---------------------------
(* Saved queries for TLC. *)
EXTENDS SavedQueries

\* URLs: one with charts and its own order and offset, one with names only, one
\* with a limit that is none, one of a host no server has.
MCUrl(host, pairs, known) == [host |-> host, pairs |-> pairs, known |-> known]
Charted ==
  MCUrl("host1", <<Pair("bug_status", "NEW"), Pair("list_id", "7"), Chart(1, <<"cc", "equals", "x">>),
                   Pair("token", "t"), Pair("offset", "2"), Pair("limit", "5"), Pair("limit", ""),
                   Pair("order", "priority")>>, "mine")
Named ==
  MCUrl("host2", <<Pair("reporter", "ann"), Pair("fields", "id"),
                   [Pair("bug_status", "!") EXCEPT !.value = <<"!", "NEW">>]>>, "")
Unlimited == MCUrl("host1", <<Pair("product", "p"), Pair("limit", "many")>>, "")
Foreign == MCUrl("host9", <<Pair("order", "priority"), Pair("offset", "many"), Pair("offset", "1")>>, "other")

Command(kind) ==
  [kind |-> kind, name |-> "q1", server |-> Nothing, given |-> <<>>, clear |-> {}, url |-> <<>>,
   types |-> <<>>, ids |-> <<>>, offset |-> <<>>, count |-> FALSE, paginate |-> FALSE,
   views |-> <<>>, saveAs |-> <<>>]
Given(kind, set) == [Command(kind) EXCEPT !.given = set]
FromPage(kind, url) == [Command(kind) EXCEPT !.url = <<url>>]

Writes ==
  {Given("save", [product |-> Just("p"), limit |-> Just("3")]),
   Given("save", [limit |-> Just("3")]),
   Given("save", [quicksearch |-> Just("crash")]),
   [FromPage("save", Charted) EXCEPT !.given = [order |-> Just("severity")]],
   FromPage("save", Unlimited),
   [Given("update", [status |-> <<Value("NEW"), Not("CLOSED")>>]) EXCEPT !.clear = {"limit"}],
   [Command("update") EXCEPT !.clear = {"product", "quicksearch"}],
   [Command("update") EXCEPT !.clear = {"nonsense"}],
   Command("update"),
   [FromPage("update", Named) EXCEPT !.given = [limit |-> Just("9")]],
   Command("delete")}

Runs ==
  {Command("run"), [Command("run") EXCEPT !.name = "q2", !.count = TRUE],
   [Command("run") EXCEPT !.count = TRUE, !.paginate = TRUE],
   [Given("run", [whiteboard |-> <<Value("x"), Not("y")>>, limit |-> Just("1")])
      EXCEPT !.server = "s2", !.offset = Just("4")],
   [Given("run", [order |-> Just("severity")]) EXCEPT !.name = "q2"],
   Given("run", [qa_contact |-> <<Not("")>>]),
   Given("run", [target_milestone |-> Just("m1"), version |-> Just("v1"), op_sys |-> <<Not("Mac OS")>>,
                 platform |-> <<Value("x86"), Value("arm")>>, resolution |-> <<Not("DUPLICATE")>>,
                 url |-> Just("u"), include_fields |-> Just("summary"), exclude_fields |-> Just("cc"),
                 creation_time |-> Just("t1"), last_change_time |-> Just("t2")])}

Lists ==
  {[Given("list", [status |-> <<Not("CLOSED"), Value("NEW")>>, whiteboard |-> <<Value("x"), Value("y")>>,
                   assigned_to |-> <<Not("bob"), Value("ann")>>])
      EXCEPT !.types = [whiteboard |-> "regexp"], !.server = s] : s \in {Nothing, "s2"}}
  \cup {[Given("list", [creator |-> <<Not("bob")>>]) EXCEPT !.types = [email |-> "equals"]],
        [Given("list", [exclude_fields |-> <<Value("id"), Value("cc")>>, include_fields |-> Just("summary")])
           EXCEPT !.ids = <<"1", "2">>],
        [Given("my", [component |-> <<Not("c")>>]) EXCEPT
           !.views = <<"assigned_to", "creator", "cc">>, !.count = TRUE, !.server = "s2"]}

Found ==
  {[FromPage("search", Charted) EXCEPT !.saveAs = <<"">>],
   [FromPage("search", Charted) EXCEPT !.given = [order |-> Just("severity")]],
   FromPage("search", Foreign),
   [FromPage("search", Named) EXCEPT !.saveAs = <<"">>],
   [FromPage("search", Named) EXCEPT !.saveAs = <<"q2">>, !.offset = Just("1")],
   Given("search", [quicksearch |-> Just("crash")]),
   Given("search", [savedsearch |-> Just("team"), sharer_id |-> Just("7")])}

MCQueryCommands == Writes \cup Runs \cup Lists \cup Found
MCUnfiltered == {[FromPage("search", MCUrl("host1", <<Pair("limit", "5")>>, "q1")) EXCEPT !.saveAs = <<"">>]}
MCSorted == {[FromPage("search", Charted) EXCEPT !.given = [order |-> Just("severity")]]}

MCStored ==
  {[EmptyQuery EXCEPT !.set = [product |-> Just("p"), limit |-> Just("3")]],
   [set |-> [status |-> Just("NEW"), limit |-> Just("5")],
    raw |-> Select(Charted.pairs, {r \in ToSet(Charted.pairs) : IsRaw(r.key)}), source |-> <<SanitizeUrl(Charted)>>,
    server |-> "s2"]}
MCHosts == [s1 |-> "host1", s2 |-> "host2"]
MCMode == [s1 |-> "hybrid", s2 |-> "xmlrpc"]

MCQueriesInit ==
  /\ QueriesInit /\ queries["mine"] = NoQuery
  /\ queries["q1"].raw = <<>> /\ queries["q2"] # NoQuery => queries["q2"].raw # <<>>
=============================================================================
