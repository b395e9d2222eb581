------------------------------ MODULE MCReads ------------------------------
(* What a client reads, for TLC: the operations and listings of MCSearch, the  *)
(* commands of BugReads, and saved queries.  They share no state: one of the   *)
(* three is at work, and the others stand still.                               *)
EXTENDS MCSearch, BugReads, MCSavedQueries, TLC

\* Four bugs, one with an alias; walks meet cycles, diamonds and dead ends.
MCNodes == 1..4
MCAliases == 11 :> 2
MCRelations == <<"depends_on", "regressed_by">>
MCCore == {"depends_on"}

GraphOf(core, other) ==
  [a \in MCNodes |->
     [r \in ToSet(MCRelations) |->
        {b \in MCNodes : <<a, b>> \in IF r \in MCCore THEN core ELSE other}]]
MCGraphs ==
  {GraphOf(core, other) :
     core \in SUBSET {<<1, 2>>, <<1, 3>>, <<2, 4>>, <<3, 4>>, <<4, 1>>},
     other \in {{}, {<<1, 4>>}}}

Walk(xmlrpc, relations, depths) ==
  [kind : {"links"}, xmlrpc : xmlrpc, auth : {"none"}, names : {<<1>>},
   relation : relations, depth : depths, permissive : {FALSE}]
LookUp(kinds, auth, names, permissive) ==
  [kind : kinds, xmlrpc : {FALSE}, auth : auth, names : names, relation : {"any"},
   depth : {1}, permissive : permissive]
MCCommands ==
  Walk(BOOLEAN, {"any"}, {3}) \cup Walk({FALSE}, {"any", "regressed_by"}, {1})
    \cup LookUp({"adjacency"}, {"key", "token", "none"}, {<<1, 2>>, <<3, 11, 3>>, <<9, 2>>}, {FALSE})
    \cup LookUp({"view"}, {"key"}, {<<1, 11>>, <<2, 2>>}, BOOLEAN)
MCTokens == LookUp({"adjacency"}, {"token"}, {<<1, 2>>}, {FALSE})

\* A walk begins at a bug that can be seen, and meets no bug beyond a hidden one;
\* a look-up does not read the relations.
MCReadsInit ==
  /\ ReadsInit
  /\ IF read.kind = "links"
       THEN /\ open = visible /\ 1 \in open
            /\ 4 \notin open => graph[4] = GraphOf({}, {})[4]
       ELSE graph = GraphOf({}, {}) /\ 4 \notin visible

NoOperation ==
  /\ server = CHOOSE s \in CallServers : TRUE
  /\ matches = [c \in Categories |-> <<>>] /\ first = matches
  /\ op = None /\ route = None /\ result = None /\ tried = <<>> /\ applied = {}
  /\ faults = 0 /\ entered = {} /\ left = {}
  /\ listing = None /\ todo = <<>> /\ offset = 0 /\ pages = 0
  /\ rows = <<>> /\ truncated = FALSE /\ hint = None /\ status = "done" /\ saved = FALSE

\* No command is left, and there is no server.
NoQueries ==
  /\ queries = [n \in QueryNames |-> NoQuery] /\ hosts = <<>>
  /\ runner = [r \in Runners |-> [stage |-> "idle"]] /\ begun = MaxCommands

MCAllSpec ==
  /\ \/ /\ MCListInit \/ (server \in CallServers /\ CallInit)
        /\ NoReads /\ NoQueries
     \/ MCReadsInit /\ NoOperation /\ NoQueries
     \/ MCQueriesInit /\ NoOperation /\ NoReads
  /\ [][\/ Next /\ read = NoRead /\ hosts = <<>> /\ UNCHANGED <<readVars, queryVars>>
        \/ ReadsNext /\ UNCHANGED <<allVars, queryVars>>
        \/ QueriesNext /\ UNCHANGED <<allVars, readVars>>]_<<allVars, readVars, queryVars>>
=============================================================================
