------------------------------ MODULE MCSearch ------------------------------
(* Small instances of Search for TLC: every operation of a client at every     *)
(* server that could matter to it, and listings of up to two searches over     *)
(* three bugs, at servers that differ in what matters to a search.             *)
EXTENDS Search

CONSTANTS b1, b2, b3
MCBugs == {b1, b2, b3}
MCPrivate == {b2}

Plain(kinds) ==
  [kind : kinds, mode : Modes, key : BOOLEAN, named : BOOLEAN, structured : {FALSE},
   raw : {FALSE}, category : {None}, offset : {0}, limit : {0}]
MCOperations == Plain(Kinds \ {"search"})

\* All the servers of ServerType that answer a search in full.
CallServers ==
  [target : {"public", "private", "absent"}, header : BOOLEAN, xmlrpc : BOOLEAN,
   crashes : {"never", "direct", "both"}, blocks : BOOLEAN, endpoints : BOOLEAN,
   filters : {TRUE}, clamp : {0}]

ListServers ==
  [target : {"public"}, header : BOOLEAN, xmlrpc : BOOLEAN, crashes : {"never"},
   blocks : {FALSE}, endpoints : {TRUE}, filters : BOOLEAN, clamp : {0, 1}]
MCServers == CallServers \cup ListServers

\* The bugs of a result are in the order of their ids; one may come to match late.
MCResults == {<<>>, <<b1, b2>>, <<b1, b2, b3>>}
List(categories, modes, structured, offsets, limits, paginate) ==
  [categories : categories, mode : modes, key : {TRUE}, structured : structured,
   raw : {FALSE}, offset : offsets, limit : limits, url : {FALSE},
   paginate : paginate, count : {FALSE}, save : {FALSE}]
One == {<<"assignee">>}
Two == {<<"assignee", "cc">>}
Anonymous(l) == [l EXCEPT !.key = FALSE]
Raw(l)       == [l EXCEPT !.raw = TRUE]
FromUrl(l)   == [l EXCEPT !.url = TRUE]
Count(l)     == [l EXCEPT !.count = TRUE]
Saved(l)     == [l EXCEPT !.save = TRUE]
MCListings ==
  List(One, {"hybrid"}, BOOLEAN, {0}, {0, 1, 2}, BOOLEAN)
    \cup List(One, {"hybrid"}, {TRUE}, {1}, {1, 2}, BOOLEAN)
    \cup List(One, {"rest", "xmlrpc"}, {TRUE}, {0}, {1, 2}, BOOLEAN)
    \cup {Anonymous(l) : l \in List(One, {"hybrid"}, {TRUE}, {0}, {1}, {TRUE})}
    \cup {Raw(l) : l \in List(One, {"xmlrpc", "hybrid"}, {TRUE}, {0}, {1}, {TRUE})}
    \cup {Saved(l) : l \in List(One, {"rest"}, {FALSE}, {0, 4}, {2, 6}, BOOLEAN)}
    \cup List(One, {"rest"}, {FALSE}, {1}, {0, None}, BOOLEAN)
    \cup {FromUrl(l) : l \in List(One, {"rest"}, {FALSE}, {1}, {1}, {FALSE})}
    \cup {Count(l) : l \in List(One \cup Two, {"hybrid"}, {TRUE}, {0}, {1}, {FALSE})}
    \cup List(Two, {"hybrid"}, {TRUE}, {0}, {1}, BOOLEAN)

\* A listing meets the servers that matter to it, and two results if it reads two.
MCListInit ==
  /\ server \in ListServers
  /\ SearchInit
  /\ Len(listing.categories) = 1 => matches["cc"] = <<>>
  /\ Len(listing.categories) = 2 => server.xmlrpc
=============================================================================
