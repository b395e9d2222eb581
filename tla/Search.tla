------------------------------- MODULE Search -------------------------------
(***************************************************************************)
(* The listing commands: bug list, bug search, query run and bug my.       *)
(*                                                                         *)
(* A listing runs one search, bug my up to three, and shows the union.     *)
(* Bugzilla does not say how many bugs match, so a window is read with one *)
(* row more than asked for, and --paginate reads page after page, moving   *)
(* its offset by the rows it received, until a page is empty.  Each page   *)
(* is an operation of Dispatch, over two protocols in Hybrid mode; in      *)
(* between, bugs come to match the search and cease to.                    *)
(*                                                                         *)
(* The other operations of a client run here once, by themselves.          *)
(***************************************************************************)
EXTENDS Dispatch

CONSTANTS Listings,    \* the listings a user may ask for
          Results,     \* what a category may match: sequences of bugs
          MaxU32,      \* the largest offset and limit
          MaxPages,    \* MAX_PAGES
          MaxChanges   \* bound: bugs that enter or leave a result

ListingType ==
  [categories : Seq(Categories),   \* one search each, more than one for bug my
   mode : Modes, key : BOOLEAN, structured : BOOLEAN, raw : BOOLEAN,
   offset : 0..MaxU32,
   limit : 0..MaxU32 \cup {None},  \* None: a stored query may do without
   url : BOOLEAN,                  \* the offset is from a saved URL, not an argument
   paginate : BOOLEAN,
   count : BOOLEAN,                \* --count: ids only, without a window
   save : BOOLEAN]                 \* --save-as

ASSUME SearchAssumption ==
  /\ Listings \subseteq ListingType
  /\ Results \subseteq Seq(Bugs)
  /\ MaxU32 \in Nat /\ MaxPages \in Nat \ {0} /\ MaxChanges \in Nat
  \* ensure_no_paging_with_count; only bug my makes a union, and it saves nothing
  /\ \A l \in Listings : /\ l.categories # <<>>
                         /\ l.count => ~l.paginate /\ l.offset = 0
                         /\ Len(l.categories) > 1 => ~l.save

VARIABLES
  listing,    \* the listing under way, or None
  todo,       \* the categories not yet read; the first is being read
  offset,     \* of the page under way
  pages,      \* pages read of this category
  rows,       \* what is shown, or will be
  truncated,  \* more is available
  hint,       \* the offset the user is told to go on at, or None
  status,     \* "running", "shown", "done" or "failed"
  saved,      \* the query is in the configuration
  first,      \* matches when the listing began (history)
  entered,    \* bugs that came to match since (history)
  left        \* and bugs that ceased to (history)

listVars == <<listing, todo, offset, pages, rows, truncated, hint, status, saved>>
worldVars == <<first, entered, left>>
allVars == <<vars, listVars, worldVars>>

\* bug my counts and shows a bug once, however many categories it is in.
Union(s, t) ==
  IF Len(listing.categories) = 1 THEN s \o t
  ELSE LET seen[n \in 0..Len(t)] ==
             IF n = 0 THEN s
             ELSE IF t[n] \in ToSet(seen[n - 1]) THEN seen[n - 1] ELSE Append(seen[n - 1], t[n])
       IN  seen[Len(t)]

\* The request for one page.
Request(l, category, from, size) ==
  [kind |-> "search", mode |-> l.mode, key |-> l.key, named |-> FALSE,
   structured |-> l.structured, raw |-> l.raw,
   category |-> category, offset |-> from, limit |-> size]

\* 0 or none at all: all that match, in one answer.
Limit == IF listing.count \/ listing.limit = None THEN 0 ELSE listing.limit

\* Mutant of PageSize: the window is read as it was asked for.
PageSizeExact == Limit

\* fetch_page reads a window with one row more, to see whether there are more.
PageSize == IF listing.paginate \/ Limit = 0 THEN Limit ELSE Limit + 1

\* validate_page_window, and what cannot be calculated in 32 bits.
Refused ==
  \/ ~listing.count /\ listing.limit = 0 /\ listing.offset > 0
  \/ ~listing.paginate /\ Limit > 0 /\ (Limit = MaxU32 \/ listing.offset + Limit > MaxU32)

SearchInit ==
  /\ server \in Servers
  /\ route = None /\ result = None /\ tried = <<>> /\ applied = {}
  /\ faults = 0 /\ op = None
  /\ matches \in [Categories -> Results]
  /\ first = matches /\ entered = {} /\ left = {}
  /\ listing \in Listings
  /\ todo = listing.categories
  /\ offset = listing.offset /\ pages = 0
  /\ rows = <<>> /\ truncated = FALSE /\ hint = None /\ status = "running" /\ saved = FALSE

\* No listing: one of the other operations.
CallInit ==
  /\ Init
  /\ first = matches /\ entered = {} /\ left = {}
  /\ listing = None
  /\ todo = <<>> /\ offset = 0 /\ pages = 0
  /\ rows = <<>> /\ truncated = FALSE /\ hint = None /\ status = "done" /\ saved = FALSE

Running == listing # None /\ status = "running"
Stop(s) == status' = s

\* The next page is asked for.
Ask ==
  /\ Running /\ todo # <<>> /\ op = None /\ ~Refused
  /\ Begin(Request(listing, Head(todo), offset, PageSize))
  /\ UNCHANGED <<server, matches, faults, listVars, worldVars>>

\* The command is refused before it asks anything.
Refuse ==
  /\ Running /\ todo # <<>> /\ op = None /\ Refused
  /\ Stop("failed")
  /\ UNCHANGED <<vars, worldVars, listing, todo, offset, pages, rows, truncated, hint, saved>>

Returned == Running /\ op # None /\ result # None
Back ==
  /\ op' = None /\ route' = None /\ result' = None /\ tried' = <<>> /\ applied' = {}
  /\ UNCHANGED <<server, matches, faults>>

\* An error ends the command: what was read is not shown.
PageFails ==
  /\ Returned /\ result.error # None
  /\ Back /\ Stop("failed")
  /\ UNCHANGED <<worldVars, listing, todo, offset, pages, rows, truncated, hint, saved>>

NextCategory ==
  /\ todo' = Tail(todo)
  /\ offset' = listing.offset
  /\ pages' = 0

\* The one window of a listing without --paginate.
WindowRead ==
  /\ Returned /\ result.error = None /\ ~listing.paginate
  /\ LET more == Limit > 0 /\ Len(result.rows) > Limit
     IN  /\ rows' = Union(rows, IF more THEN SubSeq(result.rows, 1, Limit) ELSE result.rows)
         /\ truncated' = (truncated \/ more)
  /\ Back /\ NextCategory
  /\ UNCHANGED <<worldVars, listing, status, saved, hint>>

\* Mutant of PageRead: a page shorter than the limit is the last one.
PageReadShort ==
  /\ Returned /\ result.error = None /\ listing.paginate
  /\ rows' = Union(rows, result.rows)
  /\ Back
  /\ IF Limit = 0 \/ Len(result.rows) < Limit
     THEN NextCategory /\ UNCHANGED status
     ELSE /\ pages' = pages + 1
          /\ IF offset + Len(result.rows) > MaxU32 \/ pages' = MaxPages
             THEN Stop("failed") /\ UNCHANGED <<offset, todo>>
             ELSE offset' = offset + Len(result.rows) /\ UNCHANGED <<todo, status>>
  /\ UNCHANGED <<worldVars, listing, truncated, saved, hint>>

\* A page of --paginate.  An empty one is the last; without a limit there is only
\* one.  No page follows the last that MAX_PAGES allows.
PageRead ==
  /\ Returned /\ result.error = None /\ listing.paginate
  /\ rows' = Union(rows, result.rows)
  /\ Back
  /\ IF Limit = 0 \/ result.rows = <<>>
     THEN NextCategory /\ UNCHANGED status
     ELSE /\ pages' = pages + 1
          /\ IF offset + Len(result.rows) > MaxU32 \/ pages' = MaxPages
             THEN Stop("failed") /\ UNCHANGED <<offset, todo>>
             ELSE offset' = offset + Len(result.rows) /\ UNCHANGED <<todo, status>>
  /\ UNCHANGED <<worldVars, listing, truncated, saved, hint>>

\* The rows are written and, if there are more, where to go on: after the window,
\* which is taken to begin at the offset the command was given.
Show ==
  /\ Running /\ todo = <<>>
  /\ Stop("shown")
  /\ LET given == IF listing.url THEN 0 ELSE listing.offset
     IN  hint' = IF truncated /\ given + Limit <= MaxU32 THEN given + Limit ELSE None
  /\ UNCHANGED <<vars, worldVars, listing, todo, offset, pages, rows, truncated, saved>>

\* The query is saved before the command ends; the file may not be writable.
Save ==
  /\ listing # None /\ status = "shown"
  /\ \/ ~listing.save /\ Stop("done") /\ UNCHANGED saved
     \/ listing.save /\ Stop("done") /\ saved' = TRUE
     \/ listing.save /\ Stop("failed") /\ UNCHANGED saved
  /\ UNCHANGED <<vars, worldVars, listing, todo, offset, pages, rows, truncated, hint>>

\* A page under way: its legs are Dispatch's.
PageLeg == Leg /\ UNCHANGED <<listVars, worldVars>>

Changes == Running /\ Cardinality(entered) + Cardinality(left) < MaxChanges

\* A bug comes to match, anywhere in the order of the search.
Enter ==
  /\ Changes
  /\ \E c \in ToSet(listing.categories), b \in Bugs :
       /\ b \notin ToSet(matches[c])
       /\ b \notin left
       /\ \E i \in 1..Len(matches[c]) + 1 :
            matches' = [matches EXCEPT ![c] = InsertAt(@, i, b)]
       /\ entered' = entered \cup {b}
  /\ UNCHANGED <<server, callVars, faults, listVars, first, left>>

\* A bug ceases to match.
Leave ==
  /\ Changes
  /\ \E c \in ToSet(listing.categories) : \E b \in ToSet(matches[c]) :
       /\ matches' = [matches EXCEPT ![c] = Select(@, Bugs \ {b})]
       /\ left' = left \cup {b}
  /\ UNCHANGED <<server, callVars, faults, listVars, first, entered>>

Next ==
  \/ Ask \/ Refuse \/ PageLeg
  \/ PageFails \/ WindowRead \/ PageRead
  \/ Show \/ Save
  \/ Enter \/ Leave

SearchSpec == (SearchInit \/ CallInit) /\ [][Next]_allVars

-----------------------------------------------------------------------------
(* Properties *)

ListTypeOK ==
  /\ TypeOK
  /\ listing \in ListingType \cup {None}
  /\ todo \in Seq(Categories) /\ rows \in Seq(Bugs)
  /\ offset \in 0..MaxU32 /\ pages \in 0..MaxPages
  /\ truncated \in BOOLEAN /\ saved \in BOOLEAN /\ hint \in 0..MaxU32 \cup {None}
  /\ status \in {"running", "shown", "done", "failed"}

Shown == listing # None /\ status \in {"shown", "done"}

\* REST and XML-RPC know the caller alike, and filters REST does not honour go to
\* XML-RPC.
Agreed ==
  /\ listing.mode = "hybrid" /\ listing.key => server.header
  /\ listing.structured /\ ~server.filters => listing.mode # "rest" /\ ~listing.raw

\* The pages of a listing show one result: nor did a retry run out of time.
OneView == Agreed /\ faults = 0

\* A bound of the server's on an answer without a limit goes unnoticed.
Bounded == server.clamp = 0 \/ Limit > 0

\* What of the matches s the caller may see.
Seen(s) ==
  LET known == listing.key /\ (server.header \/ (listing.mode = "xmlrpc" /\ ~listing.raw))
  IN  Select(s, IF known THEN Bugs ELSE Bugs \ Private)

\* --paginate "returns every match or errors": no bug that matched from beginning
\* to end is missing, whatever else came to match while the pages were read.
NothingMissed ==
  Shown /\ listing.paginate /\ OneView /\ Bounded /\ left = {}
    => \A i \in DOMAIN listing.categories :
         LET s == Seen(first[listing.categories[i]])
         IN  \A j \in DOMAIN s : j > listing.offset => s[j] \in ToSet(rows)

\* No bug is listed twice, unless one came to match while the pages were read or
\* Hybrid mode read some pages over REST and others over XML-RPC.
NothingTwice ==
  Shown /\ OneView /\ entered = {} => IsInjective(rows)

\* A listing says that more is available exactly when there is more.  A server
\* that returns less than the one row over the limit hides it.
TruncatedTrue ==
  (Shown /\ ~listing.paginate /\ Limit > 0 /\ OneView /\ entered = {} /\ left = {})
    => LET more == \E i \in DOMAIN listing.categories :
                     Len(Seen(matches[listing.categories[i]])) > listing.offset + Limit
       IN  /\ truncated => more
           /\ (server.clamp = 0 \/ server.clamp > Limit) => (more => truncated)

\* "--offset {next} for the next page": the hint is where the window ended.  Fails
\* when the offset came from a URL (README.md, Further counterexamples).
HintContinues == hint # None => hint = listing.offset + Limit

\* The code's promise when a retry may run out of time.  Fails, though no bug comes
\* or goes (README.md, Further counterexamples).
EveryMatchOrError ==
  Shown /\ listing.paginate /\ Agreed /\ Bounded /\ entered = {} /\ left = {}
    => \A i \in DOMAIN listing.categories :
         LET s == Seen(first[listing.categories[i]])
         IN  \A j \in DOMAIN s : j > listing.offset => s[j] \in ToSet(rows)
=============================================================================
