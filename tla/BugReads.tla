------------------------------ MODULE BugReads ------------------------------
(***************************************************************************)
(* The commands that read several bugs one after the other (commands/bug): *)
(* links walks the relations of a bug breadth first, adjacency and view    *)
(* look up bugs by number and alias.                                       *)
(*                                                                         *)
(* A walk reads a layer of bugs in chunks over REST, one by one over       *)
(* XML-RPC; REST leaves out the bugs the caller may not see, XML-RPC       *)
(* answers with a fault.  Meanwhile others edit relations, hide and open   *)
(* bugs, and revoke the user's credentials, whereupon the server takes the *)
(* user for anyone.                                                        *)
(***************************************************************************)
EXTENDS Integers, SequencesExt, Selection

CONSTANTS
  Nodes,          \* the bugs there are, numbers
  Aliases,        \* the bug of an alias: a function; aliases sort after numbers
  Relations,      \* the kinds of relation in the order of a walk, a sequence
  CoreRelations,  \* those that a Bug of XML-RPC has
  Graphs,         \* the relations there may be at first
  Reads,          \* the commands
  MaxRelated,     \* LINKS_MAX_NODES
  ChunkSize,      \* LINKS_ID_CHUNK
  NoRead,         \* no command
  MaxEdits        \* bound: what others do meanwhile

Graph == [Nodes -> [ToSet(Relations) -> SUBSET Nodes]]

ReadType ==
  [kind : {"links", "adjacency", "view"}, xmlrpc : BOOLEAN,
   auth : {"key", "token", "none"},
   names : Seq(Nat),                      \* numbers and aliases; of links, the root
   relation : ToSet(Relations) \cup {"any"},
   depth : Nat, permissive : BOOLEAN]

ASSUME BugReadsAssumption ==
  /\ Nodes \subseteq Nat /\ IsFiniteSet(Nodes)
  /\ Relations \in Seq(ToSet(Relations)) /\ CoreRelations \subseteq ToSet(Relations)
  /\ Graphs \subseteq Graph
  /\ NoRead \notin Reads
  /\ \A r \in Reads : r \in ReadType
  /\ MaxRelated \in Nat \ {0} /\ ChunkSize \in Nat \ {0} /\ MaxEdits \in Nat

VARIABLES
  read,      \* the command under way, or NoRead
  phase,     \* "root", "discover", "fetch", "lookup", "prove", "done", "failed"
  layer,     \* links: the bugs last read, as they were
  visited,   \* links: the bugs met so far
  frontier,  \* links: those met in this layer, <<bug, relation>>
  pending,   \* links: those of them still to be read
  depth,     \* links: the depth of the frontier
  capped,    \* links: more bugs than MaxRelated
  links,     \* links: the result, [id, depth]
  outcomes,  \* the others: what was found out about each key looked up
  graph,     \* the relations of the bugs
  visible,   \* the bugs the user may see
  open,      \* and those that anyone may
  valid,     \* the server accepts the user's credentials
  edits      \* what others have done

walkVars == <<layer, visited, frontier, pending, depth, capped, links>>
siteVars == <<graph, visible, open, valid, edits>>
readVars == <<read, phase, walkVars, outcomes, siteVars>>

-----------------------------------------------------------------------------
WalkIdle ==
  /\ layer = {} /\ visited = {} /\ frontier = <<>> /\ pending = <<>>
  /\ depth = 0 /\ capped = FALSE /\ links = <<>>

ReadsInit ==
  /\ read \in Reads
  /\ phase = IF read.kind = "links" THEN "root" ELSE "lookup"
  /\ WalkIdle /\ outcomes = <<>>
  /\ graph \in Graphs
  /\ visible \in SUBSET Nodes /\ open \in SUBSET visible
  /\ valid = (read.auth # "none") /\ edits = 0

NoReads ==
  /\ read = NoRead /\ phase = "done"
  /\ WalkIdle /\ outcomes = <<>>
  /\ graph = CHOOSE g \in Graphs : TRUE
  /\ visible = {} /\ open = {} /\ valid = FALSE /\ edits = 0

Reading == read # NoRead /\ phase \notin {"done", "failed"}

Sees(b) == b \in (IF valid THEN visible ELSE open)

\* Any request may fail, and the command with it.
ReadFails ==
  /\ Reading /\ phase # "discover"
  /\ phase' = "failed"
  /\ UNCHANGED <<read, walkVars, outcomes, siteVars>>

-----------------------------------------------------------------------------
(* bug links *)

RootBug == read.names[1]

\* A bug as it is read: XML-RPC knows the core relations only.
Node(b) ==
  [id |-> b,
   out |-> [r \in ToSet(Relations) |->
              IF read.xmlrpc /\ r \notin CoreRelations THEN {} ELSE graph[b][r]]]

\* The root is read where a hidden bug is an error.
ReadRoot ==
  /\ phase = "root" /\ read # NoRead
  /\ Sees(RootBug)
  /\ layer' = {Node(RootBug)}
  /\ visited' = {RootBug}
  /\ phase' = "discover"
  /\ UNCHANGED <<read, frontier, pending, depth, capped, links, outcomes, siteVars>>

\* A set of numbers from the least to the greatest.
InOrder(S) ==
  [n \in 1..Cardinality(S) |-> CHOOSE x \in S : Cardinality({y \in S : y <= x}) = n]

\* BugLinksNode::edges: by relation, then by number.
Edges(node) ==
  FlattenSeq([n \in DOMAIN Relations |->
    IF read.relation \in {"any", Relations[n]}
      THEN LET ids == InOrder(node.out[Relations[n]])
           IN  [m \in DOMAIN ids |-> <<ids[m], Relations[n]>>]
      ELSE <<>>])

\* The edges of a layer, by the number of the bug they leave from.
LayerEdges ==
  LET ids == InOrder({n.id : n \in layer})
  IN  FlattenSeq([m \in DOMAIN ids |-> Edges(CHOOSE n \in layer : n.id = ids[m])])

\* Mutant of Meet: it stops at the bug that reaches the cap, not after it.
MeetCapped(met, e) ==
  IF met.capped \/ e[1] \in met.visited THEN met
  ELSE IF Cardinality(met.visited) >= MaxRelated THEN [met EXCEPT !.capped = TRUE]
  ELSE [met EXCEPT !.visited = @ \cup {e[1]}, !.frontier = Append(@, e)]

\* An edge is followed to a bug not met before, until there are too many of them;
\* the root is among those met.
Meet(met, e) ==
  IF met.capped \/ e[1] \in met.visited THEN met
  ELSE IF Cardinality(met.visited) > MaxRelated THEN [met EXCEPT !.capped = TRUE]
  ELSE [met EXCEPT !.visited = @ \cup {e[1]}, !.frontier = Append(@, e)]

Met ==
  LET edges == LayerEdges
      met[n \in 0..Len(edges)] ==
        IF n = 0 THEN [visited |-> visited, frontier |-> <<>>, capped |-> FALSE]
        ELSE Meet(met[n - 1], edges[n])
  IN  met[Len(edges)]

Over == capped \/ depth = read.depth

\* The next layer, unless the walk is over.
Discover ==
  /\ phase = "discover"
  /\ LET met == IF Over THEN [visited |-> visited, frontier |-> <<>>, capped |-> capped]
                        ELSE Met
     IN  /\ visited' = met.visited
         /\ frontier' = met.frontier
         /\ capped' = met.capped
         /\ pending' = [n \in DOMAIN met.frontier |-> met.frontier[n][1]]
         /\ IF met.frontier = <<>>
              THEN phase' = "done" /\ UNCHANGED depth
              ELSE phase' = "fetch" /\ depth' = depth + 1
  /\ layer' = {}
  /\ UNCHANGED <<read, links, outcomes, siteVars>>

Chunk == LET n == IF read.xmlrpc THEN 1 ELSE ChunkSize
         IN  SubSeq(pending, 1, IF n < Len(pending) THEN n ELSE Len(pending))

\* A chunk is read; what the caller may not see is left out, over XML-RPC a fault.
FetchChunk ==
  /\ phase = "fetch" /\ pending # <<>>
  /\ read.xmlrpc => Sees(pending[1])
  /\ layer' = layer \cup { Node(b) : b \in { c \in ToSet(Chunk) : Sees(c) } }
  /\ pending' = SubSeq(pending, Len(Chunk) + 1, Len(pending))
  /\ UNCHANGED <<read, phase, visited, frontier, depth, capped, links, outcomes, siteVars>>

\* The whole layer is read: its bugs join the result in the order they were met.
LayerRead ==
  /\ phase = "fetch" /\ pending = <<>>
  /\ LET there == Select(frontier, {e \in ToSet(frontier) : \E n \in layer : n.id = e[1]})
     IN  links' = links \o [n \in DOMAIN there |-> [id |-> there[n][1], depth |-> depth]]
  /\ phase' = "discover"
  /\ UNCHANGED <<read, layer, visited, frontier, pending, depth, capped, outcomes, siteVars>>

-----------------------------------------------------------------------------
(* bug adjacency and bug view *)

\* What is looked up: for adjacency each number and each alias once, in order; for
\* view each name.
Lookups ==
  IF read.kind = "adjacency" THEN InOrder(ToSet(read.names)) ELSE read.names

BugOf(key) == IF key \in DOMAIN Aliases THEN Aliases[key] ELSE key

Key == Lookups[Len(outcomes) + 1]

\* What the server says of a key, and whether the user might have seen its bug.
Answered ==
  LET b == BugOf(Key)
  IN  [key |-> Key, mine |-> b \in visible,
       said |-> CASE b \notin Nodes -> "not found"
                  [] b \in Nodes /\ Sees(b) -> "found"
                  [] OTHER -> "inaccessible"]

NextLookup(found) == phase' = IF Len(found) < Len(Lookups) THEN "lookup" ELSE "done"

\* A bug, or a fault about it that the command may note and go on.
Lookup ==
  /\ phase = "lookup" /\ read # NoRead
  /\ Answered.said = "found" \/ read.kind = "adjacency" \/ read.permissive
  /\ outcomes' = Append(outcomes, Answered)
  /\ IF read.kind = "adjacency" /\ Answered.said = "inaccessible" /\ read.auth = "key"
       THEN phase' = "prove"
       ELSE NextLookup(outcomes')
  /\ UNCHANGED <<read, walkVars, siteVars>>

\* Mutant of Prove: one proof is enough for a command.
ProveOnce ==
  /\ phase = "prove"
  /\ valid \/ \E n \in 1..(Len(outcomes) - 1) : outcomes[n].said = "inaccessible"
  /\ NextLookup(outcomes)
  /\ UNCHANGED <<read, walkVars, outcomes, siteVars>>

\* prove_current_credentials: "inaccessible" counts if the key is still accepted.
Prove ==
  /\ phase = "prove"
  /\ valid
  /\ NextLookup(outcomes)
  /\ UNCHANGED <<read, walkVars, outcomes, siteVars>>

-----------------------------------------------------------------------------
(* Others, while the command runs. *)

Edit == Reading /\ edits < MaxEdits /\ edits' = edits + 1

EditRelation ==
  /\ Edit
  /\ read.kind = "links"
  /\ \E a, b \in Nodes, r \in ToSet(Relations) :
       graph' = [graph EXCEPT ![a][r] = IF b \in @ THEN @ \ {b} ELSE @ \cup {b}]
  /\ UNCHANGED <<read, phase, walkVars, outcomes, visible, open, valid>>

EditVisibility ==
  /\ Edit
  /\ \E b \in Nodes :
       \/ visible' = visible \cup {b} /\ open' \in {open, open \cup {b}}
       \/ visible' = visible \ {b} /\ open' = open \ {b}
  /\ UNCHANGED <<read, phase, walkVars, outcomes, graph, valid>>

Revoke ==
  /\ Edit
  /\ valid /\ valid' = FALSE
  /\ UNCHANGED <<read, phase, walkVars, outcomes, graph, visible, open>>

ReadsNext ==
  \/ ReadRoot \/ Discover \/ FetchChunk \/ LayerRead
  \/ Lookup \/ Prove \/ ReadFails
  \/ EditRelation \/ EditVisibility \/ Revoke

ReadsSpec == ReadsInit /\ [][ReadsNext]_readVars

-----------------------------------------------------------------------------
(* Properties *)

ReadsTypeOK ==
  /\ read \in Reads \cup {NoRead}
  /\ phase \in {"root", "discover", "fetch", "lookup", "prove", "done", "failed"}
  /\ visited \subseteq Nodes
  /\ \A n \in DOMAIN frontier : frontier[n] \in Nodes \X ToSet(Relations)
  /\ pending \in Seq(Nodes)
  /\ depth \in Nat /\ capped \in BOOLEAN
  /\ \A n \in DOMAIN links : links[n] \in [id : Nodes, depth : Nat]
  /\ graph \in Graph /\ open \subseteq visible /\ visible \subseteq Nodes
  /\ valid \in BOOLEAN /\ edits \in 0..MaxEdits

Walked == read # NoRead /\ read.kind = "links" /\ phase = "done"

\* The relations of the walk, over the protocol it uses.
Followed ==
  { r \in ToSet(Relations) :
      /\ read.relation \in {"any", r}
      /\ read.xmlrpc => r \in CoreRelations }

\* The bugs at most n steps from the root, through bugs the user sees.
Ball[n \in 0..read.depth] ==
  IF n = 0 THEN {RootBug}
  ELSE Ball[n - 1] \cup
       UNION { UNION { graph[a][r] : r \in Followed } : a \in { b \in Ball[n - 1] : Sees(b) } }

\* A walk that nothing was changed under lists what it should: every bug the user
\* sees within the depth asked for, each at its least distance from the root; it
\* stops short, and says so, only if there are more related bugs than the cap.
LinksExact ==
  Walked /\ edits = 0 =>
    IF capped
      THEN /\ Cardinality(visited) = MaxRelated + 1
           /\ Cardinality(Ball[read.depth]) > MaxRelated + 1
      ELSE { <<links[n].id, links[n].depth>> : n \in DOMAIN links } =
             { <<b, CHOOSE d \in 1..read.depth : b \in Ball[d] /\ b \notin Ball[d - 1]>> :
                 b \in { c \in Ball[read.depth] \ {RootBug} : Sees(c) } }

\* Whatever others do meanwhile, a walk ends, within the depth asked for, with
\* every bug listed once and the root not at all.
LinksOnce ==
  read # NoRead /\ read.kind = "links" =>
    /\ \A m, n \in DOMAIN links : links[m].id = links[n].id => m = n
    /\ \A n \in DOMAIN links : links[n].id # RootBug /\ links[n].depth \in 1..read.depth
    /\ Cardinality(visited) <= MaxRelated + 1

\* With an API key, a bug reported inaccessible is one the user may not see: a
\* server that has ceased to accept the key and takes the user for anyone is found
\* out before the report (collect_one, prove_current_credentials).
InaccessibleProven ==
  read # NoRead /\ read.kind = "adjacency" /\ read.auth = "key" /\ phase = "done" =>
    \A n \in DOMAIN outcomes : outcomes[n].said = "inaccessible" => ~outcomes[n].mine

\* The same of a session token.
TokenInaccessibleProven ==
  read # NoRead /\ read.kind = "adjacency" /\ read.auth = "token" /\ phase = "done" =>
    \A n \in DOMAIN outcomes : outcomes[n].said = "inaccessible" => ~outcomes[n].mine
=============================================================================
