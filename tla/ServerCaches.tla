----------------------------- MODULE ServerCaches -----------------------------
(***************************************************************************)
(* What bzr remembers of a server: the vendor extensions it advertises     *)
(* (capability.rs) and the bug fields it declares (field_catalogue.rs).    *)
(*                                                                         *)
(* Both caches live in the server's entry of config.toml, are read without *)
(* the lock, are filled by a probe of the client's URL and are written     *)
(* under the lock into whatever the entry is by then.  Each carries the    *)
(* URL it is said to describe.  A command connects, to the server it names *)
(* or to the default, asks one question and sends its request only after   *)
(* the answer "pass".                                                      *)
(*                                                                         *)
(* A server's fields may grow; its extensions do not change.  A server     *)
(* given by --server-url has no entry and so no cache: it is left out.     *)
(***************************************************************************)
EXTENDS Naturals, FiniteSets

CONSTANTS Procs,        \* bzr processes
          None,         \* no entry, no name, nothing cached
          Servers,      \* names of servers
          Urls,         \* servers the names may point at
          Caps,         \* extension names
          Known,        \* KNOWN_CAPABILITIES of the bzr each process runs
          Advertised,   \* the extensions each server has
          Names,        \* bug field names other than BUG_FIELDS
          InitDeclared, \* what servers may declare of them at first
          MaxCached,    \* MAX_CACHED_FIELD_NAMES
          MaxCommands,  \* bound: commands run
          MaxMoves      \* bound: changes of the configuration and of servers

\* ServerConfig, as far as the caches go: an answer, the URL it is from (None if
\* nothing is cached), and the capabilities it was asked for.
Entry == [url : Urls,
          extensions : SUBSET Caps, extensionsUrl : Urls \cup {None},
          extensionsKnown : SUBSET Caps,
          names : SUBSET Names, namesUrl : Urls \cup {None}]

ASSUME ServerCachesAssumption ==
  /\ None \notin Urls \cup Servers
  /\ Known \in [Procs -> SUBSET Caps]
  /\ Advertised \in [Urls -> SUBSET Caps]
  /\ Caps \cap Names = {}
  /\ InitDeclared \subseteq [Urls -> SUBSET Names]
  /\ None \notin Entry
  /\ MaxCached \in Nat /\ MaxCommands \in Nat /\ MaxMoves \in Nat

VARIABLES
  entries,      \* the servers' entries in config.toml
  default,      \* default_server
  declared,     \* the fields each server has
  pc,           \* each process's next step
  client,       \* the URL its client was built for
  target,       \* the name it reads and writes the cache by; until a gate
                \* has read it, the name given (None for the default)
  asked,        \* the capability, or the field names, it asks about
  answer,       \* what its probe returned
  verdict,      \* how its last command's question was answered
  born,         \* the server's fields when the command started (history)
  pointed,      \* URLs its server has had until it read the cache (history)
  mislabelled,  \* a catalogue was stored under another server's URL (history)
  commands, moves

config == <<entries, default>>
bound == <<client, asked, born, pointed>>
localVars == <<pc, target, answer, verdict, bound>>
vars == <<config, declared, localVars, mislabelled, commands, moves>>

\* set-server replaces the entry and resets what was detected.
Fresh(u) == [url |-> u, extensions |-> {}, extensionsUrl |-> None,
             extensionsKnown |-> {}, names |-> {}, namesUrl |-> None]

\* resolve_server_name_only
Named(s, d) == IF s = None THEN d ELSE s

\* The URL that name s has in entries es, if it has one.
UrlOf(es, s) == IF s = None \/ es[s] = None THEN {} ELSE {es[s].url}

Goto(p, from, to) == pc[p] = from /\ pc' = [pc EXCEPT ![p] = to]

\* The question is answered and the command goes on, or fails.
Conclude(p, from, v) ==
  /\ Goto(p, from, "idle")
  /\ verdict' = [verdict EXCEPT ![p] = v]
  /\ target' = [target EXCEPT ![p] = None]
  /\ answer' = [answer EXCEPT ![p] = {}]

\* The command goes on with the probe.
Ask(p, from, to) == Goto(p, from, to) /\ UNCHANGED <<verdict, answer>>

-----------------------------------------------------------------------------
(* Commands *)

\* connect_and_configure: the client is built for the URL of the server named,
\* or of the default.
Connect(p) ==
  /\ commands < MaxCommands
  /\ commands' = commands + 1
  /\ \/ /\ Goto(p, "idle", "gate")
        /\ \E c \in Known[p] : asked' = [asked EXCEPT ![p] = {c}]
     \/ /\ Goto(p, "idle", "fields")
        /\ \E K \in (SUBSET Names) \ {{}} : asked' = [asked EXCEPT ![p] = K]
  /\ \E f \in Servers \cup {None} :
       LET s == Named(f, default)
           u == entries[s].url
       IN  /\ s # None /\ entries[s] # None
           /\ target' = [target EXCEPT ![p] = IF pc'[p] = "gate" THEN f ELSE s]
           /\ client' = [client EXCEPT ![p] = u]
           /\ born' = [born EXCEPT ![p] = declared[u]]
           /\ pointed' = [pointed EXCEPT ![p] = {u}]
  /\ verdict' = [verdict EXCEPT ![p] = "none"]
  /\ UNCHANGED <<config, declared, answer, mislabelled, moves>>

\* Mutant of Cached: the list of known capabilities is not compared.
CachedAnyList(p, s) ==
  s # None /\ entries[s] # None /\ entries[s].extensionsUrl = entries[s].url

\* The cached extensions of name s count only for its own URL and for the list
\* of capabilities this bzr knows.
Cached(p, s) ==
  /\ s # None /\ entries[s] # None
  /\ entries[s].extensionsUrl = entries[s].url
  /\ entries[s].extensionsKnown = Known[p]

Advertises(p, extensions) == IF asked[p] \subseteq extensions THEN "pass" ELSE "refuse"

\* cached_server_name_and_extensions: the name is resolved again, which since
\* the command connected may have become another default.  A hit answers at once.
GateRead(p) ==
  LET s == Named(target[p], default) IN
  /\ \/ /\ Cached(p, s)
        /\ Conclude(p, "gate", Advertises(p, entries[s].extensions))
     \/ /\ ~Cached(p, s)
        /\ Ask(p, "gate", "gateProbe")
        /\ target' = [target EXCEPT ![p] = IF UrlOf(entries, s) = {} THEN None ELSE s]
  /\ UNCHANGED <<config, declared, bound, mislabelled, commands, moves>>

\* resolve_extensions: what the client's server advertises, cut down to what
\* this bzr knows.  A failed probe is no answer.
GateProbe(p) ==
  /\ \/ /\ Goto(p, "gateProbe", "gatePersist")
        /\ answer' = [answer EXCEPT ![p] = Advertised[client[p]] \cap Known[p]]
        /\ UNCHANGED <<verdict, target>>
     \/ Conclude(p, "gateProbe", "undetermined")
  /\ UNCHANGED <<config, declared, bound, mislabelled, commands, moves>>

WithExtensions(p, e) ==
  [e EXCEPT !.extensions = answer[p], !.extensionsUrl = e.url,
            !.extensionsKnown = Known[p]]

\* persist_extensions: only into an entry that still has the probed URL.  The
\* answer stands whether or not the write succeeds.
GatePersist(p) ==
  /\ Conclude(p, "gatePersist", Advertises(p, answer[p]))
  /\ \/ /\ UrlOf(entries, target[p]) = {client[p]}
        /\ entries' = [entries EXCEPT ![target[p]] = WithExtensions(p, @)]
     \/ UNCHANGED entries
  /\ UNCHANGED <<default, declared, bound, mislabelled, commands, moves>>

\* Mutant of CachedNames: whatever URL the catalogue was stored under.
CachedNamesAnyUrl(s) == IF entries[s] # None THEN entries[s].names ELSE {}

\* cached_names: a catalogue stored under another URL does not count.
CachedNames(s) ==
  IF entries[s] # None /\ entries[s].namesUrl = entries[s].url THEN entries[s].names ELSE {}

\* Mutant of FieldRead: the catalogue also refuses.
FieldReadRefuses(p) ==
  LET cached == CachedNames(target[p]) IN
  /\ pc[p] = "fields"
  /\ \/ cached # {} /\ Conclude(p, "fields", Advertises(p, cached))
     \/ cached = {} /\ Ask(p, "fields", "fieldProbe") /\ UNCHANGED target
  /\ UNCHANGED <<config, declared, bound, mislabelled, commands, moves>>

\* validate_bug_fields: the catalogue cached under the client's server_name can
\* only accept.
FieldRead(p) ==
  LET cached == CachedNames(target[p]) IN
  /\ pc[p] = "fields"
  /\ \/ asked[p] \subseteq cached /\ Conclude(p, "fields", "pass")
     \/ ~(asked[p] \subseteq cached) /\ Ask(p, "fields", "fieldProbe") /\ UNCHANGED target
  /\ UNCHANGED <<config, declared, bound, mislabelled, commands, moves>>

\* bug_field_names, of the client's server.
FieldProbe(p) ==
  /\ \/ /\ Goto(p, "fieldProbe", "fieldPersist")
        /\ answer' = [answer EXCEPT ![p] = declared[client[p]]]
        /\ UNCHANGED <<verdict, target>>
     \/ Conclude(p, "fieldProbe", "undetermined")
  /\ UNCHANGED <<config, declared, bound, mislabelled, commands, moves>>

\* persist_names: a catalogue of moderate size goes into the entry, under the
\* entry's URL of that moment.
FieldPersist(p) ==
  /\ Conclude(p, "fieldPersist", Advertises(p, answer[p]))
  /\ \/ /\ Cardinality(answer[p]) <= MaxCached
        /\ entries[target[p]] # None
        /\ entries' = [entries EXCEPT ![target[p]].names = answer[p],
                                      ![target[p]].namesUrl = entries[target[p]].url]
        /\ mislabelled' = (mislabelled \/ entries[target[p]].url # client[p])
     \/ UNCHANGED <<entries, mislabelled>>
  /\ UNCHANGED <<default, declared, bound, commands, moves>>

\* The process is killed, or fails for another reason.
Stop(p) ==
  /\ pc[p] # "idle"
  /\ Conclude(p, pc[p], "none")
  /\ UNCHANGED <<config, declared, bound, mislabelled, commands, moves>>

-----------------------------------------------------------------------------
(* What happens to the configuration, and to a server, meanwhile *)

\* The name by which a command that has connected will look its answer up.
Looked(p, d) == IF pc[p] = "gate" THEN Named(target[p], d) ELSE target[p]

\* The configuration becomes entries es and default d.
Move(es, d) ==
  /\ moves < MaxMoves
  /\ moves' = moves + 1
  /\ entries' = es /\ default' = d
  /\ pointed' = [p \in Procs |-> IF pc[p] \in {"gate", "fields"}
                                 THEN pointed[p] \cup UrlOf(es, Looked(p, d))
                                 ELSE pointed[p]]
  /\ UNCHANGED <<declared, pc, client, target, asked, answer, verdict, born,
                 mislabelled, commands>>

\* set-server also makes the server the default if there is none.
SetServer(s, u) ==
  Move([entries EXCEPT ![s] = Fresh(u)], IF default = None THEN s ELSE default)

SetDefault(s) == entries[s] # None /\ Move(entries, s)

\* Whether it may go is decided on an earlier snapshot (see ConfigCommands), so
\* that under the lock it may have become the default.
Remove(s) ==
  /\ entries[s] # None
  /\ Move([entries EXCEPT ![s] = None], IF default = s THEN None ELSE default)

\* The user edits a URL in config.toml.
EditUrl(s, u) == entries[s] # None /\ Move([entries EXCEPT ![s].url = u], default)

\* An administrator adds a field to a server.
AddField(u, f) ==
  /\ f \notin declared[u]
  /\ moves < MaxMoves
  /\ moves' = moves + 1
  /\ declared' = [declared EXCEPT ![u] = @ \cup {f}]
  /\ UNCHANGED <<config, localVars, mislabelled, commands>>

Init ==
  /\ entries \in [Servers -> {Fresh(u) : u \in Urls} \cup {None}]
  /\ default \in {s \in Servers : entries[s] # None}
  /\ declared \in InitDeclared
  /\ pc = [p \in Procs |-> "idle"]
  /\ client = [p \in Procs |-> None]
  /\ target = [p \in Procs |-> None]
  /\ asked = [p \in Procs |-> {}]
  /\ answer = [p \in Procs |-> {}]
  /\ verdict = [p \in Procs |-> "none"]
  /\ born = [p \in Procs |-> {}]
  /\ pointed = [p \in Procs |-> {}]
  /\ mislabelled = FALSE
  /\ commands = 0 /\ moves = 0

Step(p) ==
  \/ Connect(p) \/ GateRead(p) \/ GateProbe(p) \/ GatePersist(p)
  \/ FieldRead(p) \/ FieldProbe(p) \/ FieldPersist(p) \/ Stop(p)

Next ==
  \/ \E p \in Procs : Step(p)
  \/ \E s \in Servers, u \in Urls : SetServer(s, u) \/ EditUrl(s, u)
  \/ \E s \in Servers : SetDefault(s) \/ Remove(s)
  \/ \E u \in Urls, f \in Names : AddField(u, f)

Spec == Init /\ [][Next]_vars

-----------------------------------------------------------------------------
(* Properties *)

\* Type invariant.  Only known capabilities are kept, so that a server cannot
\* fill config.toml (KNOWN_CAPABILITIES), and no oversized catalogue
\* (MAX_CACHED_FIELD_NAMES).
Shape(p) ==
  /\ pc[p] \in {"gate", "gateProbe", "gatePersist"} => asked[p] \subseteq Caps
  /\ pc[p] \in {"fields", "fieldProbe", "fieldPersist"} =>
       asked[p] \subseteq Names /\ target[p] # None
  /\ pc[p] = "gatePersist" => answer[p] \subseteq Known[p]
  /\ pc[p] = "fieldPersist" => answer[p] \subseteq Names
  /\ pc[p] # "idle" => asked[p] # {} /\ verdict[p] = "none" /\ client[p] # None

TypeOK ==
  /\ entries \in [Servers -> Entry \cup {None}]
  /\ default \in Servers \cup {None}
  /\ \A s \in Servers : entries[s] # None =>
       /\ entries[s].extensions \subseteq entries[s].extensionsKnown
       /\ Cardinality(entries[s].names) <= MaxCached
  /\ declared \in [Urls -> SUBSET Names]
  /\ pc \in [Procs -> {"idle", "gate", "gateProbe", "gatePersist",
                       "fields", "fieldProbe", "fieldPersist"}]
  /\ client \in [Procs -> Urls \cup {None}]
  /\ target \in [Procs -> Servers \cup {None}]
  /\ asked \in [Procs -> (SUBSET Caps) \cup (SUBSET Names)]
  /\ answer \in [Procs -> (SUBSET Caps) \cup (SUBSET Names)]
  /\ verdict \in [Procs -> {"none", "pass", "refuse", "undetermined"}]
  /\ born \in [Procs -> SUBSET Names]
  /\ pointed \in [Procs -> SUBSET Urls]
  /\ mislabelled \in BOOLEAN
  /\ commands \in 0..MaxCommands /\ moves \in 0..MaxMoves
  /\ \A p \in Procs : Shape(p)

\* A cached capability answer is what the server it is labelled with advertises,
\* of the capabilities it is labelled with (persist_extensions compares the URL
\* under the lock).
CapabilityCacheSound ==
  \A s \in Servers : entries[s] # None /\ entries[s].extensionsUrl # None =>
    entries[s].extensions =
      Advertised[entries[s].extensionsUrl] \cap entries[s].extensionsKnown

\* The gate's answer, from the cache, from a probe and after an upgrade of bzr,
\* is true of the server the command is connected to, or of another to which its
\* name, or the default, was pointed between its connecting and its reading of
\* the cache (require_server_capability): never of a server that the command
\* had nothing to do with.
GateTruthful ==
  \A p \in Procs : asked[p] \in (SUBSET Caps) \ {{}} =>
    /\ verdict[p] = "pass" => \E u \in pointed[p] : asked[p] \subseteq Advertised[u]
    /\ verdict[p] = "refuse" => \E u \in pointed[p] : ~(asked[p] \subseteq Advertised[u])

\* It is true of the server the command is connected to.  It is not if the
\* default is moved in between: a parameter goes out that this server ignores.
GateOfClient ==
  \A p \in Procs : asked[p] \in (SUBSET Caps) \ {{}} /\ verdict[p] = "pass" =>
    asked[p] \subseteq Advertised[client[p]]

\* No key reaches the wire that the server has not declared: "Re-pointing a
\* server name at a different host must not let the old host's catalogue accept
\* a key the new one does not declare" (cached_names).
FieldsTruthful ==
  \A p \in Procs : asked[p] \subseteq Names /\ verdict[p] = "pass" =>
    asked[p] \subseteq declared[client[p]]

\* Keys pass only if they are declared by the server the command is connected to,
\* or by one its name was pointed at between its connecting and its reading of
\* the catalogue - unless persist_names has stored a catalogue in an entry that
\* was re-pointed since the probe.
FieldsTruthfulUnlessMislabelled ==
  \A p \in Procs : asked[p] \subseteq Names /\ verdict[p] = "pass" =>
    mislabelled \/ \E u \in pointed[p] : asked[p] \subseteq declared[u]

\* A key the server declares is never refused because of what was cached or
\* where: "a stale list can never reject a field the server has since declared"
\* (validate_bug_fields).
NoStaleRefusal ==
  \A p \in Procs : asked[p] \subseteq Names /\ verdict[p] = "refuse" =>
    ~(asked[p] \subseteq born[p])
=============================================================================
