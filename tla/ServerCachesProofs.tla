-------------------------- MODULE ServerCachesProofs --------------------------
(***************************************************************************)
(* Theorems about ServerCaches for any processes, versions of bzr, servers *)
(* and fields: what is remembered of a server is true of the server it is  *)
(* labelled with, and what the gates answer from it is true of the server  *)
(* the command is connected to.                                            *)
(***************************************************************************)
EXTENDS ServerCaches, FiniteSetTheorems, TLAPS

USE ServerCachesAssumption

Gates == {"gate", "gateProbe", "gatePersist"}
Fields == {"fields", "fieldProbe", "fieldPersist"}

-----------------------------------------------------------------------------
(* Types *)

\* What config.toml may hold of a server: TypeOK's part about an entry.
Sound(e) ==
  /\ e \in Entry \cup {None}
  /\ e # None => /\ e.extensions \subseteq e.extensionsKnown
                 /\ Cardinality(e.names) <= MaxCached

AllSound(es) ==
  es \in [Servers -> Entry \cup {None}] /\ \A s \in Servers : Sound(es[s])

LEMMA FreshSound ==
  ASSUME NEW u \in Urls
  PROVE  Sound(Fresh(u)) /\ Fresh(u).url = u
  BY FS_EmptySet DEF Sound, Fresh, Entry

LEMMA EditSound ==
  ASSUME NEW e \in Entry, Sound(e), NEW u \in Urls
  PROVE  Sound([e EXCEPT !.url = u])
  BY DEF Sound, Entry

LEMMA ExtensionsSound ==
  ASSUME NEW e \in Entry, Sound(e), NEW p \in Procs, answer[p] \subseteq Known[p]
  PROVE  Sound(WithExtensions(p, e))
  BY DEF Sound, WithExtensions, Entry

LEMMA NamesSound ==
  ASSUME NEW e \in Entry, Sound(e), NEW N \in SUBSET Names, Cardinality(N) <= MaxCached
  PROVE  Sound([e EXCEPT !.names = N, !.namesUrl = e.url])
  BY DEF Sound, Entry

\* One entry takes another's place.
LEMMA OneSound ==
  ASSUME AllSound(entries), NEW s \in Servers, NEW e, Sound(e)
  PROVE  AllSound([entries EXCEPT ![s] = e])
  BY DEF AllSound, Sound

LEMMA EntriesSound == TypeOK => AllSound(entries)
  BY DEF TypeOK, AllSound, Sound

LEMMA SoundTypes ==
  ASSUME NEW es, AllSound(es)
  PROVE  /\ es \in [Servers -> Entry \cup {None}]
         /\ \A s \in Servers : es[s] # None =>
              /\ es[s] \in Entry
              /\ es[s].extensions \subseteq es[s].extensionsKnown
              /\ Cardinality(es[s].names) <= MaxCached
  BY DEF AllSound, Sound

LEMMA UrlOfType ==
  ASSUME NEW es, AllSound(es), NEW s \in Servers \cup {None}
  PROVE  UrlOf(es, s) \in SUBSET Urls
  BY SoundTypes DEF UrlOf, Entry

LEMMA LookedType ==
  ASSUME TypeOK, NEW p \in Procs, NEW d \in Servers \cup {None}
  PROVE  Looked(p, d) \in Servers \cup {None}
  BY DEF TypeOK, Looked, Named

\* A configuration that takes another's place.
LEMMA Moved ==
  ASSUME TypeOK, NEW es, NEW d \in Servers \cup {None}, Move(es, d), AllSound(es)
  PROVE  TypeOK'
<1>1. \A p \in Procs : UrlOf(es, Looked(p, d)) \in SUBSET Urls
  BY LookedType, UrlOfType
<1>2. pointed' \in [Procs -> SUBSET Urls]
  BY <1>1 DEF Move, TypeOK
<1>3. moves' \in 0..MaxMoves
  BY DEF Move, TypeOK
<1>4. QED
  BY <1>2, <1>3, SoundTypes DEF TypeOK, Shape, Move

\* Steps of one process keep the others in shape.
LEMMA ShapeOfOthers ==
  ASSUME TypeOK, NEW p \in Procs, Shape(p)',
         \A q \in Procs : q # p =>
           /\ pc'[q] = pc[q] /\ asked'[q] = asked[q]
           /\ answer'[q] = answer[q] /\ verdict'[q] = verdict[q]
           /\ target'[q] = target[q] /\ client'[q] = client[q]
  PROVE  \A q \in Procs : Shape(q)'
  BY DEF TypeOK, Shape

LEMMA ConcludeType ==
  ASSUME TypeOK, NEW p \in Procs, NEW from, NEW v \in {"none", "pass", "refuse", "undetermined"},
         Conclude(p, from, v), UNCHANGED <<asked, client>>
  PROVE  /\ pc' \in [Procs -> {"idle"} \cup Gates \cup Fields]
         /\ answer' \in [Procs -> (SUBSET Caps) \cup (SUBSET Names)]
         /\ target' \in [Procs -> Servers \cup {None}]
         /\ verdict' \in [Procs -> {"none", "pass", "refuse", "undetermined"}]
         /\ \A q \in Procs : Shape(q)'
<1> USE DEF Conclude, Goto
<1>1. /\ pc' \in [Procs -> {"idle"} \cup Gates \cup Fields]
      /\ target' \in [Procs -> Servers \cup {None}]
      /\ verdict' \in [Procs -> {"none", "pass", "refuse", "undetermined"}]
  BY DEF TypeOK, Gates, Fields
<1>2. {} \in (SUBSET Caps) \cup (SUBSET Names)
  OBVIOUS
<1>3. answer' \in [Procs -> (SUBSET Caps) \cup (SUBSET Names)]
  BY <1>2 DEF TypeOK
<1>4. Shape(p)'
  BY DEF TypeOK, Shape
<1>5. \A q \in Procs : Shape(q)'
  BY <1>4, ShapeOfOthers DEF TypeOK
<1>6. QED
  BY <1>1, <1>3, <1>5

LEMMA AskType ==
  ASSUME TypeOK, NEW p \in Procs, Ask(p, "gate", "gateProbe") \/ Ask(p, "fields", "fieldProbe"),
         UNCHANGED <<asked, client>>, NEW s \in Servers \cup {None},
         target' = [target EXCEPT ![p] = s], pc[p] = "fields" => s # None
  PROVE  /\ pc' \in [Procs -> {"idle"} \cup Gates \cup Fields]
         /\ target' \in [Procs -> Servers \cup {None}]
         /\ \A q \in Procs : Shape(q)'
<1> USE DEF Ask, Goto
<1>1. /\ pc' \in [Procs -> {"idle"} \cup Gates \cup Fields]
      /\ target' \in [Procs -> Servers \cup {None}]
  BY DEF TypeOK, Gates, Fields
<1>2. Shape(p)'
  BY DEF TypeOK, Shape
<1>3. \A q \in Procs : Shape(q)'
  BY <1>2, ShapeOfOthers DEF TypeOK
<1>4. QED
  BY <1>1, <1>3

\* A probe that was answered.
LEMMA AnsweredType ==
  ASSUME TypeOK, NEW p \in Procs, NEW A,
         \/ Goto(p, "gateProbe", "gatePersist") /\ A \subseteq Known[p]
         \/ Goto(p, "fieldProbe", "fieldPersist") /\ A \subseteq Names,
         answer' = [answer EXCEPT ![p] = A], UNCHANGED <<verdict, asked, target, client>>
  PROVE  /\ pc' \in [Procs -> {"idle"} \cup Gates \cup Fields]
         /\ answer' \in [Procs -> (SUBSET Caps) \cup (SUBSET Names)]
         /\ \A q \in Procs : Shape(q)'
<1> USE DEF Goto
<1>1. pc' \in [Procs -> {"idle"} \cup Gates \cup Fields]
  BY DEF TypeOK, Gates, Fields
<1>2. A \in (SUBSET Caps) \cup (SUBSET Names)
  <2>1. Known[p] \subseteq Caps
    OBVIOUS
  <2>2. A \subseteq Caps \/ A \subseteq Names
    BY <2>1
  <2>3. QED
    BY <2>2
<1>3. answer' \in [Procs -> (SUBSET Caps) \cup (SUBSET Names)]
  BY <1>2 DEF TypeOK
<1>4. Shape(p)'
  BY DEF TypeOK, Shape
<1>5. \A q \in Procs : Shape(q)'
  BY <1>4, ShapeOfOthers DEF TypeOK
<1>6. QED
  BY <1>1, <1>3, <1>5

LEMMA AdvertisesType ==
  \A p, E : Advertises(p, E) \in {"none", "pass", "refuse", "undetermined"}
  BY DEF Advertises

LEMMA InitType == Init => TypeOK
<1> SUFFICES ASSUME Init PROVE TypeOK
  OBVIOUS
<1>1. \A s \in Servers : Sound(entries[s])
  BY FreshSound DEF Init, Sound
<1>2. entries \in [Servers -> Entry \cup {None}]
  BY DEF Init, Fresh, Entry
<1>3. {} \in (SUBSET Caps) \cup (SUBSET Names)
  OBVIOUS
<1>4. /\ asked \in [Procs -> (SUBSET Caps) \cup (SUBSET Names)]
      /\ answer \in [Procs -> (SUBSET Caps) \cup (SUBSET Names)]
  BY <1>3 DEF Init
<1>5. \A p \in Procs : Shape(p)
  BY DEF Init, Shape
<1>6. commands \in 0..MaxCommands /\ moves \in 0..MaxMoves
  BY DEF Init
<1>7. default \in Servers \cup {None} /\ declared \in [Urls -> SUBSET Names]
  BY DEF Init
<1>8. QED
  BY <1>1, <1>2, <1>4, <1>5, <1>6, <1>7 DEF Init, TypeOK, Sound

\* What a command that connects holds: name s, the URL u it has, and question K.
ConnectsTo(p, u, s, K) ==
  /\ pc' = [pc EXCEPT ![p] = pc'[p]] /\ pc'[p] \in {"gate", "fields"}
  /\ target' = [target EXCEPT ![p] = s]
  /\ client' = [client EXCEPT ![p] = u]
  /\ born' = [born EXCEPT ![p] = declared[u]]
  /\ pointed' = [pointed EXCEPT ![p] = {u}]
  /\ verdict' = [verdict EXCEPT ![p] = "none"]
  /\ asked' = [asked EXCEPT ![p] = K] /\ K # {}
  /\ pc'[p] = "gate" => K \subseteq Known[p]
  /\ pc'[p] = "fields" => K \subseteq Names /\ s # None
  /\ UrlOf(entries, Looked(p, default)') = {u}
  /\ UNCHANGED <<config, declared, answer, mislabelled, moves>>

LEMMA Connected ==
  ASSUME TypeOK, NEW p \in Procs, Connect(p)
  PROVE  \E u \in Urls, s \in Servers \cup {None}, K \in (SUBSET Caps) \cup (SUBSET Names) :
           ConnectsTo(p, u, s, K)
<1>1. PICK f \in Servers \cup {None} :
        /\ Named(f, default) # None /\ entries[Named(f, default)] # None
        /\ target' = [target EXCEPT ![p] = IF pc'[p] = "gate" THEN f ELSE Named(f, default)]
        /\ client' = [client EXCEPT ![p] = entries[Named(f, default)].url]
        /\ born' = [born EXCEPT ![p] = declared[entries[Named(f, default)].url]]
        /\ pointed' = [pointed EXCEPT ![p] = {entries[Named(f, default)].url}]
  BY DEF Connect
<1> DEFINE n == Named(f, default)
           s == IF pc'[p] = "gate" THEN f ELSE n
<1>2. n \in Servers /\ s \in Servers \cup {None}
  BY <1>1 DEF Named, TypeOK
<1>3. entries[n].url \in Urls
  BY <1>1, <1>2 DEF TypeOK, Entry
<1>4. PICK K \in (SUBSET Caps) \cup (SUBSET Names) :
        /\ K # {}
        /\ asked' = [asked EXCEPT ![p] = K]
        /\ \/ Goto(p, "idle", "gate") /\ K \subseteq Known[p]
           \/ Goto(p, "idle", "fields") /\ K \subseteq Names
  <2>1. CASE Goto(p, "idle", "gate") /\ \E c \in Known[p] : asked' = [asked EXCEPT ![p] = {c}]
    <3>1. PICK c \in Known[p] : asked' = [asked EXCEPT ![p] = {c}]
      BY <2>1
    <3>2. Known[p] \subseteq Caps
      OBVIOUS
    <3>3. {c} \subseteq Caps /\ {c} \subseteq Known[p] /\ {c} # {}
      BY <3>2
    <3>4. QED
      BY <2>1, <3>1, <3>3
  <2>2. CASE /\ Goto(p, "idle", "fields")
             /\ \E K \in (SUBSET Names) \ {{}} : asked' = [asked EXCEPT ![p] = K]
    BY <2>2
  <2>3. QED
    BY <2>1, <2>2 DEF Connect
<1>5. pc' = [pc EXCEPT ![p] = pc'[p]] /\ pc'[p] \in {"gate", "fields"}
  BY <1>4 DEF Goto, TypeOK
<1>6. Looked(p, default)' = n
  <2>1. target'[p] = s /\ default' = default
    BY <1>1, <1>2 DEF TypeOK, Connect, config
  <2>2. QED
    BY <1>5, <2>1 DEF Looked, Named
<1>7. UrlOf(entries, n) = {entries[n].url}
  BY <1>1 DEF UrlOf
<1>8. /\ pc'[p] = "gate" => K \subseteq Known[p]
      /\ pc'[p] = "fields" => K \subseteq Names /\ s # None
  BY <1>1, <1>4 DEF Goto, TypeOK
<1>9. /\ verdict' = [verdict EXCEPT ![p] = "none"]
      /\ UNCHANGED <<config, declared, answer, mislabelled, moves>>
  BY DEF Connect
<1>10. target' = [target EXCEPT ![p] = s]
  BY <1>1
<1> HIDE DEF n, s
<1>11. ConnectsTo(p, entries[n].url, s, K)
  BY <1>1, <1>4, <1>5, <1>6, <1>7, <1>8, <1>9, <1>10 DEF n, ConnectsTo
<1>12. QED
  BY <1>2, <1>3, <1>4, <1>11

LEMMA NextType == TypeOK /\ [Next]_vars => TypeOK'
<1> SUFFICES ASSUME TypeOK, [Next]_vars PROVE TypeOK'
  OBVIOUS
<1> USE DEF config, bound
<1>0. AllSound(entries)
  BY EntriesSound
<1>a. ASSUME NEW p \in Procs, NEW from, NEW v \in {"none", "pass", "refuse", "undetermined"},
             Conclude(p, from, v), AllSound(entries'), mislabelled' \in BOOLEAN,
             UNCHANGED <<default, declared, bound, commands, moves>>
      PROVE  TypeOK'
  <2>1. /\ pc' \in [Procs -> {"idle"} \cup Gates \cup Fields]
        /\ answer' \in [Procs -> (SUBSET Caps) \cup (SUBSET Names)]
        /\ target' \in [Procs -> Servers \cup {None}]
        /\ verdict' \in [Procs -> {"none", "pass", "refuse", "undetermined"}]
        /\ \A q \in Procs : Shape(q)'
    BY <1>a, ConcludeType
  <2>2. /\ entries' \in [Servers -> Entry \cup {None}]
        /\ \A s \in Servers : entries'[s] # None =>
             /\ entries'[s].extensions \subseteq entries'[s].extensionsKnown
             /\ Cardinality(entries'[s].names) <= MaxCached
    BY <1>a, SoundTypes
  <2>3. QED
    BY <1>a, <2>1, <2>2 DEF TypeOK, Gates, Fields
<1>b. ASSUME NEW p \in Procs, Ask(p, "gate", "gateProbe") \/ Ask(p, "fields", "fieldProbe"),
             NEW s \in Servers \cup {None},
             target' = [target EXCEPT ![p] = s], pc[p] = "fields" => s # None,
             UNCHANGED <<config, declared, bound, mislabelled, commands, moves>>
      PROVE  TypeOK'
  BY <1>b, AskType DEF TypeOK, Ask, Gates, Fields
<1>c. ASSUME NEW p \in Procs, NEW A,
             \/ Goto(p, "gateProbe", "gatePersist") /\ A \subseteq Known[p]
             \/ Goto(p, "fieldProbe", "fieldPersist") /\ A \subseteq Names,
             answer' = [answer EXCEPT ![p] = A],
             UNCHANGED <<verdict, target, config, declared, bound, mislabelled, commands, moves>>
      PROVE  TypeOK'
  BY <1>c, AnsweredType DEF TypeOK, Gates, Fields
<1>1. ASSUME NEW p \in Procs, Connect(p) PROVE TypeOK'
  <2>0. PICK u \in Urls, s \in Servers \cup {None}, K \in (SUBSET Caps) \cup (SUBSET Names) :
         ConnectsTo(p, u, s, K)
    BY <1>1, Connected
  <2>1. /\ pc' = [pc EXCEPT ![p] = pc'[p]] /\ pc'[p] \in {"gate", "fields"}
        /\ target' = [target EXCEPT ![p] = s]
        /\ client' = [client EXCEPT ![p] = u]
        /\ born' = [born EXCEPT ![p] = declared[u]]
        /\ pointed' = [pointed EXCEPT ![p] = {u}]
        /\ verdict' = [verdict EXCEPT ![p] = "none"]
        /\ asked' = [asked EXCEPT ![p] = K] /\ K # {}
        /\ pc'[p] = "gate" => K \subseteq Known[p]
        /\ pc'[p] = "fields" => K \subseteq Names /\ s # None
        /\ UNCHANGED <<config, declared, answer, mislabelled, moves>>
    BY <2>0 DEF ConnectsTo
  <2>2. /\ pc'[p] = "gate" => K \subseteq Caps
        /\ asked'[p] = K /\ client'[p] = u /\ target'[p] = s /\ verdict'[p] = "none"
    BY <2>1 DEF TypeOK
  <2>3. Shape(p)'
    BY <2>1, <2>2 DEF Shape
  <2>4. \A q \in Procs : Shape(q)'
    BY <2>1, <2>3, ShapeOfOthers DEF TypeOK
  <2>5. /\ asked' \in [Procs -> (SUBSET Caps) \cup (SUBSET Names)]
        /\ pc' \in [Procs -> {"idle"} \cup Gates \cup Fields]
    BY <2>1 DEF TypeOK, Gates, Fields
  <2>6. /\ client' \in [Procs -> Urls \cup {None}] /\ target' \in [Procs -> Servers \cup {None}]
        /\ pointed' \in [Procs -> SUBSET Urls]
        /\ born' \in [Procs -> SUBSET Names]
        /\ verdict' \in [Procs -> {"none", "pass", "refuse", "undetermined"}]
    BY <2>1 DEF TypeOK
  <2>7. commands' \in 0..MaxCommands
    BY <1>1 DEF Connect, TypeOK
  <2>8. QED
    BY <2>1, <2>4, <2>5, <2>6, <2>7 DEF TypeOK, Gates, Fields
<1>2. ASSUME NEW p \in Procs, GateRead(p) PROVE TypeOK'
  <2> DEFINE s == Named(target[p], default)
  <2>1. CASE Conclude(p, "gate", Advertises(p, entries[s].extensions))
    BY <1>0, <1>2, <1>a, <2>1, AdvertisesType DEF GateRead, TypeOK
  <2>2. CASE /\ Ask(p, "gate", "gateProbe")
             /\ target' = [target EXCEPT ![p] = IF UrlOf(entries, s) = {} THEN None ELSE s]
    <3>1. (IF UrlOf(entries, s) = {} THEN None ELSE s) \in Servers \cup {None}
      BY DEF Named, TypeOK
    <3>2. pc[p] # "fields"
      BY <2>2 DEF Ask, Goto
    <3>3. QED
      BY <1>2, <1>b, <2>2, <3>1, <3>2 DEF GateRead
  <2>3. QED
    BY <1>2, <2>1, <2>2 DEF GateRead
<1>3. ASSUME NEW p \in Procs, GateProbe(p) PROVE TypeOK'
  BY <1>0, <1>3, <1>a, <1>c DEF GateProbe, TypeOK
<1>4. ASSUME NEW p \in Procs, GatePersist(p) PROVE TypeOK'
  <2>1. answer[p] \subseteq Known[p]
    BY <1>4 DEF GatePersist, Conclude, Goto, TypeOK, Shape
  <2>2. AllSound(entries')
    <3>1. CASE entries' = entries
      BY <1>0, <3>1
    <3>2. CASE /\ UrlOf(entries, target[p]) = {client[p]}
               /\ entries' = [entries EXCEPT ![target[p]] = WithExtensions(p, @)]
      <4>1. target[p] \in Servers /\ entries[target[p]] \in Entry
        <5>1. UrlOf(entries, target[p]) # {}
          BY <3>2
        <5>2. QED
          BY <5>1 DEF UrlOf, TypeOK
      <4>2. Sound(entries[target[p]])
        BY <1>0, <4>1 DEF AllSound
      <4>3. Sound(WithExtensions(p, entries[target[p]]))
        BY <2>1, <4>1, <4>2, ExtensionsSound
      <4>4. QED
        BY <1>0, <3>2, <4>1, <4>3, OneSound
    <3>3. QED
      BY <1>4, <3>1, <3>2 DEF GatePersist
  <2>3. QED
    BY <1>4, <1>a, <2>2, AdvertisesType DEF GatePersist, TypeOK
<1>5. ASSUME NEW p \in Procs, FieldRead(p) PROVE TypeOK'
  <2>1. CASE Conclude(p, "fields", "pass")
    BY <1>0, <1>5, <1>a, <2>1 DEF FieldRead, TypeOK
  <2>2. CASE Ask(p, "fields", "fieldProbe") /\ UNCHANGED target
    <3>1. target[p] \in Servers /\ target' = [target EXCEPT ![p] = target[p]]
      BY <1>5, <2>2 DEF FieldRead, TypeOK, Shape
    <3>2. QED
      BY <1>5, <1>b, <2>2, <3>1 DEF FieldRead
  <2>3. QED
    BY <1>5, <2>1, <2>2 DEF FieldRead
<1>6. ASSUME NEW p \in Procs, FieldProbe(p) PROVE TypeOK'
  <2>1. pc[p] = "fieldProbe" => declared[client[p]] \subseteq Names
    BY DEF TypeOK, Shape
  <2>2. QED
    BY <1>0, <1>6, <1>a, <1>c, <2>1 DEF FieldProbe, TypeOK, Goto
<1>7. ASSUME NEW p \in Procs, FieldPersist(p) PROVE TypeOK'
  <2>1. answer[p] \subseteq Names /\ target[p] \in Servers
    BY <1>7 DEF FieldPersist, Conclude, Goto, TypeOK, Shape
  <2>2. AllSound(entries') /\ mislabelled' \in BOOLEAN
    <3>1. CASE UNCHANGED <<entries, mislabelled>>
      BY <1>0, <3>1 DEF TypeOK
    <3>2. CASE /\ Cardinality(answer[p]) <= MaxCached /\ entries[target[p]] # None
               /\ entries' = [entries EXCEPT ![target[p]].names = answer[p],
                                             ![target[p]].namesUrl = entries[target[p]].url]
               /\ mislabelled' = (mislabelled \/ entries[target[p]].url # client[p])
      <4> DEFINE e == entries[target[p]]
      <4>1. e \in Entry /\ Sound(e)
        BY <1>0, <2>1, <3>2 DEF AllSound, TypeOK
      <4>2. Sound([e EXCEPT !.names = answer[p], !.namesUrl = e.url])
        BY <2>1, <3>2, <4>1, NamesSound
      <4>3. entries' = [entries EXCEPT ![target[p]] =
                          [e EXCEPT !.names = answer[p], !.namesUrl = e.url]]
        BY <2>1, <3>2, <4>1 DEF TypeOK
      <4> HIDE DEF e
      <4>4. AllSound(entries')
        BY <1>0, <2>1, <4>2, <4>3, OneSound
      <4>5. QED
        BY <3>2, <4>4 DEF TypeOK
    <3>3. QED
      BY <1>7, <3>1, <3>2 DEF FieldPersist
  <2>3. QED
    BY <1>7, <1>a, <2>2, AdvertisesType DEF FieldPersist
<1>8. ASSUME NEW p \in Procs, Stop(p) PROVE TypeOK'
  BY <1>0, <1>8, <1>a DEF Stop, TypeOK
<1>9. ASSUME NEW s \in Servers, NEW u \in Urls, SetServer(s, u) PROVE TypeOK'
  <2>1. AllSound([entries EXCEPT ![s] = Fresh(u)])
    BY <1>0, FreshSound, OneSound
  <2>2. (IF default = None THEN s ELSE default) \in Servers \cup {None}
    BY DEF TypeOK
  <2>3. QED
    BY <1>9, <2>1, <2>2, Moved DEF SetServer
<1>10. ASSUME NEW s \in Servers, NEW u \in Urls, EditUrl(s, u) PROVE TypeOK'
  <2>1. entries[s] \in Entry /\ Sound(entries[s])
    BY <1>0, <1>10 DEF EditUrl, AllSound, TypeOK
  <2>2. AllSound([entries EXCEPT ![s].url = u])
    BY <1>0, <2>1, EditSound, OneSound
  <2>3. QED
    BY <1>10, <2>2, Moved DEF EditUrl, TypeOK
<1>11. ASSUME NEW s \in Servers, SetDefault(s) PROVE TypeOK'
  BY <1>0, <1>11, Moved DEF SetDefault
<1>12. ASSUME NEW s \in Servers, Remove(s) PROVE TypeOK'
  <2>1. Sound(None)
    BY DEF Sound
  <2>2. AllSound([entries EXCEPT ![s] = None])
    BY <1>0, <2>1, OneSound
  <2>3. (IF default = s THEN None ELSE default) \in Servers \cup {None}
    BY DEF TypeOK
  <2>4. QED
    BY <1>12, <2>2, <2>3, Moved DEF Remove
<1>13. ASSUME NEW u \in Urls, NEW f \in Names, AddField(u, f) PROVE TypeOK'
  BY <1>13 DEF AddField, localVars, TypeOK, Shape
<1>14. CASE UNCHANGED vars
  BY <1>14 DEF vars, localVars, TypeOK, Shape
<1>15. QED
  BY <1>1, <1>2, <1>3, <1>4, <1>5, <1>6, <1>7, <1>8, <1>9, <1>10, <1>11, <1>12,
     <1>13, <1>14 DEF Next, Step

\* TypeOK holds for any processes, servers and bounds: only capabilities this
\* bzr knows and no oversized catalogue are ever written.
THEOREM TypeCorrect == Spec => []TypeOK
  BY InitType, NextType, PTL DEF Spec

-----------------------------------------------------------------------------
(* The capability gate *)

\* Every command knows of the URL it is connected to, and until it has read the
\* cache, of the one its name has now.
PointedInv ==
  \A p \in Procs :
    /\ pc[p] # "idle" => client[p] \in pointed[p]
    /\ pc[p] \in {"gate", "fields"} => UrlOf(entries, Looked(p, default)) \subseteq pointed[p]

\* What keeps CapabilityCacheSound and GateTruthful inductive: what was asked
\* and answered at the steps of the gate.
GateInv ==
  /\ CapabilityCacheSound
  /\ GateTruthful
  /\ PointedInv
  /\ \A p \in Procs :
       /\ pc[p] \in Gates => asked[p] \subseteq Known[p]
       /\ pc[p] = "gatePersist" => answer[p] = Advertised[client[p]] \cap Known[p]

\* CapabilityCacheSound, of an entry.
Truthful(e) ==
  e # None /\ e.extensionsUrl # None =>
    e.extensions = Advertised[e.extensionsUrl] \cap e.extensionsKnown

AllTruthful(es) == \A s \in Servers : Truthful(es[s])

\* The gate's answer v is right for a server of U, known capabilities aside.
Right(v, C, U) ==
  /\ v = "pass" => \E u \in U : C \subseteq Advertised[u]
  /\ v = "refuse" => \E u \in U : ~(C \subseteq Advertised[u])

\* No name gets another URL.
UrlsKept(es) == \A s \in Servers \cup {None} : UrlOf(es, s) \subseteq UrlOf(entries, s)

LEMMA RightAnswer ==
  ASSUME NEW p \in Procs, NEW u \in Urls, asked[p] \subseteq Known[p], NEW U, u \in U
  PROVE  Right(Advertises(p, Advertised[u] \cap Known[p]), asked[p], U)
  BY DEF Right, Advertises

LEMMA WrittenTruthful ==
  ASSUME NEW p \in Procs, NEW e \in Entry, e.url = client[p],
         answer[p] = Advertised[client[p]] \cap Known[p]
  PROVE  /\ Truthful(WithExtensions(p, e))
         /\ WithExtensions(p, e) # None /\ WithExtensions(p, e).url = e.url
<1>1. WithExtensions(p, e) \in Entry \/ ~(answer[p] \subseteq Caps)
  BY DEF WithExtensions, Entry
<1>2. answer[p] \subseteq Caps
  OBVIOUS
<1>3. WithExtensions(p, e).url = e.url
  BY DEF WithExtensions, Entry
<1>4. Truthful(WithExtensions(p, e))
  BY DEF Truthful, WithExtensions, Entry
<1>5. QED
  BY <1>1, <1>2, <1>3, <1>4

\* One entry takes another's place under the same URL.
LEMMA OneTruthful ==
  ASSUME TypeOK, AllTruthful(entries), NEW s \in Servers, entries[s] # None,
         NEW e, Truthful(e), e.url = entries[s].url, entries' = [entries EXCEPT ![s] = e]
  PROVE  AllTruthful(entries') /\ UrlsKept(entries')
<1>1. AllTruthful(entries')
  BY DEF TypeOK, AllTruthful
<1>2. ASSUME NEW r \in Servers \cup {None} PROVE UrlOf(entries', r) \subseteq UrlOf(entries, r)
  BY DEF TypeOK, UrlOf
<1>3. QED
  BY <1>1, <1>2 DEF UrlsKept

\* What a cache hit answers is right for the server the name has now.
LEMMA HitRight ==
  ASSUME TypeOK, CapabilityCacheSound, NEW p \in Procs, NEW s \in Servers \cup {None},
         Cached(p, s), asked[p] \subseteq Known[p], NEW U, UrlOf(entries, s) \subseteq U
  PROVE  Right(Advertises(p, entries[s].extensions), asked[p], U)
<1>1. s \in Servers /\ entries[s] \in Entry
  BY DEF Cached, TypeOK
<1>2. entries[s].url \in Urls /\ entries[s].url \in U
  BY <1>1 DEF Cached, UrlOf, Entry
<1>3. entries[s].extensionsUrl # None
  BY <1>2 DEF Cached
<1>4. entries[s].extensions = Advertised[entries[s].url] \cap Known[p]
  BY <1>1, <1>3 DEF Cached, CapabilityCacheSound
<1>5. QED
  BY <1>2, <1>4, RightAnswer

LEMMA GateConcluded ==
  ASSUME TypeOK, GateInv, NEW p \in Procs, NEW from, NEW v, Conclude(p, from, v),
         asked[p] \in (SUBSET Caps) \ {{}} => Right(v, asked[p], pointed[p]),
         AllTruthful(entries'), UrlsKept(entries'),
         UNCHANGED <<default, bound>>
  PROVE  GateInv'
<1> USE DEF Conclude, Goto, bound
<1>1. CapabilityCacheSound'
  BY DEF CapabilityCacheSound, AllTruthful, Truthful
<1>2. GateTruthful'
  BY DEF TypeOK, GateInv, GateTruthful, Right
<1>3. PointedInv'
  <2>1. pc'[p] = "idle" /\ \A q \in Procs : q # p => pc'[q] = pc[q] /\ target'[q] = target[q]
    BY DEF TypeOK
  <2>2. ASSUME NEW q \in Procs, q # p PROVE Looked(q, default)' = Looked(q, default)
    BY <2>1, <2>2 DEF Looked
  <2>3. ASSUME NEW q \in Procs, q # p, pc[q] \in {"gate", "fields"}
        PROVE  UrlOf(entries, Looked(q, default))' \subseteq pointed[q]
    <3>1. Looked(q, default) \in Servers \cup {None}
      BY LookedType DEF TypeOK
    <3>2. UrlOf(entries', Looked(q, default)) \subseteq pointed[q]
      BY <2>3, <3>1 DEF UrlsKept, GateInv, PointedInv
    <3>3. UrlOf(entries, Looked(q, default))' = UrlOf(entries', Looked(q, default)')
      BY DEF UrlOf
    <3>4. QED
      BY <2>2, <2>3, <3>2, <3>3
  <2>4. QED
    BY <2>1, <2>3 DEF GateInv, PointedInv
<1>4. QED
  BY <1>1, <1>2, <1>3 DEF TypeOK, GateInv, Gates

\* A process goes on from reading the cache, or with the answer of its probe.
LEMMA GateOnward ==
  ASSUME TypeOK, GateInv, NEW p \in Procs, NEW from, NEW to, Goto(p, from, to),
         from # "idle", to \notin {"idle", "gate", "fields"},
         to \in Gates => from \in Gates,
         to = "gatePersist" => answer'[p] = Advertised[client[p]] \cap Known[p],
         \A q \in Procs : q # p => answer'[q] = answer[q] /\ target'[q] = target[q],
         UNCHANGED <<config, verdict, bound>>
  PROVE  GateInv'
<1> USE DEF Goto, config, bound
<1>1. CapabilityCacheSound'
  BY DEF GateInv, CapabilityCacheSound
<1>2. GateTruthful'
  BY DEF GateInv, GateTruthful
<1>3. pc'[p] = to /\ pc[p] = from /\ \A q \in Procs : q # p => pc'[q] = pc[q]
  BY DEF TypeOK
<1>4. ASSUME NEW q \in Procs, q # p PROVE UrlOf(entries, Looked(q, default))' = UrlOf(entries, Looked(q, default))
  BY <1>3, <1>4 DEF Looked, UrlOf
<1>5. PointedInv'
  BY <1>3, <1>4 DEF GateInv, PointedInv
<1>6. QED
  BY <1>1, <1>2, <1>3, <1>5 DEF GateInv, Gates

LEMMA GateMoved ==
  ASSUME TypeOK, GateInv, NEW es, NEW d, Move(es, d), AllTruthful(es)
  PROVE  GateInv'
<1>1. CapabilityCacheSound'
  BY DEF Move, CapabilityCacheSound, AllTruthful, Truthful
<1>2. \A p \in Procs : /\ pointed[p] \subseteq pointed'[p]
                       /\ pc[p] \in {"gate", "fields"} => UrlOf(es, Looked(p, d)) \subseteq pointed'[p]
  BY DEF Move
<1>3. \A p \in Procs : /\ pc'[p] = pc[p] /\ asked'[p] = asked[p] /\ verdict'[p] = verdict[p]
                       /\ client'[p] = client[p] /\ answer'[p] = answer[p] /\ target'[p] = target[p]
  BY DEF Move
<1>4. GateTruthful'
  BY <1>2, <1>3 DEF GateInv, GateTruthful
<1>5. ASSUME NEW p \in Procs PROVE UrlOf(entries, Looked(p, default))' = UrlOf(es, Looked(p, d))
  BY <1>3 DEF Looked, UrlOf, Move
<1>6. PointedInv'
  BY <1>2, <1>3, <1>5 DEF GateInv, PointedInv
<1>7. QED
  BY <1>1, <1>3, <1>4, <1>6 DEF GateInv

LEMMA InitGate == Init => GateInv
<1> SUFFICES ASSUME Init PROVE GateInv
  OBVIOUS
<1>1. \A s \in Servers : entries[s] = None \/ \E u \in Urls : entries[s] = Fresh(u)
  BY DEF Init
<1>2. CapabilityCacheSound
  <2>1. ASSUME NEW s \in Servers, entries[s] # None PROVE entries[s].extensionsUrl = None
    <3>1. PICK u \in Urls : entries[s] = Fresh(u)
      BY <1>1, <2>1
    <3>2. Fresh(u).extensionsUrl = None
      BY DEF Fresh
    <3>3. QED
      BY <3>1, <3>2
  <2>2. QED
    BY <2>1 DEF CapabilityCacheSound
<1>3. QED
  BY <1>2 DEF Init, GateInv, GateTruthful, PointedInv, Gates

LEMMA NextGate == TypeOK /\ GateInv /\ [Next]_vars => GateInv'
<1> SUFFICES ASSUME TypeOK, GateInv, [Next]_vars PROVE GateInv'
  OBVIOUS
<1>0. AllTruthful(entries)
  BY DEF GateInv, CapabilityCacheSound, AllTruthful, Truthful
<1>k. ASSUME entries' = entries PROVE AllTruthful(entries') /\ UrlsKept(entries')
  BY <1>0, <1>k DEF UrlsKept
<1>u. \A U, C : Right("none", C, U) /\ Right("undetermined", C, U)
  BY DEF Right
<1>n. ASSUME NEW K \in SUBSET Names PROVE K \notin (SUBSET Caps) \ {{}}
  OBVIOUS
<1>1. ASSUME NEW p \in Procs, Connect(p) PROVE GateInv'
  <2>0. PICK u \in Urls, s \in Servers \cup {None}, K \in (SUBSET Caps) \cup (SUBSET Names) :
         ConnectsTo(p, u, s, K)
    BY <1>1, Connected
  <2>1. /\ pc' = [pc EXCEPT ![p] = pc'[p]] /\ pc'[p] \in {"gate", "fields"}
        /\ target' = [target EXCEPT ![p] = s]
        /\ client' = [client EXCEPT ![p] = u]
        /\ pointed' = [pointed EXCEPT ![p] = {u}]
        /\ verdict' = [verdict EXCEPT ![p] = "none"]
        /\ asked' = [asked EXCEPT ![p] = K]
        /\ pc'[p] = "gate" => K \subseteq Known[p]
        /\ UrlOf(entries, Looked(p, default)') = {u}
        /\ UNCHANGED <<config, answer>>
    BY <2>0 DEF ConnectsTo
  <2>2. /\ verdict'[p] = "none" /\ client'[p] = u /\ pointed'[p] = {u} /\ asked'[p] = K
        /\ UNCHANGED <<entries, default>>
    BY <2>1 DEF TypeOK, config
  <2>3. \A q \in Procs : q # p =>
          /\ pc'[q] = pc[q] /\ asked'[q] = asked[q] /\ client'[q] = client[q]
          /\ pointed'[q] = pointed[q] /\ verdict'[q] = verdict[q] /\ target'[q] = target[q]
    BY <2>1 DEF TypeOK
  <2>4. CapabilityCacheSound'
    BY <2>2 DEF GateInv, CapabilityCacheSound
  <2>5. GateTruthful'
    BY <2>2, <2>3 DEF GateInv, GateTruthful
  <2>6. ASSUME NEW q \in Procs, q # p
        PROVE  UrlOf(entries, Looked(q, default))' = UrlOf(entries, Looked(q, default))
    BY <2>2, <2>3, <2>6 DEF Looked, UrlOf
  <2>7. UrlOf(entries, Looked(p, default))' = {u}
    BY <2>1, <2>2 DEF UrlOf
  <2>8. PointedInv'
    BY <2>1, <2>2, <2>3, <2>6, <2>7 DEF GateInv, PointedInv
  <2>9. answer' = answer
    BY <2>1
  <2>10. QED
    BY <2>1, <2>2, <2>3, <2>4, <2>5, <2>8, <2>9 DEF GateInv, Gates
<1>2. ASSUME NEW p \in Procs, GateRead(p) PROVE GateInv'
  <2> DEFINE s == Named(target[p], default)
  <2>1. CASE Cached(p, s) /\ Conclude(p, "gate", Advertises(p, entries[s].extensions))
    <3>1. pc[p] = "gate"
      BY <2>1 DEF Conclude, Goto
    <3>2. asked[p] \subseteq Known[p] /\ UrlOf(entries, s) \subseteq pointed[p]
      BY <3>1 DEF GateInv, PointedInv, Looked, Gates
    <3>3. s \in Servers \cup {None}
      BY DEF Named, TypeOK
    <3>4. Right(Advertises(p, entries[s].extensions), asked[p], pointed[p])
      BY <2>1, <3>2, <3>3, HitRight DEF GateInv
    <3>5. QED
      BY <1>2, <1>k, <2>1, <3>4, GateConcluded DEF GateRead, config
  <2>2. CASE /\ Ask(p, "gate", "gateProbe")
             /\ target' = [target EXCEPT ![p] = IF UrlOf(entries, s) = {} THEN None ELSE s]
    <3>1. \A q \in Procs : q # p => target'[q] = target[q]
      BY <2>2 DEF TypeOK
    <3>2. QED
      BY <1>2, <2>2, <3>1, GateOnward DEF GateRead, Ask, Gates
  <2>3. QED
    BY <1>2, <2>1, <2>2 DEF GateRead
<1>3. ASSUME NEW p \in Procs, GateProbe(p) PROVE GateInv'
  <2>1. CASE Conclude(p, "gateProbe", "undetermined")
    BY <1>3, <1>k, <1>u, <2>1, GateConcluded DEF GateProbe, config
  <2>2. CASE Goto(p, "gateProbe", "gatePersist")
             /\ answer' = [answer EXCEPT ![p] = Advertised[client[p]] \cap Known[p]]
             /\ UNCHANGED <<verdict, target>>
    <3>1. answer'[p] = Advertised[client[p]] \cap Known[p]
      BY <2>2 DEF TypeOK
    <3>2. \A q \in Procs : q # p => answer'[q] = answer[q]
      BY <2>2 DEF TypeOK
    <3>3. QED
      BY <1>3, <2>2, <3>1, <3>2, GateOnward DEF GateProbe, Gates
  <2>3. QED
    BY <1>3, <2>1, <2>2 DEF GateProbe
<1>4. ASSUME NEW p \in Procs, GatePersist(p) PROVE GateInv'
  <2>0. pc[p] = "gatePersist"
    BY <1>4 DEF GatePersist, Conclude, Goto
  <2>1. /\ asked[p] \subseteq Known[p] /\ answer[p] = Advertised[client[p]] \cap Known[p]
        /\ client[p] \in Urls /\ client[p] \in pointed[p]
    BY <2>0 DEF GateInv, PointedInv, Gates, TypeOK, Shape
  <2>2. Right(Advertises(p, answer[p]), asked[p], pointed[p])
    BY <2>1, RightAnswer
  <2>3. AllTruthful(entries') /\ UrlsKept(entries')
    <3>1. CASE entries' = entries
      BY <1>k, <3>1
    <3>2. CASE /\ UrlOf(entries, target[p]) = {client[p]}
               /\ entries' = [entries EXCEPT ![target[p]] = WithExtensions(p, @)]
      <4>1. target[p] \in Servers /\ entries[target[p]] \in Entry
        <5>1. UrlOf(entries, target[p]) # {}
          BY <3>2
        <5>2. QED
          BY <5>1 DEF UrlOf, TypeOK
      <4>2. entries[target[p]].url = client[p]
        BY <3>2, <4>1 DEF UrlOf
      <4>3. /\ Truthful(WithExtensions(p, entries[target[p]]))
            /\ WithExtensions(p, entries[target[p]]).url = entries[target[p]].url
        BY <2>1, <4>1, <4>2, WrittenTruthful
      <4>4. QED
        BY <1>0, <3>2, <4>1, <4>3, OneTruthful
    <3>3. QED
      BY <1>4, <3>1, <3>2 DEF GatePersist
  <2>4. QED
    BY <1>4, <2>2, <2>3, GateConcluded DEF GatePersist
<1>5. ASSUME NEW p \in Procs, FieldRead(p) PROVE GateInv'
  <2>1. CASE Conclude(p, "fields", "pass")
    <3>1. asked[p] \in SUBSET Names
      BY <1>5 DEF FieldRead, TypeOK, Shape
    <3>2. QED
      BY <1>5, <1>k, <1>n, <2>1, <3>1, GateConcluded DEF FieldRead, config
  <2>2. CASE Ask(p, "fields", "fieldProbe") /\ UNCHANGED target
    BY <1>5, <2>2, GateOnward DEF FieldRead, Ask, Gates
  <2>3. QED
    BY <1>5, <2>1, <2>2 DEF FieldRead
<1>6. ASSUME NEW p \in Procs, FieldProbe(p) PROVE GateInv'
  <2>1. CASE Conclude(p, "fieldProbe", "undetermined")
    BY <1>6, <1>k, <1>u, <2>1, GateConcluded DEF FieldProbe, config
  <2>2. CASE Goto(p, "fieldProbe", "fieldPersist")
             /\ answer' = [answer EXCEPT ![p] = declared[client[p]]]
             /\ UNCHANGED <<verdict, target>>
    <3>1. \A q \in Procs : q # p => answer'[q] = answer[q]
      BY <2>2 DEF TypeOK
    <3>2. QED
      BY <1>6, <2>2, <3>1, GateOnward DEF FieldProbe, Gates
  <2>3. QED
    BY <1>6, <2>1, <2>2 DEF FieldProbe
<1>7. ASSUME NEW p \in Procs, FieldPersist(p) PROVE GateInv'
  <2>1. asked[p] \in SUBSET Names /\ target[p] \in Servers
    BY <1>7 DEF FieldPersist, Conclude, Goto, TypeOK, Shape
  <2>2. AllTruthful(entries') /\ UrlsKept(entries')
    <3>1. CASE UNCHANGED entries
      BY <1>k, <3>1
    <3>2. CASE /\ entries[target[p]] # None
               /\ entries' = [entries EXCEPT ![target[p]].names = answer[p],
                                             ![target[p]].namesUrl = entries[target[p]].url]
      <4> DEFINE e == entries[target[p]]
                 f == [e EXCEPT !.names = answer[p], !.namesUrl = e.url]
      <4>1. e \in Entry
        BY <2>1, <3>2 DEF TypeOK
      <4>2. /\ f.url = e.url
            /\ f.extensions = e.extensions
            /\ f.extensionsUrl = e.extensionsUrl
            /\ f.extensionsKnown = e.extensionsKnown
        BY <4>1 DEF Entry
      <4>3. entries' = [entries EXCEPT ![target[p]] = f]
        BY <2>1, <3>2, <4>1 DEF TypeOK
      <4>4. Truthful(e)
        BY <1>0, <2>1 DEF AllTruthful
      <4>5. Truthful(f)
        BY <3>2, <4>2, <4>4 DEF Truthful
      <4> HIDE DEF f
      <4>6. QED
        BY <1>0, <2>1, <3>2, <4>2, <4>3, <4>5, OneTruthful
    <3>3. QED
      BY <1>7, <3>1, <3>2 DEF FieldPersist
  <2>3. QED
    BY <1>7, <1>n, <2>1, <2>2, GateConcluded DEF FieldPersist
<1>8. ASSUME NEW p \in Procs, Stop(p) PROVE GateInv'
  BY <1>8, <1>k, <1>u, GateConcluded DEF Stop, config
<1>9. ASSUME NEW s \in Servers, NEW u \in Urls, SetServer(s, u) PROVE GateInv'
  <2>1. AllTruthful([entries EXCEPT ![s] = Fresh(u)])
    BY <1>0 DEF AllTruthful, Truthful, Fresh, TypeOK
  <2>2. QED
    BY <1>9, <2>1, GateMoved DEF SetServer
<1>10. ASSUME NEW s \in Servers, NEW u \in Urls, EditUrl(s, u) PROVE GateInv'
  <2>1. entries[s] \in Entry /\ Truthful(entries[s])
    BY <1>0, <1>10 DEF EditUrl, AllTruthful, TypeOK
  <2>2. Truthful([entries[s] EXCEPT !.url = u])
    BY <2>1 DEF Truthful, Entry
  <2>3. AllTruthful([entries EXCEPT ![s].url = u])
    BY <1>0, <2>2 DEF AllTruthful, TypeOK
  <2>4. QED
    BY <1>10, <2>3, GateMoved DEF EditUrl
<1>11. ASSUME NEW s \in Servers, SetDefault(s) PROVE GateInv'
  BY <1>0, <1>11, GateMoved DEF SetDefault
<1>12. ASSUME NEW s \in Servers, Remove(s) PROVE GateInv'
  <2>1. AllTruthful([entries EXCEPT ![s] = None])
    BY <1>0 DEF AllTruthful, Truthful, TypeOK
  <2>2. QED
    BY <1>12, <2>1, GateMoved DEF Remove
<1>13. CASE \/ \E u \in Urls, f \in Names : AddField(u, f)
            \/ UNCHANGED vars
  <2>1. UNCHANGED <<config, localVars>>
    BY <1>13 DEF AddField, vars
  <2>2. \A p \in Procs : UrlOf(entries, Looked(p, default))' = UrlOf(entries, Looked(p, default))
    BY <2>1 DEF config, localVars, UrlOf, Looked
  <2>3. PointedInv'
    BY <2>1, <2>2 DEF config, localVars, bound, GateInv, PointedInv
  <2>4. QED
    BY <2>1, <2>3 DEF config, localVars, bound, GateInv, GateTruthful, CapabilityCacheSound
<1>14. QED
  BY <1>1, <1>2, <1>3, <1>4, <1>5, <1>6, <1>7, <1>8, <1>9, <1>10, <1>11, <1>12,
     <1>13 DEF Next, Step

\* CapabilityCacheSound: a cached capability answer is true of the server and of
\* the capabilities it is labelled with (persist_extensions compares the URL under
\* the lock).
THEOREM CapabilityCache == Spec => []CapabilityCacheSound
<1>1. GateInv => CapabilityCacheSound
  BY DEF GateInv
<1>2. QED
  BY <1>1, InitType, NextType, InitGate, NextGate, PTL DEF Spec

\* GateTruthful: the gate's answer, from the cache or a probe, is true of the
\* server the command is connected to or of one its name was pointed at before it
\* read the cache.
THEOREM Gate == Spec => []GateTruthful
<1>1. GateInv => GateTruthful
  BY DEF GateInv
<1>2. QED
  BY <1>1, InitType, NextType, InitGate, NextGate, PTL DEF Spec

-----------------------------------------------------------------------------
(* The field catalogue *)

\* A stored catalogue, as long as none was mislabelled, lists fields that the
\* server it is labelled with declares.
Declared(e, d) == e # None /\ e.namesUrl # None => e.names \subseteq d[e.namesUrl]

AllDeclared(es, d) == \A s \in Servers : Declared(es[s], d)

\* What keeps the two properties of field validation inductive: a probe returns
\* at least what was declared when its command started, and no more than what is
\* declared now.
FieldInv ==
  /\ FieldsTruthfulUnlessMislabelled
  /\ NoStaleRefusal
  /\ mislabelled \/ AllDeclared(entries, declared)
  /\ \A p \in Procs :
       /\ pc[p] # "idle" => born[p] \subseteq declared[client[p]]
       /\ pc[p] = "fieldPersist" => /\ born[p] \subseteq answer[p]
                                    /\ answer[p] \subseteq declared[client[p]]

LEMMA FieldConcluded ==
  ASSUME TypeOK, FieldInv, NEW p \in Procs, NEW from, NEW v, Conclude(p, from, v),
         asked[p] \subseteq Names =>
           /\ v = "pass" => mislabelled' \/ \E u \in pointed[p] : asked[p] \subseteq declared[u]
           /\ v = "refuse" => ~(asked[p] \subseteq born[p]),
         mislabelled => mislabelled', mislabelled' \/ AllDeclared(entries', declared),
         UNCHANGED <<bound, declared>>
  PROVE  FieldInv'
<1> USE DEF Conclude, Goto, bound
<1>1. FieldsTruthfulUnlessMislabelled'
  BY DEF TypeOK, FieldInv, FieldsTruthfulUnlessMislabelled
<1>2. NoStaleRefusal'
  BY DEF TypeOK, FieldInv, NoStaleRefusal
<1>3. AllDeclared(entries, declared)' = AllDeclared(entries', declared)
  BY DEF AllDeclared, Declared
<1>4. QED
  BY <1>1, <1>2, <1>3 DEF TypeOK, FieldInv

\* Steps that neither answer nor touch the catalogue.
LEMMA FieldKept ==
  ASSUME TypeOK, FieldInv, AllDeclared(entries, declared) => AllDeclared(entries', declared),
         UNCHANGED <<declared, client, asked, verdict, born, mislabelled>>,
         \A p \in Procs : pointed[p] \subseteq pointed'[p],
         \A p \in Procs :
           /\ pc'[p] # "idle" => pc[p] # "idle"
           /\ pc'[p] = "fieldPersist" => /\ born[p] \subseteq answer'[p]
                                         /\ answer'[p] \subseteq declared[client[p]]
  PROVE  FieldInv'
<1>1. FieldsTruthfulUnlessMislabelled'
  BY DEF FieldInv, FieldsTruthfulUnlessMislabelled
<1>2. NoStaleRefusal'
  BY DEF FieldInv, NoStaleRefusal
<1>3. AllDeclared(entries, declared)' = AllDeclared(entries', declared)
  BY DEF AllDeclared, Declared
<1>4. QED
  BY <1>1, <1>2, <1>3 DEF FieldInv

LEMMA FieldMoved ==
  ASSUME TypeOK, FieldInv, NEW es, NEW d, Move(es, d),
         AllDeclared(entries, declared) => AllDeclared(es, declared)
  PROVE  FieldInv'
<1>1. \A p \in Procs : pointed[p] \subseteq pointed'[p]
  BY DEF Move
<1>2. QED
  BY <1>1, FieldKept DEF Move, FieldInv

LEMMA InitField == Init => FieldInv
<1> SUFFICES ASSUME Init PROVE FieldInv
  OBVIOUS
<1>1. \A s \in Servers : entries[s] = None \/ \E u \in Urls : entries[s] = Fresh(u)
  BY DEF Init
<1>2. AllDeclared(entries, declared)
  <2>1. ASSUME NEW s \in Servers, entries[s] # None PROVE entries[s].namesUrl = None
    <3>1. PICK u \in Urls : entries[s] = Fresh(u)
      BY <1>1, <2>1
    <3>2. Fresh(u).namesUrl = None
      BY DEF Fresh
    <3>3. QED
      BY <3>1, <3>2
  <2>2. QED
    BY <2>1 DEF AllDeclared, Declared
<1>3. QED
  BY <1>2 DEF Init, FieldInv, FieldsTruthfulUnlessMislabelled, NoStaleRefusal

LEMMA NextField == TypeOK /\ GateInv /\ FieldInv /\ [Next]_vars => FieldInv'
<1> SUFFICES ASSUME TypeOK, GateInv, FieldInv, [Next]_vars PROVE FieldInv'
  OBVIOUS
<1> USE DEF config, bound
<1>0. mislabelled \/ AllDeclared(entries, declared)
  BY DEF FieldInv
\* What a capability gate answers is not about fields.
<1>g. ASSUME NEW p \in Procs, pc[p] \in Gates PROVE ~(asked[p] \subseteq Names)
  BY <1>g DEF TypeOK, Shape, Gates
<1>1. ASSUME NEW p \in Procs, Connect(p) PROVE FieldInv'
  <2>0. PICK u \in Urls, s \in Servers \cup {None}, K \in (SUBSET Caps) \cup (SUBSET Names) :
         ConnectsTo(p, u, s, K)
    BY <1>1, Connected
  <2>1. /\ pc' = [pc EXCEPT ![p] = pc'[p]] /\ pc'[p] \in {"gate", "fields"}
        /\ client' = [client EXCEPT ![p] = u]
        /\ born' = [born EXCEPT ![p] = declared[u]]
        /\ pointed' = [pointed EXCEPT ![p] = {u}]
        /\ verdict' = [verdict EXCEPT ![p] = "none"]
        /\ asked' = [asked EXCEPT ![p] = K]
        /\ UNCHANGED <<entries, declared, answer, mislabelled>>
    BY <2>0 DEF ConnectsTo
  <2>2. /\ verdict'[p] = "none" /\ client'[p] = u /\ born'[p] = declared[u]
        /\ pc'[p] # "fieldPersist"
    BY <2>1 DEF TypeOK
  <2>3. \A q \in Procs : q # p =>
          /\ pc'[q] = pc[q] /\ asked'[q] = asked[q] /\ client'[q] = client[q]
          /\ pointed'[q] = pointed[q] /\ verdict'[q] = verdict[q] /\ born'[q] = born[q]
    BY <2>1 DEF TypeOK
  <2>4. FieldsTruthfulUnlessMislabelled'
    BY <2>1, <2>2, <2>3 DEF FieldInv, FieldsTruthfulUnlessMislabelled
  <2>5. NoStaleRefusal'
    BY <2>2, <2>3 DEF FieldInv, NoStaleRefusal
  <2>6. AllDeclared(entries, declared)' = AllDeclared(entries, declared)
    BY <2>1 DEF AllDeclared, Declared
  <2>7. UNCHANGED <<declared, answer, mislabelled>>
    BY <2>1
  <2>8. QED
    BY <2>2, <2>3, <2>4, <2>5, <2>6, <2>7 DEF FieldInv
<1>2. ASSUME NEW p \in Procs, GateRead(p) PROVE FieldInv'
  <2> DEFINE s == Named(target[p], default)
  <2>1. CASE Conclude(p, "gate", Advertises(p, entries[s].extensions))
    BY <1>0, <1>2, <1>g, <2>1, FieldConcluded DEF GateRead, Conclude, Goto, Gates
  <2>2. CASE Ask(p, "gate", "gateProbe")
    BY <1>2, <2>2, FieldKept DEF GateRead, Ask, Goto, TypeOK, FieldInv
  <2>3. QED
    BY <1>2, <2>1, <2>2 DEF GateRead
<1>3. ASSUME NEW p \in Procs, GateProbe(p) PROVE FieldInv'
  <2>1. CASE Conclude(p, "gateProbe", "undetermined")
    BY <1>0, <1>3, <2>1, FieldConcluded DEF GateProbe
  <2>2. CASE Goto(p, "gateProbe", "gatePersist")
             /\ answer' = [answer EXCEPT ![p] = Advertised[client[p]] \cap Known[p]]
             /\ UNCHANGED <<verdict, target>>
    BY <1>3, <2>2, FieldKept DEF GateProbe, Goto, TypeOK, FieldInv
  <2>3. QED
    BY <1>3, <2>1, <2>2 DEF GateProbe
<1>4. ASSUME NEW p \in Procs, GatePersist(p) PROVE FieldInv'
  <2>1. AllDeclared(entries, declared) => AllDeclared(entries', declared)
    <3>1. CASE entries' = entries
      BY <3>1
    <3>2. CASE /\ UrlOf(entries, target[p]) = {client[p]}
               /\ entries' = [entries EXCEPT ![target[p]] = WithExtensions(p, @)]
      <4>1. target[p] \in Servers /\ entries[target[p]] \in Entry
        <5>1. UrlOf(entries, target[p]) # {}
          BY <3>2
        <5>2. QED
          BY <5>1 DEF UrlOf, TypeOK
      <4>2. /\ WithExtensions(p, entries[target[p]]).names = entries[target[p]].names
            /\ WithExtensions(p, entries[target[p]]).namesUrl = entries[target[p]].namesUrl
        BY <4>1 DEF WithExtensions, Entry
      <4>3. Declared(entries[target[p]], declared) =>
              Declared(WithExtensions(p, entries[target[p]]), declared)
        BY <4>1, <4>2 DEF Declared
      <4>4. QED
        BY <3>2, <4>1, <4>3 DEF AllDeclared, TypeOK
    <3>3. QED
      BY <1>4, <3>1, <3>2 DEF GatePersist
  <2>2. QED
    BY <1>0, <1>4, <1>g, <2>1, FieldConcluded DEF GatePersist, Conclude, Goto, Gates
<1>5. ASSUME NEW p \in Procs, FieldRead(p) PROVE FieldInv'
  <2>0. pc[p] = "fields"
    BY <1>5 DEF FieldRead
  <2>1. CASE asked[p] \subseteq CachedNames(target[p]) /\ Conclude(p, "fields", "pass")
    <3>1. ASSUME ~mislabelled PROVE \E u \in pointed[p] : asked[p] \subseteq declared[u]
      <4>1. asked[p] # {} /\ target[p] \in Servers
        BY <2>0 DEF TypeOK, Shape
      <4> DEFINE e == entries[target[p]]
      <4>2. e # None /\ e.namesUrl = e.url /\ asked[p] \subseteq e.names
        <5>1. CachedNames(target[p]) # {}
          BY <2>1, <4>1
        <5>2. QED
          BY <2>1, <5>1 DEF CachedNames
      <4>3. e.url # None
        BY <4>1, <4>2 DEF TypeOK, Entry
      <4>4. e.url \in pointed[p]
        <5>1. Looked(p, default) = target[p]
          BY <2>0 DEF Looked
        <5>2. UrlOf(entries, target[p]) \subseteq pointed[p]
          BY <2>0, <5>1 DEF GateInv, PointedInv
        <5>3. target[p] # None
          BY <4>1
        <5>4. QED
          BY <4>2, <5>2, <5>3 DEF UrlOf
      <4>5. e.names \subseteq declared[e.url]
        BY <1>0, <3>1, <4>1, <4>2, <4>3 DEF AllDeclared, Declared
      <4>6. QED
        BY <4>2, <4>4, <4>5
    <3>2. QED
      BY <1>0, <1>5, <2>1, <3>1, FieldConcluded DEF FieldRead
  <2>2. CASE Ask(p, "fields", "fieldProbe")
    BY <1>5, <2>2, FieldKept DEF FieldRead, Ask, Goto, TypeOK, FieldInv
  <2>3. QED
    BY <1>5, <2>1, <2>2 DEF FieldRead
<1>6. ASSUME NEW p \in Procs, FieldProbe(p) PROVE FieldInv'
  <2>1. CASE Conclude(p, "fieldProbe", "undetermined")
    BY <1>0, <1>6, <2>1, FieldConcluded DEF FieldProbe
  <2>2. CASE Goto(p, "fieldProbe", "fieldPersist")
             /\ answer' = [answer EXCEPT ![p] = declared[client[p]]]
             /\ UNCHANGED <<verdict, target>>
    BY <1>6, <2>2, FieldKept DEF FieldProbe, Goto, TypeOK, FieldInv
  <2>3. QED
    BY <1>6, <2>1, <2>2 DEF FieldProbe
<1>7. ASSUME NEW p \in Procs, FieldPersist(p) PROVE FieldInv'
  <2>0. pc[p] = "fieldPersist" /\ target[p] \in Servers
    BY <1>7 DEF FieldPersist, Conclude, Goto, TypeOK, Shape
  <2>1. /\ born[p] \subseteq answer[p] /\ answer[p] \subseteq declared[client[p]]
        /\ client[p] \in pointed[p]
    BY <2>0 DEF FieldInv, GateInv, PointedInv
  <2>2. (mislabelled => mislabelled') /\ (mislabelled' \/ AllDeclared(entries', declared))
    <3>1. CASE UNCHANGED <<entries, mislabelled>>
      BY <1>0, <3>1
    <3>2. CASE /\ entries[target[p]] # None
               /\ entries' = [entries EXCEPT ![target[p]].names = answer[p],
                                             ![target[p]].namesUrl = entries[target[p]].url]
               /\ mislabelled' = (mislabelled \/ entries[target[p]].url # client[p])
      <4>1. entries[target[p]] \in Entry
        BY <2>0, <3>2 DEF TypeOK
      <4>2. /\ entries'[target[p]].names = answer[p]
            /\ entries'[target[p]].namesUrl = entries[target[p]].url
        BY <2>0, <3>2, <4>1 DEF TypeOK, Entry
      <4>3. \A s \in Servers : s # target[p] => entries'[s] = entries[s]
        BY <3>2 DEF TypeOK
      <4>4. ~mislabelled' => Declared(entries'[target[p]], declared)
        BY <2>1, <3>2, <4>2 DEF Declared
      <4>5. QED
        BY <1>0, <3>2, <4>3, <4>4 DEF AllDeclared
    <3>3. QED
      BY <1>7, <3>1, <3>2 DEF FieldPersist
  <2>3. QED
    BY <1>7, <2>1, <2>2, FieldConcluded DEF FieldPersist, Advertises
<1>8. ASSUME NEW p \in Procs, Stop(p) PROVE FieldInv'
  BY <1>0, <1>8, FieldConcluded DEF Stop
<1>9. ASSUME NEW s \in Servers, NEW u \in Urls, SetServer(s, u) PROVE FieldInv'
  <2>1. AllDeclared(entries, declared) => AllDeclared([entries EXCEPT ![s] = Fresh(u)], declared)
    BY DEF AllDeclared, Declared, Fresh, TypeOK
  <2>2. QED
    BY <1>9, <2>1, FieldMoved DEF SetServer
<1>10. ASSUME NEW s \in Servers, NEW u \in Urls, EditUrl(s, u) PROVE FieldInv'
  <2>1. entries[s] \in Entry
    BY <1>10 DEF EditUrl, TypeOK
  <2>2. Declared(entries[s], declared) => Declared([entries[s] EXCEPT !.url = u], declared)
    BY <1>10, <2>1 DEF EditUrl, Declared, Entry
  <2>3. AllDeclared(entries, declared) => AllDeclared([entries EXCEPT ![s].url = u], declared)
    BY <2>2 DEF AllDeclared, TypeOK
  <2>4. QED
    BY <1>10, <2>3, FieldMoved DEF EditUrl
<1>11. ASSUME NEW s \in Servers, SetDefault(s) PROVE FieldInv'
  BY <1>11, FieldMoved DEF SetDefault
<1>12. ASSUME NEW s \in Servers, Remove(s) PROVE FieldInv'
  <2>1. AllDeclared(entries, declared) => AllDeclared([entries EXCEPT ![s] = None], declared)
    BY DEF AllDeclared, Declared, TypeOK
  <2>2. QED
    BY <1>12, <2>1, FieldMoved DEF Remove
<1>13. ASSUME NEW u \in Urls, NEW f \in Names, AddField(u, f) PROVE FieldInv'
  <2>1. \A v \in Urls : declared[v] \subseteq declared'[v]
    BY <1>13 DEF AddField, TypeOK
  <2>2. UNCHANGED <<entries, pc, client, asked, answer, verdict, born, pointed, mislabelled>>
    BY <1>13 DEF AddField, localVars
  <2>3. \A p \in Procs : pc[p] # "idle" => declared[client[p]] \subseteq declared'[client[p]]
    BY <2>1 DEF TypeOK, Shape
  <2>4. AllDeclared(entries, declared) => AllDeclared(entries, declared')
    BY <2>1 DEF AllDeclared, Declared, TypeOK, Entry
  <2>5. AllDeclared(entries, declared)' = AllDeclared(entries, declared')
    BY <2>2 DEF AllDeclared, Declared
  <2>6. FieldsTruthfulUnlessMislabelled'
    <3>1. \A p \in Procs : \A u_1 \in pointed[p] : declared[u_1] \subseteq declared'[u_1]
      BY <2>1 DEF TypeOK
    <3>2. QED
      BY <2>2, <3>1 DEF FieldInv, FieldsTruthfulUnlessMislabelled
  <2>7. NoStaleRefusal'
    BY <2>2 DEF FieldInv, NoStaleRefusal
  <2>8. ASSUME NEW p \in Procs
        PROVE  /\ pc'[p] # "idle" => born'[p] \subseteq declared'[client'[p]]
               /\ pc'[p] = "fieldPersist" => /\ born'[p] \subseteq answer'[p]
                                             /\ answer'[p] \subseteq declared'[client'[p]]
    BY <2>2, <2>3 DEF FieldInv
  <2>9. QED
    BY <2>2, <2>4, <2>5, <2>6, <2>7, <2>8 DEF FieldInv
<1>14. CASE UNCHANGED vars
  <2>1. AllDeclared(entries, declared)' = AllDeclared(entries, declared)
    BY <1>14 DEF vars, AllDeclared, Declared
  <2>2. QED
    BY <1>14, <2>1 DEF vars, localVars, FieldInv, FieldsTruthfulUnlessMislabelled, NoStaleRefusal
<1>15. QED
  BY <1>1, <1>2, <1>3, <1>4, <1>5, <1>6, <1>7, <1>8, <1>9, <1>10, <1>11, <1>12,
     <1>13, <1>14 DEF Next, Step

\* FieldsTruthfulUnlessMislabelled: until persist_names stores a catalogue in an
\* entry re-pointed since the probe, keys pass only if they are declared by the
\* command's server or by one its name was pointed at before it read the cache.
THEOREM FieldsOrMislabelled == Spec => []FieldsTruthfulUnlessMislabelled
<1>1. FieldInv => FieldsTruthfulUnlessMislabelled
  BY DEF FieldInv
<1>2. QED
  BY <1>1, InitType, NextType, InitGate, NextGate, InitField, NextField, PTL DEF Spec

\* NoStaleRefusal: whatever was cached, a key that the server declared when the
\* command started is not refused.
THEOREM StaleNeverRefuses == Spec => []NoStaleRefusal
<1>1. FieldInv => NoStaleRefusal
  BY DEF FieldInv
<1>2. QED
  BY <1>1, InitType, NextType, InitGate, NextGate, InitField, NextField, PTL DEF Spec

=============================================================================
