----------------------------- MODULE Connection -----------------------------
(***************************************************************************)
(* connect_and_configure: how a command decides whether it trusts a        *)
(* server's certificate, finds out how to authenticate to it, and writes   *)
(* both decisions back to the server's entry in config.toml.               *)
(*                                                                         *)
(* A command loads the entry once and works from that snapshot: it shakes  *)
(* hands with the server, may ask the user about a certificate, probes the *)
(* server's settings, and only then writes, by name, into whatever the     *)
(* entry has become.  Other commands replace, remove or connect through    *)
(* the same entry meanwhile, and the server renews its certificate.        *)
(*                                                                         *)
(* One entry is modelled (names do not interact).  Every update_locked     *)
(* call is one step (ConfigStore); every network call and every prompt is  *)
(* a step of its own.  A failed call, a refused prompt, a rejected or      *)
(* failed write and a kill all end the command with the entry as it is.    *)
(***************************************************************************)
EXTENDS Naturals, FiniteSets

CONSTANTS Procs,         \* bzr processes
          Urls,          \* server URLs
          Certs,         \* leaf certificates
          Issuers,       \* their issuers (the issuer's DER bytes)
          IssuerOf,      \* Certs -> Issuers
          Trusted,       \* the certificates the OS trust store accepts
          Methods,       \* AuthMethod: how the key is sent
          Header,        \* AuthMethod::Header, the fallback
          Method,        \* Urls -> Methods: what a differential probe finds
          None,          \* absent option
          InitEntries,   \* entries config.toml may hold at the start
          NewEntries,    \* entries set-server may write
          Faults,        \* {"network", "version"}: probes that may fail
          MaxCommands,   \* bound: commands run
          MaxRotations   \* bound: certificates renewed

\* The fields of ServerConfig that connecting reads or writes.
ServerConfig ==
  [url    : Urls,
   trust  : {"default", "insecure", "ca"},      \* tls_insecure, tls_ca_cert
   pin    : Certs \cup {None},                  \* tls_pin_sha256
   der    : Issuers \cup {None},                \* tls_pin_issuer_der
   cred   : {"key", "token", "none"},
   auth   : Methods \cup {None},                \* auth_method
   source : {"detected", "pinned", "unknown"},  \* auth_method_source
   mode   : BOOLEAN]                            \* api_mode is known

\* ServerConfig::validate_tls: one way to trust a server at most.
Valid(e) == e.pin # None => e.trust = "default"

\* An entry as set-server leaves it: no issuer, no detected setting, and an
\* --auth-method stamped as the user's.
Fresh(e) ==
  /\ e.der = None /\ ~e.mode
  /\ e.source = IF e.auth = None THEN "unknown" ELSE "pinned"

ASSUME ConnectionAssumption ==
  /\ None \notin Certs \cup Issuers \cup Methods \cup ServerConfig
  /\ Urls # {}
  /\ IssuerOf \in [Certs -> Issuers]
  /\ Trusted \subseteq Certs
  /\ Header \in Methods
  /\ Method \in [Urls -> Methods]
  /\ InitEntries \subseteq ServerConfig
  /\ \A e \in InitEntries : Valid(e)
  /\ NewEntries \subseteq ServerConfig
  /\ \A e \in NewEntries : Valid(e) /\ Fresh(e)
  /\ MaxCommands \in Nat
  /\ MaxRotations \in Nat

\* An entry found at the start is one that commands run one at a time left: a
\* detected method is its server's, a recorded issuer the one of its pin.
ASSUME EntriesAssumption ==
  \A e \in InitEntries :
    /\ e.source = "detected" => e.auth = Method[e.url]
    /\ e.pin # None /\ e.der # None => e.der = IssuerOf[e.pin]

VARIABLES
  entry,      \* the server's entry in config.toml, or None
  cert,       \* the certificate each URL presents
  accepted,   \* the <<url, certificate>> pairs users agreed to keep
  pc,         \* each process's next step
  snap,       \* the entry it loaded, with this session's trust
  seen,       \* the certificate shown to its user
  found,      \* the settings it detected
  commands,   \* commands started
  rotations,  \* certificates renewed
  repointed,  \* the entry got a URL that a command under way does not know (history)
  repinned    \* it got an issuer that a command about to rotate does not know (history)

procVars == <<pc, snap, seen, found>>
boundVars == <<commands, rotations>>
histVars == <<repointed, repinned>>
vars == <<entry, cert, accepted, procVars, boundVars, histVars>>

\* DetectedServerSettings; version: server_version is Some.
Settings == [auth : Methods \cup {None}, probed : BOOLEAN, version : BOOLEAN]
NoSettings == [auth |-> None, probed |-> FALSE, version |-> FALSE]

Steps == {"idle", "probe", "detect", "redetect", "untrusted", "tofu",
          "rotate", "repin", "persist", "repersist", "pin-now"}

-----------------------------------------------------------------------------
(* Reading an entry: resolve_config_target and the arms of                 *)
(* connect_and_configure.                                                  *)

\* auth_method_is_trusted
AuthTrusted(e) == e.source \in {"detected", "pinned"}

\* cached_auth
CachedAuth(e) == IF e.cred = "key" /\ AuthTrusted(e) THEN e.auth ELSE None

\* Nothing is detected: the certificate is probed and the cached settings used.
FullyCached(e) ==
  /\ e.cred # "token" /\ e.mode
  /\ CachedAuth(e) # None \/ e.cred = "none"

\* Whether what detection says of the auth method is recorded: not with a
\* token, and not over a cached method.
RecordsAuth(e) == e.cred # "token" /\ CachedAuth(e) = None

\* What the handshake makes of certificate c.  With a custom CA either may
\* happen, and a refusal is the end of the command.
Accepts(e, c) ==
  \/ e.trust # "default"
  \/ e.pin = c
  \/ e.pin = None /\ c \in Trusted

\* apply_tls_verification, with no user-configured anchor
Unanchored(e) == e.trust = "default" /\ e.pin = None

\* Mutant of PinMismatch: the issuer is not compared.
PinMismatchAnyIssuer(e, c) == e.trust = "default" /\ e.pin \notin {None, c}

\* PinnedCertVerifier: the pin differs, and the issuer is the pinned one or
\* was never recorded.
PinMismatch(e, c) ==
  /\ e.trust = "default" /\ e.pin \notin {None, c}
  /\ e.der \in {None, IssuerOf[c]}

\* It differs, whatever the issuer.
PinFailure(e, c) == e.trust = "default" /\ e.pin \notin {None, c}

-----------------------------------------------------------------------------
Init ==
  /\ entry \in InitEntries \cup {None}
  /\ cert \in [Urls -> Certs]
  /\ accepted = IF entry = None \/ entry.pin = None THEN {} ELSE {<<entry.url, entry.pin>>}
  /\ pc = [p \in Procs |-> "idle"]
  /\ snap = [p \in Procs |-> None]
  /\ seen = [p \in Procs |-> None]
  /\ found = [p \in Procs |-> NoSettings]
  /\ commands = 0
  /\ rotations = 0
  /\ repointed = FALSE
  /\ repinned = FALSE

\* A command is started.
Count ==
  /\ commands < MaxCommands
  /\ commands' = commands + 1

\* A process starts a command of several steps.
Begin(p, step, e, c) ==
  /\ pc[p] = "idle"
  /\ Count
  /\ pc' = [pc EXCEPT ![p] = step]
  /\ snap' = [snap EXCEPT ![p] = e]
  /\ seen' = [seen EXCEPT ![p] = c]
  /\ UNCHANGED <<found, rotations, histVars>>

\* The entry is written with URL u, which a command that is still to write to it
\* by name may have loaded with another one (history).
Repoint(u) ==
  repointed' = (repointed \/ \E q \in Procs :
                               pc[q] \notin {"idle", "pin-now"} /\ snap[q].url # u)

\* A pin is written with issuer i, and a command whose own pin may turn out to
\* have been rotated loaded it with another one, or with none (history).
Reissue(i) ==
  repinned' = (repinned \/ \E q \in Procs :
                             /\ pc[q] \in {"probe", "detect", "rotate", "repin"}
                             /\ snap[q].pin # None /\ snap[q].der # i)

Goto(p, step) == pc' = [pc EXCEPT ![p] = step]

\* The command is over.
End(p) ==
  /\ Goto(p, "idle")
  /\ snap' = [snap EXCEPT ![p] = None]
  /\ seen' = [seen EXCEPT ![p] = None]
  /\ found' = [found EXCEPT ![p] = NoSettings]
  /\ UNCHANGED boundVars

\* update_locked: mutate the entry on disk, if there still is one; a result
\* that does not validate is not written.
Update(new) ==
  IF entry = None THEN UNCHANGED entry
                  ELSE Valid(new) /\ entry' = new

-----------------------------------------------------------------------------
(* connect_and_configure *)

Connect(p) ==
  /\ entry # None
  /\ Begin(p, IF FullyCached(entry) THEN "probe" ELSE "detect", entry, None)
  /\ UNCHANGED <<entry, cert, accepted>>

\* probe_cached_connection: accepted, or not reached at all; the client is
\* built from the cached settings.
Probe(p) ==
  /\ pc[p] = "probe"
  /\ Accepts(snap[p], cert[snap[p].url]) \/ "network" \in Faults
  /\ End(p)
  /\ UNCHANGED <<entry, cert, accepted, histVars>>

\* What detection answers: the probed method if a key is there to probe with.
\* A version endpoint that fails leaves the version unknown.
Answers(e) ==
  {[auth |-> IF e.cred = "key" THEN Method[e.url] ELSE None,
    probed |-> e.cred = "key",
    version |-> v] : v \in {TRUE} \cup {~("version" \in Faults)}}

\* network_error_outcome: header, but not as the answer of a probe.  The version
\* is asked for all the same, and a server that has come back tells it.
Fallbacks(e, c) ==
  {[auth |-> IF e.cred = "key" THEN Header ELSE None, probed |-> FALSE,
    version |-> v] : v \in {FALSE} \cup {e.cred = "key" /\ Accepts(e, c)}}

\* detect_settings.  A pin failure's message names no certificate, so
\* is_tls_cert_error does not know it: detection goes on as if the server were
\* unreachable.
Detect(p) ==
  LET e == snap[p] IN
  /\ pc[p] \in {"detect", "redetect"}
  /\ \/ /\ Accepts(e, cert[e.url])
        /\ \E s \in Answers(e) : found' = [found EXCEPT ![p] = s]
     \/ /\ PinFailure(e, cert[e.url]) \/ "network" \in Faults
        /\ \E s \in Fallbacks(e, cert[e.url]) : found' = [found EXCEPT ![p] = s]
  /\ Goto(p, IF pc[p] = "detect" THEN "persist" ELSE "repersist")
  /\ UNCHANGED <<entry, cert, accepted, snap, seen, boundVars, histVars>>

\* Mutant of WithSettings: a fallback is stamped like an answer.
WithSettingsStamped(e, s, auth) ==
  [e EXCEPT !.auth = IF auth /\ s.auth # None THEN s.auth ELSE @,
            !.source = IF auth /\ s.auth # None THEN "detected" ELSE @,
            !.mode = @ \/ s.version]

\* persist_detected_settings, into the entry e on disk.
WithSettings(e, s, auth) ==
  [e EXCEPT !.auth = IF auth /\ s.auth # None THEN s.auth ELSE @,
            !.source = IF ~auth \/ s.auth = None THEN @
                       ELSE IF s.probed THEN "detected" ELSE "unknown",
            !.mode = @ \/ s.version]

\* Mutant of Persist: the snapshot is written back.
PersistSnapshot(p) ==
  /\ pc[p] \in {"persist", "repersist"}
  /\ entry' = WithSettings(snap[p], found[p], pc[p] = "repersist" \/ RecordsAuth(snap[p]))
  /\ End(p)
  /\ UNCHANGED <<cert, accepted, histVars>>

\* The end of a first detection, and of one that followed a trust decision
\* (detect_and_build_client), which always records the method.
Persist(p) ==
  /\ pc[p] \in {"persist", "repersist"}
  /\ Update(WithSettings(entry, found[p],
                         pc[p] = "repersist" \/ RecordsAuth(snap[p])))
  /\ End(p)
  /\ UNCHANGED <<cert, accepted, histVars>>

-----------------------------------------------------------------------------
(* tls_trust.rs: trust on first use, and pin rotation *)

\* should_offer_tofu
Untrusted(p) ==
  LET e == snap[p] IN
  /\ pc[p] \in {"probe", "detect"}
  /\ e.cred # "token"
  /\ Unanchored(e) /\ ~Accepts(e, cert[e.url])
  /\ Goto(p, "untrusted")
  /\ UNCHANGED <<entry, cert, accepted, snap, seen, found, boundVars, histVars>>

\* probe_server_cert: the certificate presented now, which is what is shown.
ProbeCert(p) ==
  /\ pc[p] = "untrusted"
  /\ seen' = [seen EXCEPT ![p] = cert[snap[p].url]]
  /\ Goto(p, "tofu")
  /\ UNCHANGED <<entry, cert, accepted, snap, found, boundVars, histVars>>

WithPin(e, c) == [e EXCEPT !.pin = c, !.der = IssuerOf[c]]

\* Mutant of TofuOnce: trust for a session is saved.
TofuOnceSaved(p) ==
  /\ pc[p] = "tofu"
  /\ Update(WithPin(entry, seen[p]))
  /\ snap' = [snap EXCEPT ![p] = WithPin(@, seen[p])]
  /\ Goto(p, "redetect")
  /\ UNCHANGED <<cert, accepted, seen, found, boundVars, histVars>>

\* The user answers "y": for this session.
TofuOnce(p) ==
  /\ pc[p] = "tofu"
  /\ snap' = [snap EXCEPT ![p] = WithPin(@, seen[p])]
  /\ Goto(p, "redetect")
  /\ UNCHANGED <<entry, cert, accepted, seen, found, boundVars, histVars>>

\* The user answers "always": the pin is saved as well.
TofuAlways(p) ==
  /\ pc[p] = "tofu"
  /\ Update(WithPin(entry, seen[p]))
  /\ accepted' = accepted \cup {<<snap[p].url, seen[p]>>}
  /\ snap' = [snap EXCEPT ![p] = WithPin(@, seen[p])]
  /\ Goto(p, "redetect")
  /\ IF entry = None THEN UNCHANGED repinned ELSE Reissue(IssuerOf[seen[p]])
  /\ UNCHANGED <<cert, seen, found, boundVars, repointed>>

\* classify_and_handle_tls_failure: the handshake's error names the rotated
\* certificate.  From a detection, only if the text of the error happens to
\* mention certificates (in the server's or the issuer's name).
Rotated(p) ==
  LET e == snap[p] IN
  /\ pc[p] \in {"probe", "detect"}
  /\ e.cred # "token"
  /\ PinMismatch(e, cert[e.url])
  /\ seen' = [seen EXCEPT ![p] = cert[e.url]]
  /\ Goto(p, "rotate")
  /\ UNCHANGED <<entry, cert, accepted, snap, found, boundVars, histVars>>

\* handle_pin_rotation, the user agreeing: the issuer is read from the entry.
AcceptRotation(p) ==
  /\ pc[p] = "rotate"
  /\ accepted' = accepted \cup {<<snap[p].url, seen[p]>>}
  /\ snap' = [snap EXCEPT ![p].pin = seen[p],
                          ![p].der = IF entry = None THEN None ELSE entry.der]
  /\ Goto(p, "repin")
  /\ UNCHANGED <<entry, cert, seen, found, boundVars, histVars>>

\* Its write: the pin and the issuer's name; the issuer's DER stays.
Repin(p) ==
  /\ pc[p] = "repin"
  /\ Update([entry EXCEPT !.pin = seen[p]])
  /\ Goto(p, "redetect")
  /\ UNCHANGED <<cert, accepted, snap, seen, found, boundVars, histVars>>

\* Any call of the command fails, its user declines, or it is killed.
Stop(p) ==
  /\ pc[p] # "idle"
  /\ End(p)
  /\ UNCHANGED <<entry, cert, accepted, histVars>>

-----------------------------------------------------------------------------
(* config set-server and config remove; the renewal of a certificate *)

\* A pin given as an argument is one the user agreed to keep.
SetServer(p) ==
  /\ pc[p] = "idle"
  /\ Count
  /\ \E e \in NewEntries :
       /\ entry' = e
       /\ accepted' = IF e.pin = None THEN accepted ELSE accepted \cup {<<e.url, e.pin>>}
       /\ Repoint(e.url)
  /\ UNCHANGED <<cert, procVars, rotations, repinned>>

\* --tls-pin-now, first half: the certificate is read and shown ...
PinNow(p) ==
  /\ \E e \in NewEntries :
       Unanchored(e) /\ Begin(p, "pin-now", e, cert[e.url])
  /\ UNCHANGED <<entry, cert, accepted>>

\* ... second half: the user agrees and the entry is written.
ConfirmPin(p) ==
  /\ pc[p] = "pin-now"
  /\ entry' = WithPin(snap[p], seen[p])
  /\ accepted' = accepted \cup {<<snap[p].url, seen[p]>>}
  /\ Repoint(snap[p].url)
  /\ Reissue(IssuerOf[seen[p]])
  /\ End(p)
  /\ UNCHANGED cert

\* --tls-pin-clear
PinClear(p) ==
  /\ pc[p] = "idle"
  /\ Count
  /\ entry # None
  /\ entry' = [entry EXCEPT !.pin = None, !.der = None]
  /\ UNCHANGED <<cert, accepted, procVars, rotations, histVars>>

Remove(p) ==
  /\ pc[p] = "idle"
  /\ Count
  /\ entry # None
  /\ entry' = None
  /\ UNCHANGED <<cert, accepted, procVars, rotations, histVars>>

Renew(u) ==
  /\ rotations < MaxRotations
  /\ rotations' = rotations + 1
  /\ \E c \in Certs \ {cert[u]} : cert' = [cert EXCEPT ![u] = c]
  /\ UNCHANGED <<entry, accepted, procVars, commands, histVars>>

Step(p) ==
  \/ Connect(p) \/ Probe(p) \/ Detect(p) \/ Persist(p)
  \/ Untrusted(p) \/ ProbeCert(p) \/ TofuOnce(p) \/ TofuAlways(p)
  \/ Rotated(p) \/ AcceptRotation(p) \/ Repin(p) \/ Stop(p)
  \/ SetServer(p) \/ PinNow(p) \/ ConfirmPin(p) \/ PinClear(p) \/ Remove(p)

Next == (\E p \in Procs : Step(p)) \/ (\E u \in Urls : Renew(u))

Spec == Init /\ [][Next]_vars

-----------------------------------------------------------------------------
(* Properties *)

\* Every variable keeps its shape; a process is at a step of a command exactly
\* while it holds a snapshot.
TypeOK ==
  /\ entry \in ServerConfig \cup {None}
  /\ cert \in [Urls -> Certs]
  /\ accepted \subseteq Urls \X Certs
  /\ pc \in [Procs -> Steps]
  /\ snap \in [Procs -> ServerConfig \cup {None}]
  /\ seen \in [Procs -> Certs \cup {None}]
  /\ found \in [Procs -> Settings]
  /\ commands \in Nat
  /\ rotations \in Nat
  /\ repointed \in BOOLEAN /\ repinned \in BOOLEAN
  /\ \A p \in Procs : (pc[p] = "idle") <=> (snap[p] = None)

Shown(c) == \E u \in Urls : <<u, c>> \in accepted

\* No certificate is pinned that no user agreed to keep: not one trusted for a
\* session, not one the server renewed between the handshake and the prompt or
\* between the prompt and the write, whatever other commands do to the entry.
PinShown == entry # None /\ entry.pin # None => Shown(entry.pin)

PinOfOwnUrl ==
  entry # None /\ entry.pin # None => <<entry.url, entry.pin>> \in accepted

\* The pin was accepted for the entry's own URL, however commands connect through
\* and replace the entry at the same time (handle_tofu: "the prompt describes one
\* endpoint while pinning another" is what must not happen) - unless the entry was
\* re-pointed under a command, which does not look (PinOfOwnUrl fails then).
PinAccepted == ~repointed => PinOfOwnUrl

\* The ways to trust a server exclude each other in every entry on disk, though
\* a pin accepted at a prompt is written into an entry that may have been given
\* tls_insecure or a CA since (ServerConfig::validate_tls).
TlsExclusive == entry # None => Valid(entry)

\* A server that was removed comes back only as set-server or --tls-pin-now
\* writes it, never with the settings a command detected before
\* (persist_detected_settings: "we do not resurrect a deleted server").
NoResurrection ==
  [][entry = None /\ entry' # None =>
       /\ ~entry'.mode
       /\ entry'.source = IF entry'.auth = None THEN "unknown" ELSE "pinned"]_vars

MethodOfOwnUrl ==
  entry # None /\ entry.source = "detected" => entry.auth = Method[entry.url]

\* A method stamped as probed is the one the entry's server answered to, however
\* many commands detect, fall back and replace the entry at the same time: the
\* stamp stops every later detection (auth_method_is_trusted).  The exception is
\* an entry that was re-pointed under a command: persist_detected_settings does
\* not look at the URL (MethodOfOwnUrl fails then).
DetectedSound == ~repointed => MethodOfOwnUrl

IssuerOfOwnPin ==
  (entry # None /\ entry.pin # None /\ entry.der # None) => entry.der = IssuerOf[entry.pin]

\* A stored issuer is the issuer of the stored pin (handle_pin_rotation: "the DER
\* bytes are still valid"), through renewals, prompts, pins given, cleared and
\* accepted by several commands at once - unless a pin of another issuer was saved
\* while a command had a rotation to decide on (IssuerOfOwnPin fails then).
PinIssuerMatches == ~repinned => IssuerOfOwnPin

\* The rotation prompt, which says the issuer is unchanged, is shown only for a
\* certificate of the pinned one's issuer, if the pin was recorded with its
\* issuer, and under the same condition.
RotationSameIssuer ==
  \A p \in Procs :
    ~repinned /\ pc[p] = "rotate" /\ snap[p].der # None
      => IssuerOf[seen[p]] = IssuerOf[snap[p].pin]

\* The same of any pin, one given by hand without its issuer too.
RotationSameIssuerAnyPin ==
  \A p \in Procs :
    ~repinned /\ pc[p] = "rotate" => IssuerOf[seen[p]] = IssuerOf[snap[p].pin]

\* Connecting never changes an auth method the user set (AUTH_METHOD_SOURCE_
\* PINNED: "Never re-detected").
PinnedAuthKept ==
  [][(/\ entry # None /\ entry' # None
      /\ entry.source = "pinned"
      /\ \E p \in Procs : pc[p] \in {"persist", "repersist"} /\ pc'[p] = "idle")
     => /\ entry'.auth = entry.auth
        /\ entry'.source = "pinned"]_vars

\* When no network call fails, a detection that meets another certificate than
\* the pinned one does not go on: a rotation is offered instead.
RotationOffered ==
  [][\A p \in Procs :
       (pc[p] = "detect" /\ pc'[p] = "persist") => ~PinFailure(snap[p], cert[snap[p].url])]_vars
=============================================================================
