# A TLA+ model of bzr

bzr is a command-line client for Bugzilla servers. Every invocation is one
short-lived process that reads its configuration, connects to a server, makes
requests and exits. What makes it worth modelling is what several such
processes share, and what one of them does half way:

- `config.toml`, rewritten by configuration commands and, behind the user's
  back, by every connection that detects something about a server;
- the OS keychain, which no transaction ties to `config.toml`;
- the directories agent skills are installed into;
- the Bugzilla server, which is changed by other users meanwhile, is asked over
  two protocols, sees retried and repeated requests, and whose answers may be
  lost, cut off, too large, or given by something else in its place.

This directory holds TLA+ modules translated from the Rust source, the TLC
configurations that check them on small instances, and TLAPS proofs of the
properties that matter most for every value of the constants.

## Inventory

| Component | Source (`src/src/`) | State | Operations | Hard behaviour | What makes it correct | Modules |
|---|---|---|---|---|---|---|
| Config store | `config/store.rs` | `config.toml`, `config.lock`, temp siblings, per-thread `LOCK_HELD` | `load_at`, `update_locked_at`, `update_locked_without_validation_at` | concurrent writers, kills and power loss between any two system calls, a sweep of stale temps, nested calls | no update lost, no torn file, no deadlock, acknowledged means durable | `ConfigStore`, `AtomicConfig` |
| Config commands | `commands/config/*`, `commands/auth.rs`, `credentials/` | server entries, default pointer, keychain, login tokens | set-server, import-bugzillarc, set-default, remove, rename, set/unset-keyring, migrate, login, logout | decisions on a snapshot, two stores and no transaction, a slow server in between | the default resolves, one credential source, no reference dangles | `ConfigCommands` |
| Connection | `commands/runtime/shared/connection/`, `tls/` | auth method and its stamp, api mode, certificate pin and issuer of an entry | connect, probe, detect, trust on first use, rotate, persist; set-server's TLS options | detection and prompts outside the lock; the entry re-pointed or removed meanwhile; rotated certificates | pins come from the user, a removed server does not return, a stamped method is the server's | `Connection` |
| Auth and version detection | `client/auth/`, `client/version.rs` | one call's progress | whoami, valid_login, the comparison at rest/user, version | answers that are not the server's, anonymous answers, servers that ignore a key | what is recorded is true; the key is not sent on after an alarm | `AuthDetect` |
| Server caches | `commands/runtime/shared/{capability,field_catalogue}.rs` | extensions and fields of an entry, each with the URL it is from | capability gate, validation of `--field` names | probes outside the lock, the entry re-pointed, caches of another bzr version | gates tell the truth; nothing stale refuses | `ServerCaches` |
| Skills installer | `skills/installer.rs` | skill directories, `.bzr-skill.lock` with a locked pid file | lock, recover, stage, replace, release | two installers, a crashed one, rename aside and back, everything by path | one installer per destination, no content lost | `SkillsInstall` |
| Transport | `client/transport.rs`, `client/response.rs` | attempts, the alternate credential | send, retry, alternate auth, classify an answer | timeouts after the server acted, 5xx, late answers, refusals without a code | a write is applied once at most and reported truthfully | `Transport`, `RemoteCall` |
| REST, XML-RPC and hybrid dispatch | `client/mod.rs`, `client/resources/`, `xmlrpc/` | one operation's route | every fallback from one protocol to the other | mixed failures, answers that leave out what the caller may not see, the time limit of a search's fallback | hidden is not "not found"; nothing private is dropped in silence; nothing too large is fetched twice | `Dispatch` |
| Listings and search paging | `commands/bug/{list,my,search}.rs`, `commands/runtime/search/` | offset, rows, truncation | windows, pages, unions, counts, save | bugs enter and leave between pages, clamped limits, the end of `u32` | nothing that matched throughout is missing; the note about more is true | `Search`, `SearchRequest` |
| Reads of several bugs | `commands/bug/{links,adjacency,view}.rs` | layer, distances, results | walk, look up | others edit, hide, open and revoke meanwhile; cap and chunks | a walk is exact; "inaccessible" is proven | `BugReads` |
| Saved queries | `commands/query/`, `types/query.rs`, `commands/runtime/input/url_parser.rs` | `queries` of config.toml | save, update, run, delete, URLs | two commands on one query; two encoders of one search | an update touches what it names; both protocols are asked the same | `SavedQueries`, `SearchRequest` |
| Bug update, create and clone | `commands/bug/` | the server's bugs | update (flags, JSON, verbs), create and its compound steps, clone | partial failure, mid-air collisions, another user's comment | no write before the last gate, none left without a word; the report is true | `BugWrites` |
| Input of a new bug, templates | `commands/bug/create*.rs`, `commands/template/`, `commands/runtime/input/` | `templates` of config.toml, standard input | create from flags, template, editor, stdin, JSON; template save, update, delete | one input wanted by two readers, layers of defaults | all that was asked for is filed, once | `NewBug` |
| Attachments | `commands/attachment/`, `client/attachment_stream/` | the server's attachments and comments, files | upload, make private, download; reading an answer while it arrives | lost answers, failures half way through a batch, damaged and cut-off answers | a private text is exposed once at most; a file is what was asked for | `Attachments`, `AttachmentStream` |
| Interaction and mutation guards | `commands/runtime/interaction/`, `commands/runtime/input/` | none | confirm, dry run, editor | part of the commands that use them | see there | in `BugWrites`, `NewBug`, `Attachments` |
| Other resource commands | `commands/{comment,component,group,product,user,...}` | none | one request each | the client's | the client's | not modelled |
| CLI, output, validation, types, errors | `cli/`, `output/`, `validation/`, `types/`, `error.rs`, `main.rs`, `lib.rs` | none | parsing, formatting, exit codes | none of its own | functions of their input | not modelled, but for what the modules above need |
| Tests, docs, skills content, shell installers, fuzzing, site | `tests/`, `docs/`, `agent-skills/`, `content/`, `fuzz/`, `tools/`, `xtask/` | none | none | none | not the program | not modelled |

The components meet in four places. Commands call the connection, which calls
the config store and the client. The config store's `update_locked_at` is the
only writer of `config.toml`. The keychain is called by the config commands
(to write) and by the connection (to read a key). The client is the only part
that talks to the server.

## How the modules fit together

```
            config.toml                          the server

AtomicConfig  <== implemented by == ConfigStore  RemoteCall <== implemented by == Transport
     |                                               |
     |  a locked update is one atomic step           |  a write is one call: ok, refused
     v                                               v  or unknown, applied once at most
ConfigCommands  Connection  ServerCaches         BugWrites   Attachments
(entries, keys) (trust,     (cached answers)     (bugs)      (files)
                 auth)
NewBug          SavedQueries                     Dispatch --- Search
(templates)     (queries) --- SearchRequest      (routes)    (pages of operations)

AuthDetect (what Connection's detection finds)   BugReads    AttachmentStream
SkillsInstall (its own locks and directories)    (walks)     (one answer)
```

`ConfigStore` models the file-level protocol and is proved to implement
`AtomicConfig`: an update becomes visible in one step on top of every update in
effect then. Every module that changes `config.toml` uses that result: in it a
locked update is one action that reads and writes the current contents. What
they keep apart are the steps around it: the snapshot a command reads before
the lock, network calls, prompts and keychain calls. Another process may act
between any two of them, and a command may stop after any of them.

`Transport` models one `send` with its retries and is proved to implement
`RemoteCall`. `BugWrites` and `Attachments` use that in turn: a write there is
one step with three outcomes, "unknown" leaving open whether the server has
made the change or will yet.

`Search` extends `Dispatch`: each page of a listing is an operation that takes
its route over the two protocols. `SavedQueries` extends `SearchRequest`.
`Selection` is `Iterator::filter`, which these and `BugReads` have in common.

For a module `X`, `MCX` gives the constants of its small instances, and
`XProofs` has the theorems of the module `X`; `ConnectionProofs` has those of
`AuthDetect` too, `BugWritesProofs` those of `NewBug`, `TransportProofs` those of
`Attachments`, and `ReadsProofs` those of `Dispatch`, `Search`, `BugReads` and
`SavedQueries`. Modules whose questions are of one kind share a run
when they share no state: in `MCReads` the operations and listings, the reads
of several bugs, or saved queries are at work; in `MCBugWrites` the commands
that write bugs or the making of new ones; in `MCAttachments` the commands or
the reading of one answer; in `MCConnection` the connections or one detection.
The initial state chooses, and the others stand still.

An operator whose comment begins with "Mutant of" is the definition below it
with one plausible mistake. No specification uses it; it shows which mistake
the property detects.

### ConfigStore: `config/store.rs`

| Code | Model |
|---|---|
| `config.toml`, what a crash may bring back | `disk`, `durable` (a set of files) |
| temp siblings, those older than `STALE_TEMP_AGE` | `temps`, `aged` |
| flock on `config.lock`, thread-local `LOCK_HELD` | `lock`, `lockHeld` |
| `update_locked_inner`, one action per system call | `pc` and the actions of `Step` |
| the loaded `Config`, the temp being written | `buf`, `tmp` |
| the call's result | `result`, `acked`, `failed` |

A configuration is the set of updates it reflects, so a clobbered edit is a
missing element. Every call that can fail has a failing disjunct. A kill drops
a process's lock and memory and leaves its temp. A power failure leaves one of
the `durable` files: a rename is durable once the directory is synced, and may
be durable before.

### ConfigCommands: `commands/config/*.rs`, `commands/auth.rs`, `credentials/`

`entry` and `default` are the file, `keychain` the OS store, `issued` and
`live` the login tokens of the servers. Each command is the sequence of its
real steps: what it checks on a snapshot (`...Start`), keychain calls
(`KeyringStore`, `RenameRetrieve`, `KeyringDelete`), server calls
(`LoginRemote`, `LogoutRemote`), and the locked update (`...Commit`), with
validation exactly where the code validates (`WriteValidated`). `Stop` ends a
command at any step: an error, a kill, or an update that failed.

### Connection: `commands/runtime/shared/connection/`, `tls/`

`entry` is one server's entry. `snap` is what a command loaded plus the trust
it added for this session, `seen` a certificate shown at a prompt, `found` what
a probe returned. `Connect` resolves the target; `Probe`, `Untrusted`, and
`Rotated` are the outcomes of the handshake; `ProbeCert`, `TofuOnce`,
`TofuAlways`, `AcceptRotation`, `Repin` the two prompts and their writes;
`Detect` and `Persist` the detection of settings. `SetServer`, `PinNow`,
`ConfirmPin`, `PinClear` and `Remove` are the configuration commands that touch
the same fields. `Renew` gives a server a new certificate. `repointed` and
`repinned` are history variables: the entry was written with another URL, or a
pin with another issuer, under a command that had loaded it.

### AuthDetect: `client/auth/`, `client/version.rs`

`site` is the kind of server: which ways to pass a key it honours, what it has
of the three endpoints. `next` is the request that goes out next; one action
per request (`Whoami`, `Login`, `CompareHeader`, `CompareAnonymous`,
`CompareQuery`, `CompareAgain`, `ReadVersion`), each with its own reading of
the answer (`WhoamiOutcome`, `LoginOutcome`, `Conclusive`). `Exchange` picks the
answer: the server's, by its nature, or one of `Anomalies` in its place, at
most `MaxAnomalies` times. The chain itself (what is tried after what) follows
`detect_auth_method`. `asked` is the log of what was asked of the server, in what
form and with what result (history).

### ServerCaches: `capability.rs`, `field_catalogue.rs`

An entry of `entries` holds the two caches, each labelled with a URL, and the
extension cache also with the list of capabilities its writer knew. `Known`
differs between processes: an upgrade of bzr. A command is `Connect`, which
names a server or takes the default, a read of the cache (`GateRead`,
`FieldRead`), a probe if that did not decide (`GateProbe`, `FieldProbe`) and a
locked write (`GatePersist`, `FieldPersist`). A field check reads and writes by
the name the connection was made with; a gate resolves the name again
(capability.rs:160), so that the default may have moved since: `target` is the
name given until the gate has read, and the name resolved afterwards. Entries
are replaced (`SetServer`), edited by hand (`EditUrl`, which docs/bzr-cli.md
describes) or removed, and the default is moved, at any time. `pointed` (the
URLs that the command's name, or the default, has had since it connected),
`born` and `mislabelled` are history variables; no action reads them to decide
anything.

### SkillsInstall: `skills/installer.rs`

`lockPath` is the lock directory at a path, named by the run that made it;
`marker` and `flock` are its pid file and the advisory lock on it. `pc` follows
`acquire_destination_lock`, `create_lock_file` (creating and locking are two
steps), `recover_or_refuse_existing_lock` (inspecting, opening, locking,
detaching and sweeping are five), then `install_skill` and `replace_target`
with their rollback. Whatever is addressed by path in the code is looked up by
path in the model at that very step. `kept` records what a destination must not
lose, `robbed` that a live run's lock was detached.

### Transport and RemoteCall: `client/transport.rs`, `client/response.rs`

Requests are numbered as they reach the server; `inflight` are those it has not
handled, `applied` those whose change it made. `Deliver`, `ConnectFails` and
`TimesOut` are the fates of a request, `Handle` the server, which may answer a
client that has given up. `Answered` and `Unauthorized` are the ends of
`send_raw`, `AlternateAnswered` is `retry_with_alternate_auth`, `Conclude` the
loop of `send`, `Report` the reading of status and body.

### Dispatch and Search: `client/resources/`, `commands/runtime/search/`

An operation `op` has a `route`: the endpoint to ask next, with what is
remembered of the one before. `Answers` are what an endpoint of this server says
to this caller; `Answer`, `Lose`, `Garble`, `Oversize` and `CapOut` the five
things that can come of asking, and `Onward` where the code goes from there:
`...ToXmlRpc`, `...ToRest`, `LookupToSearch`, each from the `match` of its own
function. XML-RPC that does not parse counts as no answer (`IsTransportFailure`),
JSON that does not is an error; a crash of the server's handler is retried by
search only if it comes in a body of HTTP 200 (`internal`), not under an error
status (`crashed`).

`Search` puts operations in a row: `Ask` begins the next page,
`WindowRead` and `PageRead` take its rows, `NextCategory` goes on to the next
search of `bug my`, `Show` decides the note about more, `Save` is `--save-as`.
`Enter` and `Leave` change what matches while pages are read.

### BugReads: `commands/bug/{links,adjacency,view}.rs`

`read` is the command, `graph` the relations, `visible` the bugs the user may
see. A walk reads its root, then layer after layer in chunks of `ChunkSize`
(one by one over XML-RPC), up to `MaxRelated` bugs. A look-up goes through the
names; when the server says that a bug is inaccessible, the credentials are
proved before that is reported.

### SearchRequest and SavedQueries

`SearchRequest` is the encoding of a search twice over, `RestRequest` (in
`client/resources/bug.rs`) and `XmlRpcRequest` (in `xmlrpc/resources/bug.rs`), as
sequences of parts `[key, slot, value]`. They are put together apart, as in the
code: REST repeats a name for each of its values, gives the terms of the match
types their slots first and the negated ones those after, and says `id`; XML-RPC
gives a name one array, numbers the terms field by field, says `ids`, and inserts
into a struct, in which a later part of the same name replaces an earlier one.
`RestReads` and `XmlRpcReads` say what a server reads of the two: the one thing
about Bugzilla assumed there is that `ids` over XML-RPC means what `id` means over
REST (`ReadAs`). `SavedQueries` is what comes before: command lines (`Flags`,
`Accepted`), URLs (`ParsedUrl`), the merge of a run's flags over a saved query
(`ApplyOverrides`, which names the eight filters and five options of `Overrides`,
and `RunSearch`, which finds the order), the merge of an update (`Updated`, with
the fields of `apply_query_updates`), and the commands on the file, which decide on
what they read and write under the lock. `PageWindow` keeps of a URL's limit and
offset what is a number, and `--save-as` without a name is refused once the
connection stands (`Connect`).

### BugWrites: `commands/bug/`

`form` is the command line, `gate` the check to pass next (each form has the
order of its own handler, `Gates`), `i` and `k` the item and the step of it
under way. `found` is the comment that tags will be put on, looked up by reading
the bug's thread. `changed` and `thread` are what other users do. `succeeded`
and `failed` are the two sides of the report. Only a batch, or a bug that has
been created, goes on after a failure and is reported on: an error of the only
bug of the command line (`Single`), or of its creation, is returned at once
(`Returned`: update/execute.rs:131-135, create.rs:355, compound.rs:155,
clone.rs:96), with nothing but a warning about an update whose comment could not
be tagged. The entries of a JSON array are prepared, and checked, one by one
(`NextEntry`).

### NewBug: `commands/bug/create.rs`, `create_json.rs`, `commands/runtime/input/`

A process `m` at an order goes through the stages of its handler:
`ResolveDescription`, `LoadTemplate`, `Compose` (the editor), `ParseExtra`,
`CheckFlags`, or `ParseExtra`, `ReadJson`, `OverlayElement`; then `Preflight`
and `File`. Standard input is a value that reading takes away (`After`).
`SaveTemplate`, `UpdateTemplate` and `DeleteTemplate` run beside it.

### Attachments and AttachmentStream

`Attachments` has the targets of one command, what the server holds, and what
is on `disk`. An upload is `Upload`, `FindComment`, `Flip`; a download `List`,
`Fetch`, `Create` (which truncates the destination) and `Copy`. The server lists
the attachments of a bug in any order.

`AttachmentStream` reads an answer token by token: `parser` is the stack of the
reader, `body` what it keeps, with a marker in the place of each data, `file`
and `spans` where the decoded data went. `EndStream` hands the body to the
parser of ordinary answers (`XmlMarkers`, `JsonMarkers`), finds the attachment
asked for (`Chosen`) and delivers its span of the file.

## What the runs check

| Run | Configuration | Properties | Question | Result |
|---|---|---|---|---|
| `store_safety` | `MCConfigStore.cfg` | `ConfigWhole` `AckedSurvives` `ImplementsAtomic` | Is `update_locked` whole, durable, and does it implement `AtomicConfig`, with a kill and a power failure? | holds |
| `store_live` | `MCConfigStoreLive.cfg` | `EveryCallReturns` | Does every call return, nested ones and those under contention too? | holds under weak fairness |
| `cmd_concurrent` | `MCConfigConcurrent.cfg` | `PointersResolve` `LogoutKeepsLiveToken` | Every command, two at a time, stopped anywhere: does the default resolve, do keyring references no other server shared while commands do not overlap, does logout spare a replacement token? | holds |
| `cmd_unset` | `MCConfigUnset.cfg` | `DeletesUnreferenced` | Is a keychain entry deleted only when nothing points at it? | violated, see Findings |
| `connect_concurrent` | `MCConnection.cfg` | `PinShown` `NoResurrection` `DetectedSound` `PinIssuerMatches` `SettingsTrue` `NoKeyAfterAlarm` | Two commands at a time and failing probes: is every pin one a user agreed to, does a removed server stay removed, is a stamped method the entry's server's until the entry is re-pointed under a command, a stored issuer the pin's until another issuer's pin is saved under a rotation? One detection: is what it records true, and the key kept back after an alarm? | holds |
| `skills_install` | `MCSkillsInstall.cfg` | `SerializedUnlessRobbed` `NothingLost` | Two installers, a kill, a directory of the user's: is content kept, and is exclusion lost only by robbing? | holds |
| `skills_live` | `MCSkillsInstallLive.cfg` | `EveryRunEnds` | Does every run end? | holds under weak fairness |
| `caches` | `MCServerCaches.cfg` | `GateTruthful` `FieldsTruthfulUnlessMislabelled` `NoStaleRefusal` | Two versions of bzr, moving entries and default, a growing server: is what a gate answers true of a server its name had, does only a field pass that one of them declares, is no declared field refused? | holds |
| `transport` | `MCTransport.cfg` | `AuthVerdictTruthful` `ImplementsCall` | Every kind of request, credential, server and answer, two retries: is a write applied once at most, and is what the caller is told true? | holds |
| `bug_writes` | `MCBugWrites.cfg` | `NothingUnreported` `CollisionBlocksBatch` `ReportTrue` `TagsNotOlder` `StdinWhole` `FiledAsAsked` | Every writing command with every failure and another user anywhere: does a command that ends without a report leave no write behind but the one it ends on, is the report true? Is what was asked for filed? | holds |
| `reads` | `MCReads.cfg` | `NotFoundMeansAbsent` `PrivateShown` `NothingMissed` `TruncatedTrue` `LargeNotRepeated` `LinksExact` `InaccessibleProven` `ChartsDistinct` `FallbackAsksTheSame` `RunAsUpdated` `UpdatesOnlyNamed` | Operations over two protocols, listings, walks, look-ups and saved queries, with a fault and others' edits: is what is read complete and what is said of it true? | holds |
| `attachments` | `MCAttachments.cfg` | `ExposedOnce` `TransfersTrue` `StreamedTrue` | Batches of transfers with every failure; answers cut off or damaged anywhere: are files and reports true, is a private text exposed once at most? | holds |

### Bounds, and why they are enough

- `ConfigStore`: two processes with two calls each, so that one process's
  second call meets another's crash leftovers; one kill and one power failure,
  in either order; two temp candidates, so that one can be taken.
- `ConfigCommands`: two servers and three keychain accounts (each server's own,
  and one that is nobody's name), three commands by two processes. A race needs
  two commands and a third to notice its result. The third account is shared by
  both servers if both are told to use it; `shared` remembers that it was.
- `Connection`: two URLs that answer probes differently, three certificates of
  two issuers, every kind of entry set-server writes and three kinds left by
  older versions, three commands by two processes and one renewal.
- `AuthDetect`: every kind of server `ServerType` can tell apart, and one answer
  that is not the server's. With two (the same page before and after the
  comparison) `SettingsTrue` fails, which ADR 0056 accepts.
- `SkillsInstall`: two processes and three runs over two destinations, both
  selected by every run (`AgentTarget::All`), so that one is worked on while
  the lock of the other is held. The third run is what a recovery can rob: one
  run leaves a lock, another inspects it, a third makes a new one.
- `ServerCaches`: two names, each unset or pointing at one of two servers, one
  with extensions, one without; two versions of bzr with different lists; two
  field names; two commands and two changes of the configuration, so that a name
  or the default can move away and back during one probe.
- `Transport`: two retries: the first may be refused, the second meets what the
  first left behind.
- `Dispatch`, `Search`: every kind of operation in every mode at every kind of
  server, with one answer lost, damaged, too large or late; three bugs, windows of
  one to six rows at `MaxU32` = 6 and a listing without a limit, so that offset and limit meet the end of the
  integers; two bugs that enter or leave.
- `BugReads`: four bugs whose relations make cycles, diamonds and dead ends, a
  cap of two related bugs and chunks of two, so that both cut a layer; one edit
  by others.
- `SavedQueries`: two commands on three names, one of them a URL's own; filters
  with both signs, match types, charts of a URL beside those of flags; a run with
  every flag that one can have; a server of each of two modes.
- `BugWrites`: one bug or two, one file, one thing another user does; batches of
  two are confirmed; JSON arrays of one and of two. Three bugs would repeat the second one's step.
- `NewBug`: two commands on one template; each layer (flag, template, `--field`,
  JSON, standard input, editor) alone and against another.
- `Attachments`: three targets, the same attachment by id and by bug among them:
  one before and one after a failure.
- `AttachmentStream`: answers with two attachments in every form XML and JSON
  allow for them, cut off at every token; each with every token in turn damaged.

The constants whose names begin with `Max` are the bounds; they appear in guards
only, except `MaxU32`, `MaxPages`, `MaxRelated`, `MaxDepth` and `MaxCached`,
which are limits of the code. Deadlock checking is off where the bounded supply
of commands runs out.

### Fairness

Two runs check liveness, under weak fairness of each process's steps and
nothing else: the operating system schedules a running process, and its calls
return, with success or an error, once they can. Nobody is obliged to start a
command, and kills and power failures are free. A killed process is excused:
its `pc` is `idle`. A process may wait for the flock of `config.lock`, or for
the advisory lock of a pid file; the bounded supply of calls is why weak
fairness is enough there. With an endless supply of other callers a waiting one
could starve, which the operating system's lock queue decides and the model does
not. `Transport` states the same for the client's own steps (the request timeout
ends every wait) and nothing of the server; its `EveryCallReturns` holds under
`FairSpec`.

## What is proved

TLAPS checks every proof to its leaves. The constants are arbitrary: any number
of processes, servers, certificates, destinations, retries and commands, under
the named assumptions in the modules (`ConfigStoreAssumption`,
`ConfigCommandsAssumption`, `ConnectionAssumption`, `EntriesAssumption`,
`AuthDetectAssumption`, `SkillsInstallAssumption`, `ServerCachesAssumption`,
`TransportAssumption`, `DispatchAssumption`, `BugReadsAssumption`,
`SavedQueriesAssumption`, `ListsAssumption`, `ChartsAssumption`,
`BugWritesAssumption`, `NewBugAssumption`, `AttachmentsAssumption`), which say
what kind of value each constant is and that `None` is none of them: what a flag,
a URL or a stored query gives is a list (`ListsAssumption`), the bugs of a graph
are finitely many (`BugReadsAssumption`). Four say what is there at first or
comes from outside: in an entry a detected method is its server's and an issuer
the one of its pin (`EntriesAssumption`), a stored query has the fields of one,
the templates were saved by these commands, and the charts of one URL are
numbered apart, as Bugzilla's own pages number them (`ChartsAssumption`: without
it, what a user pasted would already collide).

| Module | Theorems | Argument |
|---|---|---|
| `ConfigStoreProofs` | `TypeCorrect`, `Exclusion`, `Whole`, `Survival`, `TempSafety`, `Refinement` | `StoreInv`: who is past the lock holds it; the buffer of a process between reload and rename extends what is on disk; its temp is whole and synced before the rename; every file a power failure could bring back is whole and holds what was acknowledged. Each is needed for the next. The refinement maps the rename to `Commit`, the return to `Acknowledge` and a power failure to `Rollback`. |
| `ConfigCommandsProofs` | `TypeCorrect`, `DefaultSound`, `SourcesSound`, `PointersSound`, `LogoutSound` | `FileInv`: the default is configured and sources are exclusive in every file; commits are validated or remove something. `AloneInv`, while no two commands have overlapped: one process at most is in a command, and what it decided still holds; and if no account was shared, every reference has its secret, one about to be written too, and an account about to be deleted has no reference. Both conditions are history that no command reads (`overlapped`, `shared`), needed because the code does break references without them. `TokenInv`: a logout holds a token that is revoked by the time it commits. |
| `ConnectionProofs` | of `Connection` `TypeCorrect`, `PinsShown`, `TrustExclusive`, `RemovedStaysRemoved`, `DetectedMethodsTrue`, `IssuersMatch`, `PinsOfOwnUrl`, `RotationsKeepIssuer`; of `AuthDetect` `DetectTypeCorrect`, `SettingsHold`, `SilentAfterAlarm` | `TypeInv` gives a certificate in hand at each prompt. `TrustInv` adds that a rotation is written only after its certificate was accepted, and that `--tls-pin-now` holds an entry as set-server writes it. What was accepted is never forgotten. `UrlInv`, until the entry is re-pointed under a command (`repointed`): an entry there and every snapshot of one have the same URL, so that what any command probed, saw or was shown belongs to the URL it writes to, however many of them write (`DetectedMethodsTrue`, `PinsOfOwnUrl`). `IssuerInv`, until a pin of another issuer is saved under a command with a rotation to decide on (`repinned`): the issuer on disk is the one such a command loaded, or was cleared since (`IssuersMatch`, `RotationsKeepIssuer`). Both conditions are histories that no action reads, and the code does go wrong past them (`MethodOfOwnUrl`, `PinOfOwnUrl`, `IssuerOfOwnPin` below). `SilentAfterAlarm` is read off the log of requests: an alarm is its last request, but for one request for the version after a comparison given up. A detection keeps `DetectInv`: after each probe the record says which answers can have been the server's own, and with one that was not, the comparison has two that were. |
| `SkillsInstallProofs` | `TypeCorrect`, `ContentSafe`, `SerializedOrRobbed`, `LocksGone` | `TypeOK` already says which handles each step has. `CopyInv`: what must be kept is at the path, aside or in the process that moved it. `OwnerInv`: while nobody was robbed, the lock directory at a held path is the holder's. `LeftInv`: a lock directory at a path belongs to a run under way, or to a killed one. |
| `ServerCachesProofs` | `TypeCorrect`, `CapabilityCache`, `Gate`, `FieldsOrMislabelled`, `StaleNeverRefuses` | `GateInv`: what a gate asked is known to its bzr, what it was answered is the client's server's, and until a command reads the cache (`PointedInv`) the URL its name has by then is among those it was pointed at. `FieldInv`: what was stored before any catalogue was mislabelled is declared by the server it is labelled with, and a probe returns at least what was declared when the command started and no more than is declared now. |
| `TransportProofs` | of `Transport` `Implements`, `AuthVerdict`, `Requests`; of `Attachments` `TransferInvariant`, `TextExposedOnce`, `ReportsTrue` | `WriteInv`: of a write, nothing is applied and nothing under way before each request; after a 5xx one may be, and nothing is retried then; after a refusal none is. `CountInv` counts requests by attempts; `AuthInv` says that an answer with a code tells the truth about the credential it was asked with. The refinement maps `applied` to `effect` and the result to `outcome`. For `Attachments`, `TransferInv`, one half for each direction. An upload (`UploadInv`): a target has one comment at most, on its own bug, and none while its upload may yet be made; what is looked up by its attachment is that comment, so that what is flipped is what was posted; only the target under way has its comment on view, unless the batch has ended there; of the targets behind, each is either done or named as lost. A download (`DownloadInv`): every attachment a target asked for is still waiting, in hand, whole, or an attachment of a target with an error; a file that is not as before was received first; what the server had at the start it still has. |
| `ReadsProofs` | of `Dispatch` and `Search` `NotFoundHolds`, `PrivateAlwaysShown`, `LargeNeverRepeated`, `NothingIsMissed`, `TruncationIsTold`; of `BugReads` `InaccessibleIsProven`, `WalksExact`; of `SavedQueries` `UpdatesAreNarrow`, `RunsAskAsUpdated`, `TermsApart`, `FallbacksAskTheSame` | `NotFoundMeansAbsent` is inductive: each leg's answer of nothing, and its fault for a missing object, are given only where the object is missing. `ReadsInv`: a call is on a route or has its result (`RouteOrResult`), and one that asks for a thread with private parts stays on XML-RPC until that gave no answer or all of it (`ThreadWhole`). `PagesInv`: what a search owes, of the bugs that match throughout, is in the rows, in the page in hand or ahead of the window (`NothingLost`); and while nothing has changed and a listing has a limit, the page in hand has the one row past it exactly if its search has more, so that the truncation kept is true of every search done (`WindowTold`). `LookupsProven`: a bug the user can see is among the inaccessible ones only if the command has failed, or is about to prove its key to a server that has revoked it. `WalkHolds`, while nobody edits: what has been met is the ball about the root of the depth reached, the layer in hand its rim, the bugs listed those within it; while a layer is read, what is in sight of it is read or still to read (`AtEdge` between layers, `AtLayer` inside one); a walk that was capped has more bugs within its depth than the cap. `QueriesInv`: what is stored and what a run holds have the fields of a query, and a run asks what it read with its flags over it. `RunsAskAsUpdated` then compares the two merges field by field (`OverridesUpdate`): of the fields a query can have, each that a run's flag can name is replaced by both, an empty list by neither, and the order the run finds for itself is the one it would find in the updated query. `AsksInv`: every query stored is of lists and its charts are apart; every search a process holds or has sent has charts of its own or those of its URL, never both (a URL's parameters leave no match types, and REST refuses a negation beside a URL's charts), and one that falls back has no URL's. `FallbacksAskTheSame` is `SameAsked`: in the URL nothing is replaced (`RestApart`), in the struct neither (`XmlRpcPart`: its parts have names or slots of their own), and field by field the terms of the two numberings are the same set, as are the names, up to `ids` for `id` and the order. |
| `BugWritesProofs` | of `BugWrites` `TypeCorrect`, `StopsAccountedFor`, `CollisionBlocks`, `ReportsTrue`, `TagsLand`; of `NewBug` `TemplatesAlwaysUsable`, `StdinReadWhole`, `EveryBugAsAsked` | `BlockInv`: up to its last gate a command has nothing applied and nothing late, and the items before the one being checked were clean at the start or the command is about to end. `SingleInv`: past its gates a command ends without a report only on a step of its only bug; up to that step, while an error would be returned, what was sent are the earlier steps of that bug, and an update has one at most. `ReportInv`: unless the command ended so, every step tried is applied, or the report names it or its bug; a later step of an item is reached only if its first was made; an update is on one side only. `TagInv`: past its first step an item has posted; threads only grow, so that a comment looked up, or carried by a late write, stays at the item's own or after it; a new bug's first comment is its description. `StepsShape` says what the steps of an item are, for any number of attachments. For `NewBug`, `IInv`: every template in the file, and every one a save is about to store, sets something and parses; an update is checked on the result, under the lock. `FilesInv`: until it is read, standard input is what the command was given, and afterwards nothing; what was to come from it is in hand from the stage that reads it on; what is ready or filed has each field that was named once, and nothing both typed and extra. |

Two modules that share a run are proved about one at a time, each for its own
specification (`SearchSpec`, `ReadsSpec`, `QueriesSpec`, `NewBugSpec`, `TransferSpec`), since in
the run the others stand still.

Only model-checked:

- `EveryCallReturns` and `EveryRunEnds`: fairness and `ENABLED` are out of the
  prover's reach.
- `StreamedTrue` of `AttachmentStream`: it compares what the parser took out of
  an answer with what the answer was made from, which the instance gives beside
  its tokens; there is no operator that says what a sequence of tokens means.
- The violation, `DeletesUnreferenced`.

The model's folds, filters and fixed points (`Select`, `met` and `Ball` of
`BugReads`, the encodings of `SearchRequest`) are recursive functions, not
recursive operators, and what they come to is proved for every list and every
depth. The library's induction theorems take an operator as a parameter, which
none of the provers can instantiate; `ReadsProofs` derives its own over sets
(`Induct`, `SeqInduct`), and that such a function exists (`IterationExists`),
from the well-foundedness of `<` on `Nat`.

Defined in the modules beside the properties of the runs are the type invariants
(`TypeOK`, `DetectTypeOK`, `ReadsTypeOK`, `ListTypeOK`, `StreamTypeOK`,
`NewBugTypeOK`, `QueriesTypeOK`, `TransferTypeOK`) and further properties that hold on the same
instances, each while its own part of a shared run is at work: `PinAccepted`,
`RotationSameIssuer`, `TlsExclusive`, `HeaderPreferred`, `KeyOutOfUrls`,
`FlipsOwn`, `LinksOnce`, `ExtensionsFound`, `NothingTwice`, `TemplatesUsable`, and
`Transport`'s `EveryCallReturns`.

## Findings

- **unset-keyring deletes a key in use** (`cmd_unset`, keyring.rs:121). The
  keychain entry is removed after the locked update; a set-keyring in between
  has stored a new key under the same account, and its server is left without
  one. The comment above says the order can at worst orphan an entry nobody
  refers to.

### Further counterexamples

Each line is a property defined in a module which the code does not keep, or
keeps only within narrower bounds. To see the trace, replace the properties of
the named configuration by this one and its constants as stated.

| Module and configuration | Property | Constants | What happens |
|---|---|---|---|
| `ConfigStore`, `MCConfigStore.cfg` | `FailedWriteLeavesConfig` | `MaxUpdates`, `TempCreateAttempts` 1, no kills, no power loss | the directory sync fails after the rename: the call returns an error and the update is in the file (store.rs:229) |
| `ConfigCommands`, `MCConfigConcurrent.cfg`, `MaxCommands` 2, `MaxTokens` 0 | `DefaultSet` | `Commands <- RemoveAndAdd` | remove-server of the default, decided while it was the only server, races set-server |
| | `RenameNeverClobbers` (action) | `Commands <- RenameAndAdd` | rename-server checks its new name on a snapshot and overwrites an entry made since |
| | `SecretsResolve` | `Commands <- RenameAndSet` | rename-server moves a key that set-keyring replaces meanwhile |
| | `SecretsResolve` | `Commands <- Shared`, one process | two servers share an account and one is removed |
| `Connection`, `MCConnection.cfg` | `PinnedAuthKept` (action) | `NewEntries <- PinnedAuth`, one process, two commands, no renewals | a certificate decision makes a connect write its detected method over the user's (detect.rs:101) |
| | `RotationOffered` (action) | `NewEntries <- ManualPin`, one process, two commands | a detection meets a rotated certificate, takes it for a network fault and goes on (auth/mod.rs:283) |
| | `RotationSameIssuerAnyPin` | `NewEntries <- ManualPin`, one process | a pin given by hand has no issuer, so every other certificate is shown as a rotation (verifier.rs:82) |
| | `MethodOfOwnUrl` | `NewEntries <- Plain`, `Trusted = {c1}`, no renewals | a method probed at one server is stamped on an entry re-pointed meanwhile (detect.rs:34) |
| | `PinOfOwnUrl` | as above, `Trusted = {}` | a certificate accepted for one server is pinned on an entry re-pointed meanwhile (tls_trust.rs:97) |
| | `IssuerOfOwnPin` | `NewEntries <- Plain`, `Trusted = {}`, no faults, two renewals | a rotation and a new pin at the same time leave one's pin with the other's issuer (tls_trust.rs:173) |
| | `SettingsTrue` | `MaxAnomalies` 2 | one page of a rate limiter on both sides of the comparison; ADR 0056 accepts this |
| `ServerCaches`, `MCServerCaches.cfg` | `FieldsTruthful` | `MaxMoves` 1 | `persist_names` labels what it probed with the URL the entry has when it is written (field_catalogue.rs:127) |
| | `GateOfClient` | `MaxMoves` 1 | the default is moved between a command's connecting and its gate, which then answers from the other server's cache (capability.rs:160) |
| `SkillsInstall`, `MCSkillsInstall.cfg` | `Serialized` | `Dests <- MCOneDest`, `Position <- MCOnePosition`, `Targets <- MCStandard`, no kill, no foreign directory | recovery reads, opens, locks and then renames whatever is at the lock path by then (installer.rs:574); `ContentSafe` is proved without the lock's help |
| `Search`, `MCReads.cfg` | `EveryMatchOrError` | | a page REST leaves empty is retried over XML-RPC for 8 s; when that runs out the list ends there without an error |
| | `HintContinues` | | the note's next offset is counted from the command line's, not from the one a URL gave |
| `Dispatch`, `MCReads.cfg` | `NoFalseRefusal`, `InvisibleOmitted` | | an account that was made though REST's answer was lost is made again over XML-RPC, which reports it as refused; a bug that may not be seen is a fault in XML-RPC mode, which ends a walk that says it omits such bugs |
| `BugReads`, `MCReads.cfg` | `TokenInaccessibleProven` | `Reads <- MCTokens` | credentials are proved only for an API key, not for a login token (adjacency.rs:132) |
| `SavedQueries`, `MCReads.cfg` | `AllFiltered` | `Commands <- MCUnfiltered` | `bug search --save-as` stores a query without a filter, which `query save` refuses (execution.rs:122) |
| | `OneOrder` | `Commands <- MCSorted` | `--sort` beside a URL's `order=` sends two orders |
| `BugWrites`, `MCBugWrites.cfg` | `TagsOwnComment` | | another user's comment between the post and the look-up gets the tags (update/execute.rs:97) |
| `NewBug`, `MCBugWrites.cfg` | `StdinWholeInJson` | `Orders <- MCTwiceRead` | a JSON document with two elements and a description from standard input: the second element gets none (create_json.rs:291) |
| `Attachments`, `MCAttachments.cfg` | `NamedWhole` | | the same file is written twice, and the second copy fails half way after the first was reported (download.rs:366) |
| | `ExposedOnceAtAll` | | an upload whose answer is lost leaves its comment public, and the batch goes on |

What the modelling met beside these, and no property states:

- A data written as a bare `<value></value>` is refused by `AttachmentStream`'s
  code though `<value/>` and `<base64/>` are read as empty.
- The last malformed probe of a detection is documented as kept; the code keeps
  the first (`client/auth/mod.rs`:301).
- `--tag` is missing from the flags that exclude `--from-url`
  (`cli/query.rs`:9-25) and is then ignored.
- A search over XML-RPC ignores `--sort`.
- Renaming or removing a server leaves its name in saved queries.
- `--field` with an internal field name beside the flag for the same field is
  not caught by `check_against`.
- A limit of 0 at a server that clamps it is cut off without the note.

## What is not modelled

- In `ConfigStore`: permission bits of the files. In `Connection` and
  `ServerCaches`: `--server-url` targets, which persist nothing, and
  credentials from the environment; a failed write of detected settings, which
  the code tolerates, is a `Stop`. The cryptography behind a certificate check
  is a relation between certificates and issuers.
- In `SkillsInstall`: several skills per destination (they are replaced one
  after the other), symbolic-link checks of path components, parsing of the
  sentinel. A process's removal of its own leftovers succeeds, and so do the
  renames of a release.
- In `ServerCaches`: a server's fields only grow and its extensions are fixed;
  rename-server, which moves an entry with its labels to another name.
- In `Transport`: the length of back-off and `Retry-After`, the variants of an
  error envelope, previews. In `AuthDetect`: the text of versions and bodies,
  beyond what the code tells apart.
- In `Dispatch`: the JSON and XML of requests and answers. In `Search`: output
  formats.
- In `BugWrites`: the fields an update sends, beyond whether there are any. In
  `NewBug`: the fields other than those a layer can disagree about.
- In `Attachments`: update and list, one request each. In `AttachmentStream`:
  the bytes inside a token and where the chunks of the transfer end, and that a
  file name is required.
- Other resource commands (comment, product, component, user, group, ...): one
  request each and no state; `Transport` and `Dispatch` have what can happen to
  the request.
- Formatting, parsing, prompts' wording, logging, exit codes: functions of
  their input.

## What could be added

The two largest parts that remain are the output layer and the definitions of
the command line, in which nothing happens in an order that could go wrong.
Worth adding are the `comment` and `attachment update` commands as further
forms of `BugWrites`, a meaning for the tokens of `AttachmentStream` against
which its parser could be proved, and a proof of `LinksOnce`.
