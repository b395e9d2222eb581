--------------------------- MODULE ConfigCommands ---------------------------
(***************************************************************************)
(* The `bzr config` and `bzr auth` commands that change config.toml, the   *)
(* OS keychain and the login tokens of a server, run by several one-shot   *)
(* processes at a time.                                                    *)
(*                                                                         *)
(* config.toml is the atomic configuration that ConfigStore implements:    *)
(* each command's update_locked call is one step on the current contents.  *)
(* What is not atomic is everything around it: the snapshot read before    *)
(* the lock, the keychain calls before and after, the calls to the server. *)
(* Each of those is a step of its own, and the command may stop (an error, *)
(* a kill, an update that was written but reported as failed) after any.   *)
(***************************************************************************)
EXTENDS Naturals, FiniteSets

CONSTANTS Procs,        \* bzr processes
          Servers,      \* server names
          Accounts,     \* keychain accounts (of the default service)
          None,         \* absent option
          EnvSecret,    \* the key an environment variable holds
          OldSecret,    \* the key the keychain holds at the start
          Default,      \* KeyringRef without an account: the server's name
          Commands,     \* the commands users may run
          MaxCommands,  \* bound: commands run
          MaxTokens     \* bound: login tokens a server issues

\* A command is its operation and the server name, with the second name of
\* `rename` or the --account of `set-keyring` and `migrate-to-keyring`.
Ops == {"set-server", "import", "set-default", "remove", "rename",
        "set-keyring", "unset-keyring", "migrate", "login", "logout"}
Command == [op : Ops, name : Servers, to : Accounts \cup {Default}]

ASSUME ConfigCommandsAssumption ==
  /\ Servers \subseteq Accounts
  /\ None \notin Accounts \cup Procs \cup {EnvSecret, OldSecret}
  /\ EnvSecret \notin Procs \cup {OldSecret}
  /\ Default \notin Accounts \cup {None}
  /\ Commands \subseteq Command /\ Commands # {}
  /\ \A c \in Commands : c.op = "rename" => c.to \in Servers \ {c.name}
  /\ MaxCommands \in Nat
  /\ MaxTokens \in Nat

VARIABLES
  default,   \* default_server
  entry,     \* servers: name -> its ServerConfig, or None
  keychain,  \* OS keychain: account -> secret, or None
  issued,    \* number of login tokens servers have issued
  live,      \* those not yet revoked
  cmd,       \* the command each process runs
  pc,        \* its next step
  held,      \* the secret or token it captured
  acct,      \* the keychain account its delete step will remove
  count,     \* commands started
  overlapped, \* two commands have run at the same time (history)
  shared      \* two servers have pointed at one keychain account (history)

configVars == <<default, entry>>
serverVars == <<issued, live>>
bounds == <<count, overlapped>>
vars == <<default, entry, keychain, issued, live, cmd, pc, held, acct, bounds, shared>>

-----------------------------------------------------------------------------
(* config/model.rs *)

\* Secrets are told apart by the process whose user typed them, and tokens by
\* number.
Secret == Procs \cup {EnvSecret, OldSecret}
Token == 1..MaxTokens

\* The credential fields of ServerConfig.
ServerConfig == [api_key : Secret \cup {None}, api_key_env : BOOLEAN,
                 keyring : Accounts \cup {Default, None},
                 token : Token \cup {None}]
NoCredential == [api_key |-> None, api_key_env |-> FALSE, keyring |-> None,
                 token |-> None]

ASSUME NoneAssumption == None \notin ServerConfig

Configured == {n \in Servers : entry[n] # None}

\* KeyringRef::account_or_default.
AccountOr(account, name) == IF account = Default THEN name ELSE account

\* credential_source counts the sources; validate refuses more than one.
OneSource(s) ==
  /\ s.api_key # None => ~s.api_key_env /\ s.keyring = None /\ s.token = None
  /\ s.api_key_env => s.keyring = None /\ s.token = None
  /\ s.keyring # None => s.token = None
Valid(e) == \A n \in Servers : e[n] # None => OneSource(e[n])

\* Two servers whose secrets are one entry of the keychain.
Sharing ==
  \E m, n \in Configured :
    /\ m # n
    /\ entry[m].keyring # None /\ entry[n].keyring # None
    /\ AccountOr(entry[m].keyring, m) = AccountOr(entry[n].keyring, n)

\* ensure_token_slot.
TokenSlot(s) == s.api_key = None /\ ~s.api_key_env /\ s.keyring = None

-----------------------------------------------------------------------------
Name(p) == cmd[p].name
To(p) == cmd[p].to
Is(p, op) == cmd[p].op = op

Goto(p, from, to) ==
  /\ pc[p] = from
  /\ pc' = [pc EXCEPT ![p] = to]

\* update_locked_at refuses to write a configuration that does not validate.
WriteValidated(e) ==
  /\ Valid(e)
  /\ entry' = e

\* A user starts a command.
Run(p, c) ==
  /\ pc[p] = "done"
  /\ count < MaxCommands
  /\ count' = count + 1
  /\ overlapped' = (overlapped \/ \E q \in Procs : pc[q] # "done")
  /\ cmd' = [cmd EXCEPT ![p] = c]
  /\ pc' = [pc EXCEPT ![p] = "start"]
  /\ held' = [held EXCEPT ![p] = None]
  /\ acct' = [acct EXCEPT ![p] = None]
  /\ UNCHANGED <<configVars, keychain, serverVars>>

\* The command ends early: a check, the keychain, the disk, the server or the
\* user refused, or the process was killed.
Stop(p) ==
  /\ pc[p] # "done"
  /\ pc' = [pc EXCEPT ![p] = "done"]
  /\ UNCHANGED <<configVars, keychain, serverVars, cmd, held, acct, bounds>>

-----------------------------------------------------------------------------
(* set_server.rs, import_bugzillarc.rs, set_default.rs *)

\* set-server replaces the whole entry and becomes the default if there is
\* none.  Its earlier load_at only words the message.
SetServer(p) ==
  /\ Goto(p, "start", "done")
  /\ Is(p, "set-server")
  /\ Valid(entry)
  /\ \E s \in {NoCredential, [NoCredential EXCEPT !.api_key = p],
               [NoCredential EXCEPT !.api_key_env = TRUE]} :
       WriteValidated([entry EXCEPT ![Name(p)] = s])
  /\ default' = IF default = None THEN Name(p) ELSE default
  /\ UNCHANGED <<keychain, serverVars, cmd, held, acct, bounds>>

\* import-bugzillarc updates or creates the entry; a key found in the file
\* replaces every other source, no key leaves the sources alone.
ImportBugzillarc(p) ==
  /\ Goto(p, "start", "done")
  /\ Is(p, "import")
  /\ LET old == IF entry[Name(p)] = None THEN NoCredential ELSE entry[Name(p)]
     IN  \E s \in {old, [NoCredential EXCEPT !.api_key = p]} :
           WriteValidated([entry EXCEPT ![Name(p)] = s])
  /\ default' = IF default = None THEN Name(p) ELSE default
  /\ UNCHANGED <<keychain, serverVars, cmd, held, acct, bounds>>

\* set-default decides under the lock.
SetDefault(p) ==
  /\ Goto(p, "start", "done")
  /\ Is(p, "set-default")
  /\ Name(p) \in Configured
  /\ default' = Name(p)
  /\ WriteValidated(entry)
  /\ UNCHANGED <<keychain, serverVars, cmd, held, acct, bounds>>

-----------------------------------------------------------------------------
(* remove.rs *)

\* The snapshot: the server exists, and is not the default of several.
RemoveStart(p) ==
  /\ Goto(p, "start", "commit")
  /\ Is(p, "remove")
  /\ Name(p) \in Configured
  /\ default = Name(p) => Configured = {Name(p)}
  /\ UNCHANGED <<configVars, keychain, serverVars, cmd, held, acct, bounds>>

\* Under the lock: the entry goes, the default pointer with it, and the
\* keychain coordinates are those of the entry removed.
RemoveCommit(p) ==
  /\ Is(p, "remove")
  /\ entry' = [entry EXCEPT ![Name(p)] = None]
  /\ default' = IF default = Name(p) THEN None ELSE default
  /\ \/ /\ Name(p) \in Configured
        /\ entry[Name(p)].keyring # None
        /\ acct' = [acct EXCEPT ![p] = AccountOr(entry[Name(p)].keyring, Name(p))]
        /\ Goto(p, "commit", "delete")
     \/ /\ Name(p) \in Configured => entry[Name(p)].keyring = None
        /\ Goto(p, "commit", "done")
        /\ UNCHANGED acct
  /\ UNCHANGED <<keychain, serverVars, cmd, held, bounds>>

-----------------------------------------------------------------------------
(* rename.rs *)

\* The snapshot: the old name exists, the new one does not.  A secret stored
\* under the server's own name has to move.
RenameStart(p) ==
  /\ Is(p, "rename")
  /\ Name(p) \in Configured
  /\ To(p) \notin Configured
  /\ \/ /\ entry[Name(p)].keyring = Default
        /\ Goto(p, "start", "retrieve")
        /\ acct' = [acct EXCEPT ![p] = Name(p)]
     \/ /\ entry[Name(p)].keyring # Default
        /\ Goto(p, "start", "commit")
        /\ UNCHANGED acct
  /\ UNCHANGED <<configVars, keychain, serverVars, cmd, held, bounds>>

RenameRetrieve(p) ==
  /\ Goto(p, "retrieve", "store")
  /\ keychain[Name(p)] # None
  /\ held' = [held EXCEPT ![p] = keychain[Name(p)]]
  /\ UNCHANGED <<configVars, keychain, serverVars, cmd, acct, bounds>>

\* Under the lock: the old entry must still be there; whatever has the new
\* name by now is replaced; the default follows.
RenameCommit(p) ==
  /\ Is(p, "rename")
  /\ Name(p) \in Configured
  /\ entry' = [entry EXCEPT ![Name(p)] = None, ![To(p)] = entry[Name(p)]]
  /\ default' = IF default = Name(p) THEN To(p) ELSE default
  /\ Goto(p, "commit", IF acct[p] = None THEN "done" ELSE "delete")
  /\ UNCHANGED <<keychain, serverVars, cmd, held, acct, bounds>>

-----------------------------------------------------------------------------
(* keyring.rs and migrate.rs *)

\* Mutant of SetKeyringStart: the reference is written before the secret.
SetKeyringStartCommitsFirst(p) ==
  /\ Goto(p, "start", "commit")
  /\ Is(p, "set-keyring")
  /\ Name(p) \in Configured
  /\ UNCHANGED <<configVars, keychain, serverVars, cmd, held, acct, bounds>>

\* set-keyring: the snapshot, then the prompt for the secret.
SetKeyringStart(p) ==
  /\ Goto(p, "start", "store")
  /\ Is(p, "set-keyring")
  /\ Valid(entry)
  /\ Name(p) \in Configured
  /\ held' = [held EXCEPT ![p] = p]
  /\ UNCHANGED <<configVars, keychain, serverVars, cmd, acct, bounds>>

\* Under the lock: the reference replaces every other source.
SetKeyringCommit(p) ==
  /\ Goto(p, "commit", "done")
  /\ Is(p, "set-keyring")
  /\ Name(p) \in Configured
  /\ WriteValidated([entry EXCEPT ![Name(p)] = [NoCredential EXCEPT !.keyring = To(p)]])
  /\ UNCHANGED <<default, keychain, serverVars, cmd, held, acct, bounds>>

\* unset-keyring: existence and coordinates are decided under the lock, the
\* secret is deleted once the write is committed.
UnsetKeyringCommit(p) ==
  /\ Goto(p, "start", "delete")
  /\ Is(p, "unset-keyring")
  /\ Name(p) \in Configured
  /\ entry[Name(p)].keyring # None
  /\ acct' = [acct EXCEPT ![p] = AccountOr(entry[Name(p)].keyring, Name(p))]
  /\ entry' = [entry EXCEPT ![Name(p)].keyring = None]
  /\ UNCHANGED <<default, keychain, serverVars, cmd, held, bounds>>

\* migrate-to-keyring: the snapshot must hold an inline or environment key,
\* which is resolved from it.
MigrateStart(p) ==
  /\ Goto(p, "start", "store")
  /\ Is(p, "migrate")
  /\ Valid(entry)
  /\ Name(p) \in Configured
  /\ \/ /\ entry[Name(p)].api_key # None
        /\ held' = [held EXCEPT ![p] = entry[Name(p)].api_key]
     \/ /\ entry[Name(p)].api_key_env
        /\ held' = [held EXCEPT ![p] = EnvSecret]
  /\ UNCHANGED <<configVars, keychain, serverVars, cmd, acct, bounds>>

\* Under the lock, for an inline source: only api_key is cleared; another
\* source that appeared meanwhile makes the result invalid, and refused.
MigrateCommit(p) ==
  /\ Goto(p, "commit", "done")
  /\ Is(p, "migrate")
  /\ Name(p) \in Configured
  /\ WriteValidated([entry EXCEPT ![Name(p)].api_key = None,
                                  ![Name(p)].keyring = To(p)])
  /\ UNCHANGED <<default, keychain, serverVars, cmd, held, acct, bounds>>

\* keyring::store of rename, set-keyring and migrate: an existing entry at the
\* coordinates is overwritten.  Migrating an environment key ends here.
KeyringStore(p) ==
  /\ Goto(p, "store", IF Is(p, "migrate") /\ held[p] = EnvSecret THEN "done"
                      ELSE "commit")
  /\ keychain' = [keychain EXCEPT ![AccountOr(To(p), Name(p))] = held[p]]
  /\ UNCHANGED <<configVars, serverVars, cmd, held, acct, bounds>>

\* keyring::delete of remove, rename and unset-keyring; a missing entry is
\* not an error.
KeyringDelete(p) ==
  /\ Goto(p, "delete", "done")
  /\ keychain' = [keychain EXCEPT ![acct[p]] = None]
  /\ UNCHANGED <<configVars, serverVars, cmd, held, acct, bounds>>

-----------------------------------------------------------------------------
(* auth.rs *)

\* auth login: the snapshot must have room for a token.
LoginStart(p) ==
  /\ Goto(p, "start", "remote")
  /\ Is(p, "login")
  /\ Valid(entry)
  /\ Name(p) \in Configured
  /\ TokenSlot(entry[Name(p)])
  /\ UNCHANGED <<configVars, keychain, serverVars, cmd, held, acct, bounds>>

\* The server accepts the password and issues a token.
LoginRemote(p) ==
  /\ Goto(p, "remote", "commit")
  /\ Is(p, "login")
  /\ issued < MaxTokens
  /\ issued' = issued + 1
  /\ live' = live \cup {issued + 1}
  /\ held' = [held EXCEPT ![p] = issued + 1]
  /\ UNCHANGED <<configVars, keychain, cmd, acct, bounds>>

\* Under the lock: there must still be room for the token.
LoginCommit(p) ==
  /\ Goto(p, "commit", "done")
  /\ Is(p, "login")
  /\ Name(p) \in Configured
  /\ TokenSlot(entry[Name(p)])
  /\ WriteValidated([entry EXCEPT ![Name(p)].token = held[p]])
  /\ UNCHANGED <<default, keychain, serverVars, cmd, held, acct, bounds>>

\* auth logout: the snapshot names the token to revoke.
LogoutStart(p) ==
  /\ Goto(p, "start", "remote")
  /\ Is(p, "logout")
  /\ Valid(entry)
  /\ Name(p) \in Configured
  /\ entry[Name(p)].token # None
  /\ held' = [held EXCEPT ![p] = entry[Name(p)].token]
  /\ UNCHANGED <<configVars, keychain, serverVars, cmd, acct, bounds>>

\* The server revokes it.
LogoutRemote(p) ==
  /\ Goto(p, "remote", "commit")
  /\ Is(p, "logout")
  /\ live' = live \ {held[p]}
  /\ UNCHANGED <<configVars, keychain, issued, cmd, held, acct, bounds>>

\* Mutant of LogoutCommit: whatever token is stored is cleared.
LogoutCommitUnmatched(p) ==
  /\ Goto(p, "commit", "done")
  /\ Is(p, "logout")
  /\ Name(p) \in Configured
  /\ WriteValidated([entry EXCEPT ![Name(p)].token = None])
  /\ UNCHANGED <<default, keychain, serverVars, cmd, held, acct, bounds>>

\* Under the lock, clear_token_if_matches: a token that replaced the revoked
\* one stays.
LogoutCommit(p) ==
  /\ Goto(p, "commit", "done")
  /\ Is(p, "logout")
  /\ Name(p) \in Configured
  /\ WriteValidated(IF entry[Name(p)].token = held[p]
                    THEN [entry EXCEPT ![Name(p)].token = None]
                    ELSE entry)
  /\ UNCHANGED <<default, keychain, serverVars, cmd, held, acct, bounds>>

-----------------------------------------------------------------------------
\* Any configuration that commands run to completion leave, each server with
\* no credential or a key in the keychain under the server's name.
Init ==
  /\ entry \in [Servers -> {None, NoCredential,
                            [NoCredential EXCEPT !.keyring = Default]}]
  /\ default \in IF Configured = {} THEN {None} ELSE Configured
  /\ keychain = [a \in Accounts |->
                   IF a \in Configured /\ entry[a].keyring = Default
                   THEN OldSecret ELSE None]
  /\ issued = 0
  /\ live = {}
  /\ cmd = [p \in Procs |-> CHOOSE c \in Commands : TRUE]
  /\ pc = [p \in Procs |-> "done"]
  /\ held = [p \in Procs |-> None]
  /\ acct = [p \in Procs |-> None]
  /\ count = 0
  /\ overlapped = FALSE
  /\ shared = FALSE

Step(p) ==
  \/ SetServer(p) \/ ImportBugzillarc(p) \/ SetDefault(p)
  \/ RemoveStart(p) \/ RemoveCommit(p)
  \/ RenameStart(p) \/ RenameRetrieve(p) \/ RenameCommit(p)
  \/ SetKeyringStart(p) \/ SetKeyringCommit(p) \/ UnsetKeyringCommit(p)
  \/ MigrateStart(p) \/ MigrateCommit(p)
  \/ KeyringStore(p) \/ KeyringDelete(p)
  \/ LoginStart(p) \/ LoginRemote(p) \/ LoginCommit(p)
  \/ LogoutStart(p) \/ LogoutRemote(p) \/ LogoutCommit(p)

Next ==
  /\ \E p \in Procs :
       \/ \E c \in Commands : Run(p, c)
       \/ Step(p)
       \/ Stop(p)
  /\ shared' = (shared \/ Sharing')

Spec == Init /\ [][Next]_vars

-----------------------------------------------------------------------------
(* Properties *)

TypeOK ==
  /\ default \in Servers \cup {None}
  /\ entry \in [Servers -> ServerConfig \cup {None}]
  /\ keychain \in [Accounts -> Secret \cup {None}]
  /\ issued \in 0..MaxTokens
  /\ live \subseteq 1..issued
  /\ cmd \in [Procs -> Commands]
  /\ pc \in [Procs -> {"start", "retrieve", "store", "remote", "commit", "delete",
                       "done"}]
  /\ held \in [Procs -> Secret \cup Token \cup {None}]
  /\ acct \in [Procs -> Accounts \cup {None}]
  /\ count \in 0..MaxCommands
  /\ overlapped \in BOOLEAN
  /\ shared \in BOOLEAN

\* The default pointer never dangles: whatever commands run concurrently, the
\* default server is a configured one (remove, rename and set-default all
\* move the pointer and the entry in one locked update).
DefaultResolves == default # None => default \in Configured

\* No interleaving of commands gives a server two credential sources, which
\* would make every later load_at of the file fail.
SourcesExclusive == Valid(entry)

\* A concurrent replacement token is retained: a logout that completes never
\* drops a token that the server still honours.
LogoutKeepsLiveToken ==
  [][\A p \in Procs :
       Is(p, "logout") /\ pc[p] = "commit" /\ pc'[p] = "done" =>
         \A n \in Configured : entry[n].token \in live => entry'[n] = entry[n]]_vars

SecretsResolve ==
  \A n \in Configured :
    entry[n].keyring # None => keychain[AccountOr(entry[n].keyring, n)] # None

\* While one command runs at a time and no two servers have pointed at one
\* account, a server that points at the keychain finds a secret there, wherever
\* a command stops: set-keyring, migrate and rename store the secret before they
\* write the reference, unset-keyring and remove drop the reference before they
\* delete the secret.
NoDangling == ~overlapped /\ ~shared => SecretsResolve

DefaultSet == Configured # {} => default # None

\* While one command runs at a time there is a default server as long as one is
\* configured: remove refuses to take the default of several.
DefaultExists == ~overlapped => DefaultSet

\* What the configuration points at is there, wherever a command stops: the default
\* server is a configured one whatever runs beside; and, while one command runs at a
\* time, there is a default and every keychain reference that no other server shared
\* has its secret.
PointersResolve == DefaultResolves /\ NoDangling /\ DefaultExists

\* rename never replaces an entry that has the new name already.
RenameNeverClobbers ==
  [][\A p \in Procs :
       Is(p, "rename") /\ pc[p] = "commit" /\ entry' # entry =>
         To(p) \notin Configured]_vars

\* A keychain deletion never takes the entry a server points at.
DeletesUnreferenced ==
  [][\A a \in Accounts :
       keychain[a] # None /\ keychain'[a] = None =>
         \A n \in Configured :
           entry[n].keyring # None => AccountOr(entry[n].keyring, n) # a]_vars
=============================================================================
