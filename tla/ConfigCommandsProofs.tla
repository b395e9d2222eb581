------------------------ MODULE ConfigCommandsProofs ------------------------
(***************************************************************************)
(* Theorems about ConfigCommands for any processes, servers, keychain      *)
(* accounts and commands: what config.toml may look like however the       *)
(* commands interleave and wherever they stop.                             *)
(***************************************************************************)
EXTENDS ConfigCommands, TLAPS

USE ConfigCommandsAssumption, NoneAssumption DEF bounds

-----------------------------------------------------------------------------
(* Types *)

\* TypeOK with what keeps it inductive: the step a process is at says which
\* command it runs and what it captured.
TypeInv ==
  /\ TypeOK
  /\ \A p \in Procs :
       /\ pc[p] = "retrieve" => Is(p, "rename")
       /\ pc[p] = "store" =>
            held[p] \in Secret /\ cmd[p].op \in {"rename", "set-keyring", "migrate"}
       /\ pc[p] = "delete" => acct[p] \in Accounts
       /\ pc[p] = "start" => acct[p] = None
       /\ pc[p] = "commit" /\ Is(p, "login") => held[p] \in Token

LEMMA CommandType ==
  ASSUME TypeOK, NEW p \in Procs
  PROVE  /\ cmd[p] \in Command
         /\ Name(p) \in Servers
         /\ To(p) \in Accounts \cup {Default}
         /\ AccountOr(To(p), Name(p)) \in Accounts
         /\ Is(p, "rename") => To(p) \in Servers /\ To(p) # Name(p)
  BY DEF TypeOK, Command, Name, To, AccountOr, Is

\* A configured server has credential fields of the right types.
LEMMA EntryType ==
  ASSUME TypeOK, NEW n \in Configured
  PROVE  /\ n \in Servers
         /\ entry[n] \in ServerConfig
         /\ entry[n].keyring \in Accounts \cup {Default, None}
         /\ entry[n].token \in Token \cup {None}
         /\ entry[n].api_key \in Secret \cup {None}
  BY DEF TypeOK, Configured, ServerConfig

LEMMA NoCredentialType ==
  /\ NoCredential \in ServerConfig
  /\ \A s \in Secret : [NoCredential EXCEPT !.api_key = s] \in ServerConfig
  /\ [NoCredential EXCEPT !.api_key_env = TRUE] \in ServerConfig
  /\ \A a \in Accounts \cup {Default} :
       [NoCredential EXCEPT !.keyring = a] \in ServerConfig
  BY DEF NoCredential, ServerConfig

LEMMA KeyringMoveType ==
  ASSUME NEW s \in ServerConfig, NEW a \in Accounts \cup {Default}
  PROVE  [s EXCEPT !.api_key = None, !.keyring = a] \in ServerConfig
  BY DEF ServerConfig

LEMMA InitTypeInv == Init => TypeInv
<1> SUFFICES ASSUME Init PROVE TypeInv
  OBVIOUS
<1>1. entry \in [Servers -> ServerConfig \cup {None}]
  BY NoCredentialType DEF Init
<1>2. default \in Servers \cup {None}
  BY DEF Init, Configured
<1>3. keychain \in [Accounts -> Secret \cup {None}]
  BY DEF Init, Secret
<1>4. (CHOOSE c \in Commands : TRUE) \in Commands
  OBVIOUS
<1>5. cmd \in [Procs -> Commands]
  BY <1>4 DEF Init
<1>6. overlapped \in BOOLEAN /\ shared \in BOOLEAN
  BY DEF Init
<1>7. TypeOK
  BY <1>1, <1>2, <1>3, <1>5, <1>6 DEF Init, TypeOK
<1>8. \A p \in Procs : pc[p] = "done"
  BY DEF Init
<1>9. QED
  BY <1>7, <1>8 DEF TypeInv

LEMMA NextTypeInv == TypeInv /\ [Next]_vars => TypeInv'
<1> SUFFICES ASSUME TypeInv, [Next]_vars PROVE TypeInv'
  OBVIOUS
<1>s. shared' \in BOOLEAN
  <2>1. CASE Next
    <3>1. shared' = (shared \/ Sharing')
      BY <2>1 DEF Next
    <3>2. (shared \/ Sharing') \in BOOLEAN
      OBVIOUS
    <3>3. QED
      BY <3>1, <3>2
  <2>2. CASE UNCHANGED vars
    BY <2>2 DEF vars, TypeInv, TypeOK
  <2>3. QED
    BY <2>1, <2>2
<1> USE DEF TypeInv, TypeOK, configVars, serverVars, Is
<1> USE <1>s
<1>1. ASSUME NEW p \in Procs, NEW c \in Commands, Run(p, c) PROVE TypeInv'
  BY <1>1 DEF Run
<1>2. ASSUME NEW p \in Procs, Stop(p) PROVE TypeInv'
  BY <1>2 DEF Stop
<1>3. ASSUME NEW p \in Procs, SetServer(p) PROVE TypeInv'
  <2>1. PICK s \in ServerConfig : entry' = [entry EXCEPT ![Name(p)] = s]
    BY <1>3, NoCredentialType DEF SetServer, WriteValidated, Secret
  <2>2. QED
    BY <1>3, <2>1, CommandType DEF SetServer, Goto
<1>4. ASSUME NEW p \in Procs, ImportBugzillarc(p) PROVE TypeInv'
  <2>1. PICK s \in ServerConfig : entry' = [entry EXCEPT ![Name(p)] = s]
    <3>1. (IF entry[Name(p)] = None THEN NoCredential ELSE entry[Name(p)])
             \in ServerConfig
      BY CommandType, NoCredentialType
    <3>2. QED
      BY <1>4, <3>1, NoCredentialType DEF ImportBugzillarc, WriteValidated, Secret
  <2>2. QED
    BY <1>4, <2>1, CommandType DEF ImportBugzillarc, Goto
<1>5. ASSUME NEW p \in Procs, SetDefault(p) PROVE TypeInv'
  BY <1>5, CommandType DEF SetDefault, Goto, WriteValidated
<1>6. ASSUME NEW p \in Procs, RemoveStart(p) PROVE TypeInv'
  BY <1>6 DEF RemoveStart, Goto
<1>7. ASSUME NEW p \in Procs, RemoveCommit(p) PROVE TypeInv'
  <2>1. entry' \in [Servers -> ServerConfig \cup {None}]
    BY <1>7 DEF RemoveCommit
  <2>2. CASE pc' = [pc EXCEPT ![p] = "done"] /\ acct' = acct
    BY <1>7, <2>1, <2>2 DEF RemoveCommit
  <2>3. CASE /\ Name(p) \in Configured
             /\ entry[Name(p)].keyring # None
             /\ acct' = [acct EXCEPT ![p] = AccountOr(entry[Name(p)].keyring, Name(p))]
             /\ pc' = [pc EXCEPT ![p] = "delete"]
    <3>1. AccountOr(entry[Name(p)].keyring, Name(p)) \in Accounts
      BY <2>3, EntryType, CommandType DEF AccountOr
    <3>2. QED
      BY <1>7, <2>1, <2>3, <3>1 DEF RemoveCommit
  <2>4. QED
    BY <1>7, <2>2, <2>3 DEF RemoveCommit, Goto
<1>8. ASSUME NEW p \in Procs, RenameStart(p) PROVE TypeInv'
  BY <1>8, CommandType DEF RenameStart, Goto
<1>9. ASSUME NEW p \in Procs, RenameRetrieve(p) PROVE TypeInv'
  <2>1. Name(p) \in Accounts
    BY CommandType
  <2>2. keychain[Name(p)] \in Secret
    BY <1>9, <2>1 DEF RenameRetrieve
  <2>3. QED
    BY <1>9, <2>2 DEF RenameRetrieve, Goto
<1>10. ASSUME NEW p \in Procs, RenameCommit(p) PROVE TypeInv'
  <2>1. entry' \in [Servers -> ServerConfig \cup {None}]
    BY <1>10, CommandType DEF RenameCommit
  <2>2. default' \in Servers \cup {None}
    BY <1>10, CommandType DEF RenameCommit
  <2>3. QED
    BY <1>10, <2>1, <2>2 DEF RenameCommit, Goto
<1>11. ASSUME NEW p \in Procs, SetKeyringStart(p) PROVE TypeInv'
  BY <1>11 DEF SetKeyringStart, Goto, Secret
<1>12. ASSUME NEW p \in Procs, SetKeyringCommit(p) PROVE TypeInv'
  BY <1>12, CommandType, NoCredentialType DEF SetKeyringCommit, Goto, WriteValidated
<1>13. ASSUME NEW p \in Procs, UnsetKeyringCommit(p) PROVE TypeInv'
  <2>1. AccountOr(entry[Name(p)].keyring, Name(p)) \in Accounts
    BY <1>13, EntryType, CommandType DEF UnsetKeyringCommit, AccountOr
  <2>2. [entry[Name(p)] EXCEPT !.keyring = None] \in ServerConfig
    BY <1>13, EntryType DEF UnsetKeyringCommit, ServerConfig
  <2>3. QED
    BY <1>13, <2>1, <2>2 DEF UnsetKeyringCommit, Goto
<1>14. ASSUME NEW p \in Procs, MigrateStart(p) PROVE TypeInv'
  <2>1. PICK s \in Secret : held' = [held EXCEPT ![p] = s]
    BY <1>14, EntryType DEF MigrateStart, Secret
  <2>2. QED
    BY <1>14, <2>1 DEF MigrateStart, Goto
<1>15. ASSUME NEW p \in Procs, MigrateCommit(p) PROVE TypeInv'
  <2>1. [entry[Name(p)] EXCEPT !.api_key = None, !.keyring = To(p)] \in ServerConfig
    <3>1. entry[Name(p)] \in ServerConfig
      BY <1>15, EntryType DEF MigrateCommit
    <3>2. To(p) \in Accounts \cup {Default}
      BY CommandType
    <3>3. QED
      BY <3>1, <3>2, KeyringMoveType
  <2>2. entry' = [entry EXCEPT ![Name(p)] =
                    [entry[Name(p)] EXCEPT !.api_key = None, !.keyring = To(p)]]
    BY <1>15, CommandType DEF MigrateCommit, WriteValidated
  <2>3. QED
    BY <1>15, <2>1, <2>2 DEF MigrateCommit, Goto
<1>16. ASSUME NEW p \in Procs, KeyringStore(p) PROVE TypeInv'
  <2>1. keychain' \in [Accounts -> Secret \cup {None}]
    BY <1>16 DEF KeyringStore, Goto
  <2>2. pc' \in {[pc EXCEPT ![p] = "done"], [pc EXCEPT ![p] = "commit"]}
    BY <1>16 DEF KeyringStore, Goto
  <2>3. ~Is(p, "login")
    BY <1>16 DEF KeyringStore, Goto
  <2>4. QED
    BY <1>16, <2>1, <2>2, <2>3 DEF KeyringStore
<1>17. ASSUME NEW p \in Procs, KeyringDelete(p) PROVE TypeInv'
  BY <1>17 DEF KeyringDelete, Goto
<1>18. ASSUME NEW p \in Procs, LoginStart(p) PROVE TypeInv'
  BY <1>18 DEF LoginStart, Goto
<1>19. ASSUME NEW p \in Procs, LoginRemote(p) PROVE TypeInv'
  BY <1>19 DEF LoginRemote, Goto, Token
<1>20. ASSUME NEW p \in Procs, LoginCommit(p) PROVE TypeInv'
  <2>1. [entry[Name(p)] EXCEPT !.token = held[p]] \in ServerConfig
    BY <1>20, EntryType DEF LoginCommit, Goto, ServerConfig
  <2>2. QED
    BY <1>20, <2>1 DEF LoginCommit, Goto, WriteValidated
<1>21. ASSUME NEW p \in Procs, LogoutStart(p) PROVE TypeInv'
  BY <1>21, EntryType DEF LogoutStart, Goto
<1>22. ASSUME NEW p \in Procs, LogoutRemote(p) PROVE TypeInv'
  BY <1>22 DEF LogoutRemote, Goto
<1>23. ASSUME NEW p \in Procs, LogoutCommit(p) PROVE TypeInv'
  <2>1. [entry[Name(p)] EXCEPT !.token = None] \in ServerConfig
    BY <1>23, EntryType DEF LogoutCommit, ServerConfig
  <2>2. QED
    BY <1>23, <2>1 DEF LogoutCommit, Goto, WriteValidated
<1>24. CASE UNCHANGED vars
  BY <1>24 DEF vars
<1>25. QED
  BY <1>1, <1>2, <1>3, <1>4, <1>5, <1>6, <1>7, <1>8, <1>9, <1>10, <1>11, <1>12,
     <1>13, <1>14, <1>15, <1>16, <1>17, <1>18, <1>19, <1>20, <1>21, <1>22, <1>23,
     <1>24 DEF Next, Step

-----------------------------------------------------------------------------
(* What config.toml looks like *)

LEMMA NoCredentialSources ==
  /\ OneSource(NoCredential) /\ NoCredential # None
  /\ LET s == [NoCredential EXCEPT !.api_key_env = TRUE]
     IN  OneSource(s) /\ s # None
  /\ \A k \in Secret : LET s == [NoCredential EXCEPT !.api_key = k]
                       IN  OneSource(s) /\ s # None
  /\ \A a \in Accounts \cup {Default} :
       LET s == [NoCredential EXCEPT !.keyring = a] IN OneSource(s) /\ s # None
<1>1. /\ NoCredential # None
      /\ [NoCredential EXCEPT !.api_key_env = TRUE] # None
      /\ \A k \in Secret : [NoCredential EXCEPT !.api_key = k] # None
      /\ \A a \in Accounts \cup {Default} : [NoCredential EXCEPT !.keyring = a] # None
  BY NoCredentialType
<1>2. OneSource(NoCredential) /\ OneSource([NoCredential EXCEPT !.api_key_env = TRUE])
  BY DEF NoCredential, OneSource
<1>3. \A k \in Secret : OneSource([NoCredential EXCEPT !.api_key = k])
  BY DEF NoCredential, OneSource
<1>4. \A a \in Accounts \cup {Default} : OneSource([NoCredential EXCEPT !.keyring = a])
  BY DEF NoCredential, OneSource
<1>5. QED
  BY <1>1, <1>2, <1>3, <1>4

\* The default is a configured server and each server has at most one source.
FileInv == TypeInv /\ DefaultResolves /\ SourcesExclusive

LEMMA InitFileInv == Init => FileInv
<1> SUFFICES ASSUME Init PROVE FileInv
  OBVIOUS
<1>1. \A n \in Servers : entry[n] # None => OneSource(entry[n])
  BY NoCredentialSources DEF Init
<1>2. DefaultResolves
  BY DEF Init, DefaultResolves, Configured
<1>3. QED
  BY <1>1, <1>2, InitTypeInv DEF FileInv, SourcesExclusive, Valid

\* An entry that replaces another makes its server configured, and no other
\* server less so.
LEMMA ReplaceEntry ==
  ASSUME TypeOK, DefaultResolves, NEW n \in Servers, NEW s, s # None,
         entry' = [entry EXCEPT ![n] = s], default' \in {default, n}
  PROVE  DefaultResolves'
  BY DEF TypeOK, DefaultResolves, Configured

LEMMA NextFileInv == FileInv /\ [Next]_vars => FileInv'
<1> SUFFICES ASSUME FileInv, [Next]_vars PROVE FileInv'
  OBVIOUS
<1>1. TypeInv'
  BY NextTypeInv DEF FileInv
<1>2. TypeOK /\ DefaultResolves /\ SourcesExclusive
  BY DEF FileInv, TypeInv
<1> DEFINE Goal == DefaultResolves' /\ SourcesExclusive'
<1>3. ASSUME UNCHANGED configVars PROVE Goal
  BY <1>2, <1>3 DEF configVars, DefaultResolves, SourcesExclusive, Configured, Valid
<1>4. ASSUME NEW p \in Procs, SetServer(p) PROVE Goal
  <2>1. PICK s \in {NoCredential, [NoCredential EXCEPT !.api_key = p],
                    [NoCredential EXCEPT !.api_key_env = TRUE]} :
               WriteValidated([entry EXCEPT ![Name(p)] = s])
    BY <1>4 DEF SetServer
  <2>2. s # None
    BY NoCredentialSources DEF Secret
  <2>3. default' \in {default, Name(p)} /\ Name(p) \in Servers
    BY <1>4, <1>2, CommandType DEF SetServer
  <2>4. QED
    BY <1>2, <2>1, <2>2, <2>3, ReplaceEntry DEF WriteValidated, SourcesExclusive, Valid
<1>5. ASSUME NEW p \in Procs, ImportBugzillarc(p) PROVE Goal
  <2> DEFINE old == IF entry[Name(p)] = None THEN NoCredential ELSE entry[Name(p)]
  <2>1. PICK s \in {old, [NoCredential EXCEPT !.api_key = p]} :
               WriteValidated([entry EXCEPT ![Name(p)] = s])
    BY <1>5 DEF ImportBugzillarc
  <2>2. s # None
    BY NoCredentialSources DEF Secret
  <2>3. default' \in {default, Name(p)} /\ Name(p) \in Servers
    BY <1>5, <1>2, CommandType DEF ImportBugzillarc
  <2>4. QED
    BY <1>2, <2>1, <2>2, <2>3, ReplaceEntry DEF WriteValidated, SourcesExclusive, Valid
<1>6. ASSUME NEW p \in Procs, SetDefault(p) PROVE Goal
  BY <1>2, <1>6 DEF SetDefault, WriteValidated, DefaultResolves, SourcesExclusive,
     Configured, Valid
<1>7. ASSUME NEW p \in Procs, RemoveCommit(p) PROVE Goal
  <2>1. /\ entry' = [entry EXCEPT ![Name(p)] = None]
        /\ default' = IF default = Name(p) THEN None ELSE default
        /\ Name(p) \in Servers
    BY <1>2, <1>7, CommandType DEF RemoveCommit
  <2>2. QED
    BY <1>2, <2>1 DEF TypeOK, DefaultResolves, SourcesExclusive, Configured, Valid,
       OneSource
<1>8. ASSUME NEW p \in Procs, RenameCommit(p) PROVE Goal
  <2>1. /\ entry' = [entry EXCEPT ![Name(p)] = None, ![To(p)] = entry[Name(p)]]
        /\ default' = IF default = Name(p) THEN To(p) ELSE default
        /\ Name(p) \in Configured
        /\ Name(p) \in Servers /\ To(p) \in Servers /\ To(p) # Name(p)
    BY <1>2, <1>8, CommandType DEF RenameCommit
  <2>2. \A n \in Servers :
          entry'[n] = IF n = To(p) THEN entry[Name(p)]
                      ELSE IF n = Name(p) THEN None ELSE entry[n]
    BY <1>2, <2>1 DEF TypeOK
  <2>3. QED
    BY <1>2, <2>1, <2>2 DEF TypeOK, DefaultResolves, SourcesExclusive, Configured,
       Valid, OneSource
<1>9. ASSUME NEW p \in Procs, SetKeyringCommit(p) PROVE Goal
  <2>1. To(p) \in Accounts \cup {Default} /\ Name(p) \in Servers
    BY <1>2, CommandType
  <2>2. [NoCredential EXCEPT !.keyring = To(p)] # None
    BY <2>1, NoCredentialSources
  <2>3. QED
    BY <1>2, <1>9, <2>1, <2>2, ReplaceEntry
       DEF SetKeyringCommit, WriteValidated, SourcesExclusive, Valid
<1>10. ASSUME NEW p \in Procs, UnsetKeyringCommit(p) PROVE Goal
  <2> DEFINE s == [entry[Name(p)] EXCEPT !.keyring = None]
  <2>1. /\ Name(p) \in Configured /\ Name(p) \in Servers
        /\ entry' = [entry EXCEPT ![Name(p)] = s]
        /\ default' = default
    BY <1>2, <1>10, CommandType DEF UnsetKeyringCommit
  <2>2. entry[Name(p)] \in ServerConfig /\ OneSource(entry[Name(p)])
    BY <1>2, <2>1, EntryType DEF SourcesExclusive, Valid, Configured
  <2>3. s # None /\ OneSource(s)
    BY <2>2 DEF ServerConfig, OneSource
  <2>4. DefaultResolves'
    BY <1>2, <2>1, <2>3, ReplaceEntry
  <2>5. SourcesExclusive'
    BY <1>2, <2>1, <2>3 DEF TypeOK, SourcesExclusive, Valid
  <2>6. QED
    BY <2>4, <2>5
<1>11. ASSUME NEW p \in Procs, MigrateCommit(p) PROVE Goal
  <2> DEFINE s == [entry[Name(p)] EXCEPT !.api_key = None, !.keyring = To(p)]
  <2>1. /\ Name(p) \in Configured /\ Name(p) \in Servers
        /\ To(p) \in Accounts \cup {Default}
        /\ entry' = [entry EXCEPT ![Name(p)] = s]
        /\ default' = default
        /\ Valid(entry')
    BY <1>2, <1>11, CommandType DEF MigrateCommit, WriteValidated, TypeOK
  <2>2. s # None
    <3>1. entry[Name(p)] \in ServerConfig
      BY <1>2, <2>1, EntryType
    <3>2. s \in ServerConfig
      BY <2>1, <3>1, KeyringMoveType
    <3>3. QED
      BY <3>2
  <2>3. QED
    BY <1>2, <2>1, <2>2, ReplaceEntry DEF SourcesExclusive, Valid
<1>12. ASSUME NEW p \in Procs, LoginCommit(p) PROVE Goal
  <2> DEFINE s == [entry[Name(p)] EXCEPT !.token = held[p]]
  <2>1. /\ Name(p) \in Configured /\ Name(p) \in Servers
        /\ entry' = [entry EXCEPT ![Name(p)] = s]
        /\ default' = default
        /\ Valid(entry')
        /\ held[p] \in Token
    BY <1>2, <1>12, CommandType DEF LoginCommit, WriteValidated, Goto, FileInv, TypeInv
  <2>2. s # None
    BY <1>2, <2>1, EntryType DEF ServerConfig
  <2>3. QED
    BY <1>2, <2>1, <2>2, ReplaceEntry DEF SourcesExclusive, Valid
<1>13. ASSUME NEW p \in Procs, LogoutCommit(p) PROVE Goal
  <2> DEFINE s == [entry[Name(p)] EXCEPT !.token = None]
  <2>1. /\ Name(p) \in Configured /\ Name(p) \in Servers
        /\ entry' \in {[entry EXCEPT ![Name(p)] = s], entry}
        /\ default' = default
        /\ Valid(entry')
    BY <1>2, <1>13, CommandType DEF LogoutCommit, WriteValidated
  <2>2. s # None
    BY <1>2, <2>1, EntryType DEF ServerConfig
  <2>3. CASE entry' = entry
    BY <1>3, <2>1, <2>3 DEF configVars
  <2>4. CASE entry' = [entry EXCEPT ![Name(p)] = s]
    BY <1>2, <2>1, <2>2, <2>4, ReplaceEntry DEF SourcesExclusive, Valid
  <2>5. QED
    BY <2>1, <2>3, <2>4
<1>14. ASSUME NEW p \in Procs,
              \/ \E c \in Commands : Run(p, c)
              \/ Stop(p) \/ RemoveStart(p) \/ RenameStart(p) \/ RenameRetrieve(p)
              \/ SetKeyringStart(p) \/ MigrateStart(p) \/ KeyringStore(p)
              \/ KeyringDelete(p) \/ LoginStart(p) \/ LoginRemote(p)
              \/ LogoutStart(p) \/ LogoutRemote(p)
       PROVE  Goal
  <2>1. UNCHANGED configVars
    BY <1>14 DEF Run, Stop, RemoveStart, RenameStart, RenameRetrieve, SetKeyringStart,
       MigrateStart, KeyringStore, KeyringDelete, LoginStart, LoginRemote, LogoutStart,
       LogoutRemote, configVars
  <2>2. QED
    BY <1>3, <2>1
<1>15. ASSUME UNCHANGED vars PROVE Goal
  BY <1>3, <1>15 DEF vars, configVars
<1>16. ASSUME NEW p \in Procs, Step(p) PROVE Goal
  BY <1>4, <1>5, <1>6, <1>7, <1>8, <1>9, <1>10, <1>11, <1>12, <1>13, <1>14, <1>16
     DEF Step
<1>17. DefaultResolves' /\ SourcesExclusive'
  BY <1>14, <1>15, <1>16 DEF Next
<1>18. QED
  BY <1>1, <1>17 DEF FileInv

-----------------------------------------------------------------------------
(* Tokens *)

\* Tokens that commands and entries hold have been issued, and the one that a
\* logout is about to clear has been revoked.
TokenInv ==
  /\ TypeInv
  /\ \A n \in Configured : entry[n].token \in 1..issued \cup {None}
  /\ \A p \in Procs :
       /\ pc[p] = "commit" /\ Is(p, "login") => held[p] \in 1..issued
       /\ pc[p] = "remote" /\ Is(p, "logout") => held[p] \in 1..issued
       /\ pc[p] = "commit" /\ Is(p, "logout") => held[p] \in (1..issued) \ live

LEMMA InitTokenInv == Init => TokenInv
<1> SUFFICES ASSUME Init PROVE TokenInv
  OBVIOUS
<1>1. \A n \in Configured : entry[n].token = None
  BY DEF Init, Configured, NoCredential
<1>2. QED
  BY <1>1, InitTypeInv DEF Init, TokenInv

\* An entry whose token field is not a new one keeps the tokens issued.
LEMMA KeepTokens ==
  ASSUME TokenInv, NEW n \in Servers, NEW s,
         entry' = [entry EXCEPT ![n] = s], issued' = issued,
         s # None => s.token \in 1..issued \cup {None}
  PROVE  \A m \in Configured' : entry'[m].token \in 1..issued' \cup {None}
  BY DEF TokenInv, TypeInv, TypeOK, Configured

LEMMA NextTokenInv == TokenInv /\ [Next]_vars => TokenInv'
<1> SUFFICES ASSUME TokenInv, [Next]_vars PROVE TokenInv'
  OBVIOUS
<1>1. TypeInv'
  BY NextTypeInv DEF TokenInv
<1>2. TypeOK /\ TypeInv
  BY DEF TokenInv, TypeInv
<1> DEFINE Entries == \A n \in Configured : entry[n].token \in 1..issued \cup {None}
           Holds(p) ==
             /\ pc[p] = "commit" /\ Is(p, "login") => held[p] \in 1..issued
             /\ pc[p] = "remote" /\ Is(p, "logout") => held[p] \in 1..issued
             /\ pc[p] = "commit" /\ Is(p, "logout") => held[p] \in (1..issued) \ live
           Goal == Entries' /\ \A p \in Procs : Holds(p)'
<1>3. Entries /\ \A p \in Procs : Holds(p)
  BY DEF TokenInv
<1>4. \A p \in Procs : Name(p) \in Servers
  BY <1>2, CommandType
<1> HIDE DEF Holds, Entries
\* What the other processes hold stays in order while the tokens do not change.
<1>5. ASSUME UNCHANGED <<issued, live>>, NEW p \in Procs, Holds(p)',
             \A q \in Procs \ {p} : pc'[q] = pc[q] /\ cmd'[q] = cmd[q] /\ held'[q] = held[q]
      PROVE  \A q \in Procs : Holds(q)'
  BY <1>3, <1>5 DEF Holds, Is
<1>6. ASSUME UNCHANGED entry, issued' = issued PROVE Entries'
  BY <1>3, <1>6 DEF Entries, Configured
\* A command that ends, or that goes on as one that holds no token.
<1>7. ASSUME NEW p \in Procs, UNCHANGED <<issued, live, cmd>>,
             \A q \in Procs \ {p} : pc'[q] = pc[q] /\ held'[q] = held[q],
             \/ pc'[p] \in {"store", "delete", "done"}
             \/ ~Is(p, "login") /\ ~Is(p, "logout")
      PROVE  \A q \in Procs : Holds(q)'
  <2>1. Holds(p)'
    BY <1>2, <1>7 DEF Holds, Is, TypeOK
  <2>2. QED
    BY <1>2, <1>5, <1>7, <2>1 DEF TypeOK
<1>8. ASSUME NEW p \in Procs, NEW c \in Commands, Run(p, c) PROVE Goal
  <2>1. UNCHANGED <<issued, live, entry>>
    BY <1>8 DEF Run, serverVars, configVars
  <2>2. \A q \in Procs \ {p} : pc'[q] = pc[q] /\ cmd'[q] = cmd[q] /\ held'[q] = held[q]
    BY <1>2, <1>8 DEF Run, TypeOK
  <2>3. Holds(p)'
    BY <1>2, <1>8 DEF Run, TypeOK, Holds
  <2>4. QED
    BY <1>5, <1>6, <2>1, <2>2, <2>3
<1>9. ASSUME NEW p \in Procs,
             \/ Stop(p) \/ SetDefault(p) \/ KeyringDelete(p) \/ RemoveStart(p)
             \/ RenameStart(p) \/ RenameRetrieve(p) \/ SetKeyringStart(p)
             \/ MigrateStart(p) \/ KeyringStore(p)
      PROVE  Goal
  <2>1. UNCHANGED <<issued, live, entry, cmd>>
    BY <1>9 DEF Stop, SetDefault, KeyringDelete, RemoveStart, RenameStart, RenameRetrieve,
       SetKeyringStart, MigrateStart, KeyringStore, serverVars, configVars, WriteValidated
  <2>2. \A q \in Procs \ {p} : held'[q] = held[q]
    BY <1>2, <1>9 DEF Stop, SetDefault, KeyringDelete, RemoveStart, RenameStart,
       RenameRetrieve, SetKeyringStart, MigrateStart, KeyringStore, TypeOK
  <2>3. PICK x : /\ pc' = [pc EXCEPT ![p] = x]
                 /\ \/ x \in {"store", "delete", "done"}
                    \/ ~Is(p, "login") /\ ~Is(p, "logout")
    <3>1. CASE Stop(p) \/ SetDefault(p) \/ KeyringDelete(p)
      BY <3>1 DEF Stop, SetDefault, KeyringDelete, Goto
    <3>2. CASE RemoveStart(p) \/ RenameStart(p)
      BY <3>2 DEF RemoveStart, RenameStart, Goto, Is
    <3>3. CASE RenameRetrieve(p) \/ SetKeyringStart(p) \/ MigrateStart(p)
      BY <3>3 DEF RenameRetrieve, SetKeyringStart, MigrateStart, Goto
    <3>4. CASE KeyringStore(p)
      <4>1. ~Is(p, "login") /\ ~Is(p, "logout")
        BY <1>2, <3>4 DEF KeyringStore, Goto, TypeInv, Is
      <4>2. QED
        BY <3>4, <4>1 DEF KeyringStore, Goto
    <3>5. QED
      BY <1>9, <3>1, <3>2, <3>3, <3>4
  <2>4. \A q \in Procs \ {p} : pc'[q] = pc[q]
    BY <2>3
  <2>5. pc'[p] \in {"store", "delete", "done"} \/ (~Is(p, "login") /\ ~Is(p, "logout"))
    BY <1>2, <2>3 DEF TypeOK
  <2>6. QED
    BY <1>6, <1>7, <2>1, <2>2, <2>4, <2>5
\* Commits: the entry written holds no token that was not issued.
<1>10. ASSUME NEW p \in Procs, NEW s, entry' = [entry EXCEPT ![Name(p)] = s],
              s # None => s.token \in 1..issued \cup {None},
              pc' = [pc EXCEPT ![p] = "done"] \/ pc' = [pc EXCEPT ![p] = "delete"],
              UNCHANGED <<issued, live, cmd, held>>
       PROVE  Goal
  <2>1. Entries'
    BY <1>4, <1>10, KeepTokens DEF Entries
  <2>2. \A q \in Procs \ {p} : pc'[q] = pc[q]
    BY <1>2, <1>10 DEF TypeOK
  <2>3. pc'[p] \in {"delete", "done"}
    BY <1>2, <1>10 DEF TypeOK
  <2>4. \A q \in Procs : Holds(q)'
    BY <1>7, <1>10, <2>2, <2>3
  <2>5. QED
    BY <2>1, <2>4
<1>11. ASSUME NEW p \in Procs, SetServer(p) \/ SetKeyringCommit(p) PROVE Goal
  <2>1. PICK s : entry' = [entry EXCEPT ![Name(p)] = s] /\ s.token = None
    BY <1>11 DEF SetServer, SetKeyringCommit, WriteValidated, NoCredential
  <2>2. QED
    BY <1>10, <1>11, <2>1 DEF SetServer, SetKeyringCommit, Goto, serverVars
<1>12. ASSUME NEW p \in Procs, ImportBugzillarc(p) PROVE Goal
  <2>1. PICK s \in {NoCredential, [NoCredential EXCEPT !.api_key = p], entry[Name(p)]} :
          entry' = [entry EXCEPT ![Name(p)] = s] /\ (s = entry[Name(p)] => s # None)
    BY <1>12, NoCredentialSources DEF ImportBugzillarc, WriteValidated, Secret
  <2>2. s # None => s.token \in 1..issued \cup {None}
    BY <1>3, <1>4, <2>1 DEF Entries, Configured, NoCredential
  <2>3. QED
    BY <1>10, <1>12, <2>1, <2>2 DEF ImportBugzillarc, Goto, serverVars
<1>13. ASSUME NEW p \in Procs, RemoveCommit(p) PROVE Goal
  BY <1>10, <1>13 DEF RemoveCommit, Goto, serverVars
<1>14. ASSUME NEW p \in Procs, RenameCommit(p) PROVE Goal
  <2>1. \A n \in Configured' :
          \/ entry'[n] = entry[n] /\ n \in Configured
          \/ entry'[n] = entry[Name(p)] /\ Name(p) \in Configured
    BY <1>2, <1>4, <1>14, CommandType DEF RenameCommit, TypeOK, Configured
  <2>2. Entries'
    BY <1>3, <1>14, <2>1 DEF Entries, RenameCommit, serverVars
  <2>3. \A q \in Procs : Holds(q)'
    BY <1>7, <1>14 DEF RenameCommit, Goto, serverVars, Is
  <2>4. QED
    BY <2>2, <2>3
<1>15. ASSUME NEW p \in Procs, UnsetKeyringCommit(p) \/ MigrateCommit(p) PROVE Goal
  <2>1. /\ Name(p) \in Configured
        /\ entry[Name(p)] \in ServerConfig
    BY <1>2, <1>15, EntryType DEF UnsetKeyringCommit, MigrateCommit
  <2>2. PICK s : entry' = [entry EXCEPT ![Name(p)] = s] /\ s.token = entry[Name(p)].token
    BY <1>2, <1>4, <1>15, <2>1
       DEF UnsetKeyringCommit, MigrateCommit, WriteValidated, ServerConfig, TypeOK
  <2>3. s.token \in 1..issued \cup {None}
    BY <1>3, <2>1, <2>2 DEF Entries
  <2>4. QED
    BY <1>10, <1>15, <2>2, <2>3 DEF UnsetKeyringCommit, MigrateCommit, Goto, serverVars
<1>16. ASSUME NEW p \in Procs, LoginCommit(p) PROVE Goal
  <2>1. entry[Name(p)] \in ServerConfig
    BY <1>2, <1>16, EntryType DEF LoginCommit
  <2>2. held[p] \in 1..issued
    BY <1>3, <1>16 DEF Holds, LoginCommit, Goto
  <2>3. entry' = [entry EXCEPT ![Name(p)] = [entry[Name(p)] EXCEPT !.token = held[p]]]
    BY <1>16 DEF LoginCommit, WriteValidated
  <2>4. [entry[Name(p)] EXCEPT !.token = held[p]].token = held[p]
    BY <2>1 DEF ServerConfig
  <2>5. QED
    BY <1>10, <1>16, <2>2, <2>3, <2>4 DEF LoginCommit, Goto, serverVars
<1>17. ASSUME NEW p \in Procs, LogoutCommit(p) PROVE Goal
  <2>1. entry[Name(p)] \in ServerConfig
    BY <1>2, <1>17, EntryType DEF LogoutCommit
  <2>2. UNCHANGED <<issued, live, cmd, held>> /\ pc' = [pc EXCEPT ![p] = "done"]
    BY <1>17 DEF LogoutCommit, Goto, serverVars
  <2>3. CASE entry' = entry
    <3>1. pc'[p] = "done" /\ \A q \in Procs \ {p} : pc'[q] = pc[q]
      BY <1>2, <2>2 DEF TypeOK
    <3>2. QED
      BY <1>6, <1>7, <2>2, <2>3, <3>1
  <2>4. CASE entry' = [entry EXCEPT ![Name(p)] = [entry[Name(p)] EXCEPT !.token = None]]
    <3>1. [entry[Name(p)] EXCEPT !.token = None].token = None
      BY <2>1 DEF ServerConfig
    <3>2. QED
      BY <1>10, <2>2, <2>4, <3>1
  <2>5. QED
    BY <1>17, <2>3, <2>4 DEF LogoutCommit, WriteValidated
<1>18. ASSUME NEW p \in Procs, LoginStart(p) \/ LogoutStart(p) PROVE Goal
  <2>1. UNCHANGED <<issued, live, entry, cmd>> /\ pc' = [pc EXCEPT ![p] = "remote"]
    BY <1>18 DEF LoginStart, LogoutStart, Goto, serverVars, configVars
  <2>2. \A q \in Procs \ {p} : held'[q] = held[q]
    BY <1>2, <1>18 DEF LoginStart, LogoutStart, TypeOK
  <2>3. Is(p, "logout") => held'[p] \in 1..issued
    BY <1>2, <1>3, <1>18 DEF LoginStart, LogoutStart, Entries, Is, TypeOK
  <2>4. Holds(p)'
    BY <1>2, <2>1, <2>3 DEF Holds, Is, TypeOK
  <2>5. QED
    BY <1>2, <1>5, <1>6, <2>1, <2>2, <2>4 DEF TypeOK
<1>19. ASSUME NEW p \in Procs, LoginRemote(p) PROVE Goal
  <2>1. Entries'
    BY <1>2, <1>3, <1>19 DEF Entries, LoginRemote, configVars, Configured, TypeOK
  <2>2. ASSUME NEW q \in Procs PROVE Holds(q)'
    BY <1>2, <1>3, <1>19, <2>2 DEF Holds, LoginRemote, Goto, Is, TypeOK
  <2>3. QED
    BY <2>1, <2>2
<1>20. ASSUME NEW p \in Procs, LogoutRemote(p) PROVE Goal
  <2>1. Entries'
    BY <1>6, <1>20 DEF LogoutRemote, configVars
  <2>2. ASSUME NEW q \in Procs PROVE Holds(q)'
    BY <1>2, <1>3, <1>20, <2>2 DEF Holds, LogoutRemote, Goto, Is, TypeOK
  <2>3. QED
    BY <2>1, <2>2
<1>21. ASSUME UNCHANGED vars PROVE Goal
  BY <1>3, <1>6, <1>21 DEF vars, Holds, Is
<1>22. ASSUME NEW p \in Procs, Step(p) PROVE Goal
  BY <1>9, <1>11, <1>12, <1>13, <1>14, <1>15, <1>16, <1>17, <1>18, <1>19, <1>20, <1>22
     DEF Step
<1>23. Goal
  BY <1>8, <1>9, <1>21, <1>22 DEF Next
<1>24. QED
  BY <1>1, <1>23 DEF TokenInv, Entries, Holds

\* A logout that commits knows that the token it clears is not live any more.
LEMMA LogoutStep ==
  ASSUME TokenInv, [Next]_vars, NEW p \in Procs, Is(p, "logout"),
         pc[p] = "commit", pc'[p] = "done",
         NEW n \in Configured, entry[n].token \in live
  PROVE  entry'[n] = entry[n]
<1>1. held[p] \notin live
  BY DEF TokenInv
<1>2. pc[p] # pc'[p] /\ Name(p) \in Servers /\ TypeOK
  BY CommandType DEF TokenInv, TypeInv
<1>3. ASSUME NEW q \in Procs, q # p, NEW x, pc' = [pc EXCEPT ![q] = x] PROVE FALSE
  BY <1>2, <1>3 DEF TypeOK
<1>4. PICK q \in Procs : Step(q) \/ Stop(q) \/ \E c \in Commands : Run(q, c)
  BY <1>2 DEF Next, vars
<1>5. \E x : pc' = [pc EXCEPT ![q] = x]
  <2>1. CASE Stop(q) \/ \E c \in Commands : Run(q, c)
    BY <2>1 DEF Stop, Run
  <2>2. CASE SetServer(q) \/ ImportBugzillarc(q) \/ SetDefault(q) \/ RemoveStart(q)
    BY <2>2 DEF SetServer, ImportBugzillarc, SetDefault, RemoveStart, Goto
  <2>3. CASE RemoveCommit(q)
    BY <2>3 DEF RemoveCommit, Goto
  <2>4. CASE RenameStart(q) \/ RenameRetrieve(q) \/ RenameCommit(q)
    BY <2>4 DEF RenameStart, RenameRetrieve, RenameCommit, Goto
  <2>5. CASE SetKeyringStart(q) \/ SetKeyringCommit(q) \/ UnsetKeyringCommit(q)
    BY <2>5 DEF SetKeyringStart, SetKeyringCommit, UnsetKeyringCommit, Goto
  <2>6. CASE MigrateStart(q) \/ MigrateCommit(q) \/ KeyringStore(q) \/ KeyringDelete(q)
    BY <2>6 DEF MigrateStart, MigrateCommit, KeyringStore, KeyringDelete, Goto
  <2>7. CASE LoginStart(q) \/ LoginRemote(q) \/ LoginCommit(q)
    BY <2>7 DEF LoginStart, LoginRemote, LoginCommit, Goto
  <2>8. CASE LogoutStart(q) \/ LogoutRemote(q) \/ LogoutCommit(q)
    BY <2>8 DEF LogoutStart, LogoutRemote, LogoutCommit, Goto
  <2>9. QED
    BY <1>4, <2>1, <2>2, <2>3, <2>4, <2>5, <2>6, <2>7, <2>8 DEF Step
<1>6. q = p
  BY <1>3, <1>5
<1>7. CASE Stop(p)
  BY <1>7 DEF Stop, configVars
<1>8. CASE LogoutCommit(p)
  BY <1>1, <1>2, <1>8 DEF LogoutCommit, WriteValidated, TypeOK, Configured
<1>9. LogoutCommit(p) \/ Stop(p)
  BY <1>4, <1>6 DEF Step, Is, Run, SetServer, ImportBugzillarc, SetDefault, RemoveStart,
     RemoveCommit, RenameStart, RenameRetrieve, RenameCommit, SetKeyringStart,
     SetKeyringCommit, UnsetKeyringCommit, MigrateStart, MigrateCommit, KeyringStore,
     KeyringDelete, LoginStart, LoginRemote, LoginCommit, LogoutStart, LogoutRemote, Goto
<1>10. QED
  BY <1>7, <1>8, <1>9

-----------------------------------------------------------------------------
(* One command at a time *)

\* The keychain account an entry e of server n points at.
PointsAt(e, n) == AccountOr(e.keyring, n)

\* What a command that runs alone relies on of the entries, since its snapshot:
\* remove was not asked to drop the default of several, rename knows its two
\* names and where the secret is.
Decided(p) ==
  /\ pc[p] = "commit" /\ Is(p, "remove") /\ default = Name(p) => Configured = {Name(p)}
  /\ pc[p] \in {"retrieve", "store", "commit"} /\ Is(p, "rename") =>
       /\ Name(p) \in Configured
       /\ To(p) \notin Configured
       /\ acct[p] \in {None, Name(p)}
       /\ (acct[p] = Name(p)) <=> (entry[Name(p)].keyring = Default)
  /\ pc[p] \in {"retrieve", "store"} /\ Is(p, "rename") => acct[p] = Name(p)

\* What it relies on of the keychain: a reference about to be written has its
\* secret, and the account about to be deleted has no reference.
Stored(p) ==
  /\ /\ pc[p] = "commit"
     /\ \/ cmd[p].op \in {"set-keyring", "migrate"}
        \/ Is(p, "rename") /\ acct[p] # None
     => keychain[AccountOr(To(p), Name(p))] # None
  /\ pc[p] = "delete" =>
       \A n \in Configured : entry[n].keyring # None => PointsAt(entry[n], n) # acct[p]

\* What keeps PointersResolve inductive.
AloneInv ==
  /\ Sharing => shared
  /\ ~overlapped =>
       /\ \A p, q \in Procs : pc[p] # "done" /\ pc[q] # "done" => p = q
       /\ DefaultSet
       /\ \A p \in Procs : Decided(p)
       /\ ~shared => SecretsResolve /\ \A p \in Procs : Stored(p)

LEMMA InitAloneInv == Init => AloneInv
<1> SUFFICES ASSUME Init PROVE AloneInv
  OBVIOUS
<1>1. \A n \in Configured : entry[n].keyring \in {None, Default}
  BY DEF Init, Configured, NoCredential
<1>2. ~Sharing
  BY <1>1 DEF Sharing, AccountOr
<1>3. SecretsResolve
  <2>1. ASSUME NEW n \in Configured, entry[n].keyring # None
        PROVE  keychain[AccountOr(entry[n].keyring, n)] # None
    <3>1. n \in Accounts /\ entry[n].keyring = Default
      BY <1>1, <2>1 DEF Configured
    <3>2. keychain[n] = OldSecret
      BY <3>1 DEF Init
    <3>3. QED
      BY <3>1, <3>2 DEF AccountOr
  <2>2. QED
    BY <2>1 DEF SecretsResolve
<1>4. DefaultSet
  BY DEF Init, DefaultSet, Configured
<1>5. \A p \in Procs : pc[p] = "done"
  BY DEF Init
<1>6. QED
  BY <1>2, <1>3, <1>4, <1>5 DEF AloneInv, Decided, Stored

\* A step of a command that runs alone: every other process being done, it
\* answers for its own process, the default and the secrets.
LEMMA StepAlone ==
  ASSUME TypeOK, AloneInv, shared' = (shared \/ Sharing'),
         NEW p \in Procs, pc[p] # "done", NEW step, pc' = [pc EXCEPT ![p] = step],
         overlapped' = overlapped,
         ~overlapped => DefaultSet' /\ Decided(p)',
         ~overlapped /\ ~shared => SecretsResolve' /\ Stored(p)'
  PROVE  AloneInv'
<1>1. Sharing' => shared'
  OBVIOUS
<1>2. ASSUME ~overlapped, NEW q \in Procs, q # p PROVE pc'[q] = "done"
  BY <1>2 DEF AloneInv, TypeOK
<1>3. ASSUME ~overlapped, NEW q \in Procs PROVE Decided(q)'
  <2>1. CASE q = p
    BY <1>3, <2>1
  <2>2. CASE q # p
    BY <1>2, <1>3, <2>2 DEF Decided
  <2>3. QED
    BY <2>1, <2>2
<1>4. ASSUME ~overlapped, ~shared, NEW q \in Procs PROVE Stored(q)'
  <2>1. CASE q = p
    BY <1>4, <2>1
  <2>2. CASE q # p
    BY <1>2, <1>4, <2>2 DEF Stored
  <2>3. QED
    BY <2>1, <2>2
<1>5. QED
  BY <1>1, <1>2, <1>3, <1>4 DEF AloneInv

\* What a command that runs alone finds.
LEMMA WhileAlone ==
  ASSUME AloneInv, NEW p \in Procs, ~overlapped
  PROVE  /\ DefaultSet /\ Decided(p)
         /\ ~shared => SecretsResolve /\ Stored(p) /\ ~Sharing
  BY DEF AloneInv

\* A step that leaves the file and the keychain alone.
LEMMA LookAlone ==
  ASSUME TypeOK, AloneInv, shared' = (shared \/ Sharing'),
         NEW p \in Procs, pc[p] # "done", NEW step, pc' = [pc EXCEPT ![p] = step],
         UNCHANGED <<default, entry, keychain, overlapped>>,
         ~overlapped => Decided(p)',
         step \notin {"commit", "delete"} \/ cmd'[p].op \in {"remove", "login", "logout"}
           \/ (cmd'[p].op = "rename" /\ acct'[p] = None),
         step # "delete"
  PROVE  AloneInv'
<1>1. pc'[p] = step
  BY DEF TypeOK
<1>2. Stored(p)'
  BY <1>1 DEF Stored, Is
<1>3. ~overlapped => DefaultSet'
  BY WhileAlone DEF DefaultSet, Configured
<1>4. ~overlapped /\ ~shared => SecretsResolve'
  BY WhileAlone DEF SecretsResolve, Configured
<1>5. QED
  BY <1>2, <1>3, <1>4, StepAlone

\* A command that ends.
LEMMA DoneAlone ==
  ASSUME TypeOK, AloneInv, shared' = (shared \/ Sharing'),
         NEW p \in Procs, pc[p] # "done", pc' = [pc EXCEPT ![p] = "done"],
         overlapped' = overlapped,
         ~overlapped => DefaultSet',
         ~overlapped /\ ~shared => SecretsResolve'
  PROVE  AloneInv'
<1>1. pc'[p] = "done"
  BY DEF TypeOK
<1>2. Decided(p)' /\ Stored(p)'
  BY <1>1 DEF Decided, Stored
<1>3. QED
  BY <1>2, StepAlone

\* One entry is replaced by one whose secret is there.
LEMMA ReplaceAlone ==
  ASSUME TypeOK, SecretsResolve, NEW n \in Servers, NEW s,
         entry' = [entry EXCEPT ![n] = s], keychain' = keychain,
         s # None /\ s.keyring # None => keychain[AccountOr(s.keyring, n)] # None
  PROVE  SecretsResolve'
<1> SUFFICES ASSUME NEW m \in Servers, entry'[m] # None, entry'[m].keyring # None
             PROVE  keychain[AccountOr(entry'[m].keyring, m)] # None
  BY DEF SecretsResolve, Configured
<1>1. entry'[m] = IF m = n THEN s ELSE entry[m]
  BY DEF TypeOK
<1>2. CASE m = n
  BY <1>1, <1>2
<1>3. CASE m # n
  BY <1>1, <1>3 DEF SecretsResolve, Configured
<1>4. QED
  BY <1>2, <1>3

\* No other server points where server n does, unless they share.
LEMMA OthersPointElsewhere ==
  ASSUME ~Sharing, NEW n \in Configured, entry[n].keyring # None,
         NEW m \in Configured, m # n, entry[m].keyring # None
  PROVE  PointsAt(entry[m], m) # PointsAt(entry[n], n)
  BY DEF Sharing, PointsAt

LEMMA NextAloneInv == TypeInv /\ AloneInv /\ [Next]_vars => AloneInv'
<1> SUFFICES ASSUME TypeInv, AloneInv, [Next]_vars PROVE AloneInv'
  OBVIOUS
<1> USE DEF configVars, serverVars, Is
<1>t. TypeOK
  BY DEF TypeInv
<1>19. CASE UNCHANGED vars
  BY <1>19 DEF vars, AloneInv, Sharing, DefaultSet, Decided, Stored, SecretsResolve,
     Configured, Name, To
<1> SUFFICES ASSUME Next PROVE AloneInv'
  BY <1>19
<1>s. shared' = (shared \/ Sharing')
  BY DEF Next
<1>1. ASSUME NEW p \in Procs, NEW c \in Commands, Run(p, c) PROVE AloneInv'
  <2>1. ~overlapped' => ~overlapped /\ \A q \in Procs : pc[q] = "done"
    BY <1>1 DEF Run
  <2>2. UNCHANGED <<default, entry, keychain>> /\ pc' = [pc EXCEPT ![p] = "start"]
    BY <1>1 DEF Run
  <2>3. \A q \in Procs : q # p /\ ~overlapped' => pc'[q] = "done"
    BY <1>t, <2>1, <2>2 DEF TypeOK
  <2>4. pc'[p] = "start"
    BY <1>t, <2>2 DEF TypeOK
  <2>5. \A q \in Procs : ~overlapped' => pc'[q] \in {"start", "done"}
    BY <2>3, <2>4
  <2>6. \A q \in Procs : ~overlapped' => Decided(q)' /\ Stored(q)'
    BY <2>5 DEF Decided, Stored
  <2>7. DefaultSet => DefaultSet'
    BY <2>2 DEF DefaultSet, Configured
  <2>8. SecretsResolve => SecretsResolve'
    BY <2>2 DEF SecretsResolve, Configured
  <2>9. QED
    BY <1>s, <2>1, <2>3, <2>6, <2>7, <2>8 DEF AloneInv
<1>2. ASSUME NEW p \in Procs, Stop(p) PROVE AloneInv'
  <2>1. /\ pc[p] # "done" /\ pc' = [pc EXCEPT ![p] = "done"] /\ overlapped' = overlapped
        /\ UNCHANGED <<default, entry, keychain>>
    BY <1>2 DEF Stop, bounds
  <2>2. (DefaultSet => DefaultSet') /\ (SecretsResolve => SecretsResolve')
    BY <2>1 DEF DefaultSet, SecretsResolve, Configured
  <2>3. QED
    BY <1>s, <1>t, <2>1, <2>2, DoneAlone, WhileAlone
<1>3. ASSUME NEW p \in Procs, SetServer(p) \/ ImportBugzillarc(p) PROVE AloneInv'
  <2> DEFINE old == IF entry[Name(p)] = None THEN NoCredential ELSE entry[Name(p)]
  <2>1. PICK s : /\ entry' = [entry EXCEPT ![Name(p)] = s]
                 /\ s = entry[Name(p)] \/ s.keyring = None
    BY <1>3 DEF SetServer, ImportBugzillarc, WriteValidated, NoCredential
  <2>2. /\ pc[p] = "start" /\ pc' = [pc EXCEPT ![p] = "done"] /\ overlapped' = overlapped
        /\ keychain' = keychain
        /\ default' = IF default = None THEN Name(p) ELSE default
    BY <1>3 DEF SetServer, ImportBugzillarc, Goto, bounds
  <2>3. Name(p) \in Servers /\ Name(p) # None
    BY <1>t, CommandType
  <2>4. DefaultSet'
    BY <2>2, <2>3 DEF DefaultSet
  <2>5. SecretsResolve => SecretsResolve'
    <3>1. SecretsResolve /\ s # None /\ s.keyring # None =>
            keychain[AccountOr(s.keyring, Name(p))] # None
      BY <2>1, <2>3 DEF SecretsResolve, Configured
    <3>2. QED
      BY <1>t, <2>1, <2>2, <2>3, <3>1, ReplaceAlone
  <2>6. QED
    BY <1>s, <1>t, <2>2, <2>4, <2>5, DoneAlone, WhileAlone
<1>4. ASSUME NEW p \in Procs, SetDefault(p) PROVE AloneInv'
  <2>1. /\ pc[p] = "start" /\ pc' = [pc EXCEPT ![p] = "done"] /\ overlapped' = overlapped
        /\ entry' = entry /\ keychain' = keychain /\ default' = Name(p)
    BY <1>4 DEF SetDefault, Goto, WriteValidated, bounds
  <2>2. Name(p) # None
    BY <1>t, CommandType
  <2>3. DefaultSet' /\ (SecretsResolve => SecretsResolve')
    BY <2>1, <2>2 DEF DefaultSet, SecretsResolve, Configured
  <2>4. QED
    BY <1>s, <1>t, <2>1, <2>3, DoneAlone, WhileAlone
<1>5. ASSUME NEW p \in Procs, RemoveStart(p) PROVE AloneInv'
  <2>1. /\ pc[p] = "start" /\ pc' = [pc EXCEPT ![p] = "commit"] /\ Is(p, "remove")
        /\ default = Name(p) => Configured = {Name(p)}
        /\ UNCHANGED <<default, entry, keychain, overlapped, cmd>>
    BY <1>5 DEF RemoveStart, Goto, bounds
  <2>2. Decided(p)'
    BY <2>1 DEF Decided, Configured, Name
  <2>3. cmd'[p].op = "remove"
    BY <2>1
  <2>4. QED
    BY <1>s, <1>t, <2>1, <2>2, <2>3, LookAlone
<1>7. ASSUME NEW p \in Procs, RenameStart(p) PROVE AloneInv'
  <2>1. /\ pc[p] = "start" /\ Is(p, "rename")
        /\ Name(p) \in Configured /\ To(p) \notin Configured
        /\ UNCHANGED <<default, entry, keychain, overlapped, cmd>>
    BY <1>7 DEF RenameStart, Goto, bounds
  <2>2. PICK step \in {"retrieve", "commit"} :
          /\ pc' = [pc EXCEPT ![p] = step]
          /\ step = "retrieve" => /\ entry[Name(p)].keyring = Default
                                  /\ acct' = [acct EXCEPT ![p] = Name(p)]
          /\ step = "commit" => entry[Name(p)].keyring # Default /\ acct' = acct
    BY <1>7 DEF RenameStart, Goto
  <2>3. acct[p] = None
    BY <1>t, <2>1 DEF TypeInv
  <2>4. Name(p) # None
    BY <1>t, CommandType
  <2>5. pc'[p] = step /\ acct'[p] = IF step = "retrieve" THEN Name(p) ELSE None
    BY <1>t, <2>2, <2>3 DEF TypeOK
  <2>6. Decided(p)'
    BY <2>1, <2>2, <2>4, <2>5 DEF Decided, Configured, Name, To
  <2>7. step # "commit" \/ (cmd'[p].op = "rename" /\ acct'[p] = None)
    BY <2>1, <2>2, <2>5
  <2>8. QED
    BY <1>s, <1>t, <2>1, <2>2, <2>6, <2>7, LookAlone
<1>6. ASSUME NEW p \in Procs, RemoveCommit(p) PROVE AloneInv'
  <2>1. /\ pc[p] = "commit" /\ Is(p, "remove") /\ Name(p) \in Servers
        /\ entry' = [entry EXCEPT ![Name(p)] = None]
        /\ default' = IF default = Name(p) THEN None ELSE default
        /\ UNCHANGED <<keychain, overlapped, cmd>>
    BY <1>6, <1>t, CommandType DEF RemoveCommit, Goto, bounds
  <2>2. ASSUME ~overlapped PROVE DefaultSet'
    <3>1. DefaultSet /\ (default = Name(p) => Configured = {Name(p)})
      BY <2>1, <2>2, WhileAlone DEF Decided
    <3>2. Configured' = Configured \ {Name(p)}
      BY <1>t, <2>1 DEF Configured, TypeOK
    <3>3. QED
      BY <2>1, <3>1, <3>2 DEF DefaultSet
  <2>3. SecretsResolve => SecretsResolve'
    BY <1>t, <2>1, ReplaceAlone
  <2>4. CASE pc' = [pc EXCEPT ![p] = "done"]
    BY <1>s, <1>t, <2>1, <2>2, <2>3, <2>4, DoneAlone, WhileAlone
  <2>5. CASE /\ pc' = [pc EXCEPT ![p] = "delete"]
             /\ Name(p) \in Configured /\ entry[Name(p)].keyring # None
             /\ acct' = [acct EXCEPT ![p] = PointsAt(entry[Name(p)], Name(p))]
    <3>1. pc'[p] = "delete" /\ acct'[p] = PointsAt(entry[Name(p)], Name(p))
      BY <1>t, <2>5 DEF TypeOK
    <3>2. Decided(p)'
      BY <3>1 DEF Decided
    <3>3. ASSUME ~Sharing, NEW n \in Servers, entry'[n] # None, entry'[n].keyring # None
          PROVE  PointsAt(entry'[n], n) # acct'[p]
      <4>1. n # Name(p) /\ entry'[n] = entry[n]
        BY <1>t, <2>1, <3>3 DEF TypeOK
      <4>2. QED
        BY <2>5, <3>1, <3>3, <4>1, OthersPointElsewhere DEF Configured
    <3>4. ~Sharing => Stored(p)'
      BY <3>1, <3>3 DEF Stored, Configured, PointsAt
    <3>5. QED
      BY <1>s, <1>t, <2>1, <2>2, <2>3, <2>5, <3>2, <3>4, StepAlone, WhileAlone
  <2>6. QED
    BY <1>6, <2>4, <2>5 DEF RemoveCommit, Goto, PointsAt
<1>8. ASSUME NEW p \in Procs, RenameRetrieve(p) PROVE AloneInv'
  <2>1. /\ pc[p] = "retrieve" /\ pc' = [pc EXCEPT ![p] = "store"]
        /\ UNCHANGED <<default, entry, keychain, overlapped, cmd, acct>>
    BY <1>8 DEF RenameRetrieve, Goto, bounds
  <2>2. Decided(p) => Decided(p)'
    BY <1>t, <2>1 DEF Decided, Configured, Name, To, TypeOK
  <2>3. QED
    BY <1>s, <1>t, <2>1, <2>2, LookAlone, WhileAlone
<1>9. ASSUME NEW p \in Procs, RenameCommit(p) PROVE AloneInv'
  <2> DEFINE step == IF acct[p] = None THEN "done" ELSE "delete"
             old == entry[Name(p)]
  <2>1. /\ pc[p] = "commit" /\ Is(p, "rename") /\ Name(p) \in Configured
        /\ Name(p) \in Servers /\ To(p) \in Servers /\ To(p) # Name(p) /\ To(p) # None
        /\ To(p) # Default
        /\ pc' = [pc EXCEPT ![p] = step]
        /\ default' = IF default = Name(p) THEN To(p) ELSE default
        /\ UNCHANGED <<keychain, overlapped, cmd, acct>>
    BY <1>9, <1>t, CommandType DEF RenameCommit, Goto, bounds
  <2>2. \A n \in Servers :
          entry'[n] = IF n = To(p) THEN old ELSE IF n = Name(p) THEN None ELSE entry[n]
    BY <1>9, <1>t, <2>1 DEF RenameCommit, TypeOK
  <2>3. DefaultSet => DefaultSet'
    BY <2>1, <2>2 DEF DefaultSet, Configured
  <2>4. pc'[p] = step
    BY <1>t, <2>1 DEF TypeOK
  <2>5. Decided(p)'
    BY <2>4 DEF Decided
  <2>6. ASSUME ~overlapped, ~shared PROVE SecretsResolve'
    <3>1. /\ SecretsResolve
          /\ acct[p] # None => keychain[To(p)] # None
          /\ (acct[p] = Name(p)) <=> (old.keyring = Default)
          /\ acct[p] \in {None, Name(p)}
      BY <2>1, <2>6, WhileAlone DEF Decided, Stored, AccountOr
    <3>2. old.keyring # None => keychain[AccountOr(old.keyring, Name(p))] # None
      BY <2>1, <3>1 DEF SecretsResolve
    <3>3. old.keyring # None => keychain[AccountOr(old.keyring, To(p))] # None
      <4>1. CASE old.keyring = Default
        BY <1>t, <2>1, <3>1, <4>1, CommandType DEF AccountOr
      <4>2. CASE old.keyring # Default
        BY <3>2, <4>2 DEF AccountOr
      <4>3. QED
        BY <4>1, <4>2
    <3>4. ASSUME NEW n \in Servers, entry'[n] # None, entry'[n].keyring # None
          PROVE  keychain[AccountOr(entry'[n].keyring, n)] # None
      BY <2>2, <3>1, <3>3, <3>4 DEF SecretsResolve, Configured
    <3>5. QED
      BY <2>1, <3>4 DEF SecretsResolve, Configured
  <2>7. ASSUME ~overlapped, ~shared PROVE Stored(p)'
    <3>1. /\ ~Sharing /\ acct[p] \in {None, Name(p)}
          /\ (acct[p] = Name(p)) <=> (old.keyring = Default)
      BY <2>1, <2>7, WhileAlone DEF Decided
    <3>2. ASSUME acct[p] # None, NEW n \in Servers, entry'[n] # None, entry'[n].keyring # None
          PROVE  PointsAt(entry'[n], n) # acct[p]
      <4>1. old.keyring = Default /\ acct[p] = Name(p) /\ old.keyring # None
        BY <3>1, <3>2
      <4>2. PointsAt(old, Name(p)) = Name(p)
        BY <4>1 DEF PointsAt, AccountOr
      <4>3. CASE n = To(p)
        BY <2>1, <2>2, <4>1, <4>3 DEF PointsAt, AccountOr
      <4>4. CASE n # To(p)
        <5>1. n # Name(p) /\ entry'[n] = entry[n] /\ n \in Configured
          BY <2>2, <3>2, <4>4 DEF Configured
        <5>2. QED
          BY <2>1, <3>1, <3>2, <4>1, <4>2, <5>1, OthersPointElsewhere
      <4>5. QED
        BY <4>3, <4>4
    <3>3. pc'[p] # "commit" /\ (pc'[p] = "delete" => acct[p] # None)
      BY <2>4
    <3>4. QED
      BY <2>1, <3>2, <3>3 DEF Stored, Configured, PointsAt
  <2> HIDE DEF step
  <2>8. QED
    BY <1>s, <1>t, <2>1, <2>3, <2>5, <2>6, <2>7, StepAlone, WhileAlone
<1>10. ASSUME NEW p \in Procs, SetKeyringStart(p) \/ MigrateStart(p) PROVE AloneInv'
  <2>1. /\ pc[p] = "start" /\ pc' = [pc EXCEPT ![p] = "store"]
        /\ cmd[p].op \in {"set-keyring", "migrate"}
        /\ UNCHANGED <<default, entry, keychain, overlapped, cmd>>
    BY <1>10 DEF SetKeyringStart, MigrateStart, Goto, bounds
  <2>2. Decided(p)'
    BY <1>t, <2>1 DEF Decided, TypeOK
  <2>3. QED
    BY <1>s, <1>t, <2>1, <2>2, LookAlone
<1>11. ASSUME NEW p \in Procs, LoginStart(p) \/ LogoutStart(p) PROVE AloneInv'
  <2>1. /\ pc[p] = "start" /\ pc' = [pc EXCEPT ![p] = "remote"]
        /\ UNCHANGED <<default, entry, keychain, overlapped, cmd>>
    BY <1>11 DEF LoginStart, LogoutStart, Goto, bounds
  <2>2. Decided(p)'
    BY <1>t, <2>1 DEF Decided, TypeOK
  <2>3. QED
    BY <1>s, <1>t, <2>1, <2>2, LookAlone
<1>12. ASSUME NEW p \in Procs, LoginRemote(p) \/ LogoutRemote(p) PROVE AloneInv'
  <2>1. /\ pc[p] = "remote" /\ pc' = [pc EXCEPT ![p] = "commit"]
        /\ cmd[p].op \in {"login", "logout"}
        /\ UNCHANGED <<default, entry, keychain, overlapped, cmd>>
    BY <1>12 DEF LoginRemote, LogoutRemote, Goto, bounds
  <2>2. Decided(p)'
    BY <1>t, <2>1 DEF Decided, TypeOK
  <2>3. cmd'[p].op \in {"login", "logout"}
    BY <2>1
  <2>4. QED
    BY <1>s, <1>t, <2>1, <2>2, <2>3, LookAlone
\* A commit of a command that ends there replaces one entry by another.
<1>13. ASSUME NEW p \in Procs, NEW s, s # None, Name(p) \in Configured,
              pc[p] # "done", pc' = [pc EXCEPT ![p] = "done"],
              entry' = [entry EXCEPT ![Name(p)] = s],
              UNCHANGED <<default, keychain, overlapped>>,
              ~overlapped /\ ~shared /\ s.keyring # None =>
                keychain[AccountOr(s.keyring, Name(p))] # None
       PROVE  AloneInv'
  <2>1. Name(p) \in Servers
    BY <1>t, CommandType
  <2>2. DefaultSet => DefaultSet'
    BY <1>t, <1>13, <2>1 DEF DefaultSet, Configured, TypeOK
  <2>3. SecretsResolve /\ ~overlapped /\ ~shared => SecretsResolve'
    BY <1>t, <1>13, <2>1, ReplaceAlone
  <2>4. QED
    BY <1>s, <1>t, <1>13, <2>2, <2>3, DoneAlone, WhileAlone
<1>14. ASSUME NEW p \in Procs, SetKeyringCommit(p) PROVE AloneInv'
  <2> DEFINE s == [NoCredential EXCEPT !.keyring = To(p)]
  <2>1. /\ pc[p] = "commit" /\ pc' = [pc EXCEPT ![p] = "done"] /\ Is(p, "set-keyring")
        /\ Name(p) \in Configured /\ entry' = [entry EXCEPT ![Name(p)] = s]
        /\ UNCHANGED <<default, keychain, overlapped>>
    BY <1>14 DEF SetKeyringCommit, Goto, WriteValidated, bounds
  <2>2. s # None /\ s.keyring = To(p)
    BY <1>t, CommandType, NoCredentialSources DEF NoCredential
  <2>3. ~overlapped /\ ~shared => keychain[AccountOr(To(p), Name(p))] # None
    BY <2>1, WhileAlone DEF Stored
  <2> HIDE DEF s
  <2>4. QED
    BY <1>13, <2>1, <2>2, <2>3
<1>15. ASSUME NEW p \in Procs, UnsetKeyringCommit(p) PROVE AloneInv'
  <2> DEFINE s == [entry[Name(p)] EXCEPT !.keyring = None]
  <2>1. /\ pc[p] = "start" /\ pc' = [pc EXCEPT ![p] = "delete"]
        /\ Name(p) \in Configured /\ entry[Name(p)].keyring # None
        /\ acct' = [acct EXCEPT ![p] = PointsAt(entry[Name(p)], Name(p))]
        /\ entry' = [entry EXCEPT ![Name(p)] = s]
        /\ UNCHANGED <<default, keychain, overlapped, cmd>>
    BY <1>15 DEF UnsetKeyringCommit, Goto, PointsAt, bounds
  <2>2. s \in ServerConfig /\ s # None /\ s.keyring = None /\ Name(p) \in Servers
    BY <1>t, <2>1, EntryType, CommandType DEF ServerConfig
  <2> HIDE DEF s
  <2>3. DefaultSet => DefaultSet'
    BY <1>t, <2>1, <2>2 DEF DefaultSet, Configured, TypeOK
  <2>4. SecretsResolve => SecretsResolve'
    BY <1>t, <2>1, <2>2, ReplaceAlone
  <2>5. pc'[p] = "delete" /\ acct'[p] = PointsAt(entry[Name(p)], Name(p))
    BY <1>t, <2>1 DEF TypeOK
  <2>6. Decided(p)'
    BY <2>5 DEF Decided
  <2>7. ASSUME ~Sharing, NEW n \in Servers, entry'[n] # None, entry'[n].keyring # None
        PROVE  PointsAt(entry'[n], n) # acct'[p]
    <3>1. n # Name(p) /\ entry'[n] = entry[n]
      BY <1>t, <2>1, <2>2, <2>7 DEF TypeOK
    <3>2. QED
      BY <2>1, <2>5, <2>7, <3>1, OthersPointElsewhere DEF Configured
  <2>8. ~Sharing => Stored(p)'
    BY <2>5, <2>7 DEF Stored, Configured, PointsAt
  <2>9. QED
    BY <1>s, <1>t, <2>1, <2>3, <2>4, <2>6, <2>8, StepAlone, WhileAlone
<1>16. ASSUME NEW p \in Procs, MigrateCommit(p) PROVE AloneInv'
  <2> DEFINE s == [entry[Name(p)] EXCEPT !.api_key = None, !.keyring = To(p)]
  <2>1. /\ pc[p] = "commit" /\ pc' = [pc EXCEPT ![p] = "done"] /\ Is(p, "migrate")
        /\ Name(p) \in Configured
        /\ UNCHANGED <<default, keychain, overlapped>>
    BY <1>16 DEF MigrateCommit, Goto, bounds
  <2>2. Name(p) \in Servers /\ To(p) \in Accounts \cup {Default}
    BY <1>t, CommandType
  <2>3. entry' = [entry EXCEPT ![Name(p)] = s]
    BY <1>16, <1>t, <2>2 DEF MigrateCommit, WriteValidated, TypeOK
  <2>4. s \in ServerConfig /\ s.keyring = To(p)
    <3>1. entry[Name(p)] \in ServerConfig
      BY <1>t, <2>1, EntryType
    <3>2. s \in ServerConfig
      BY <2>2, <3>1, KeyringMoveType
    <3>3. s.keyring = To(p)
      BY <3>1 DEF ServerConfig
    <3>4. QED
      BY <3>2, <3>3
  <2>5. ~overlapped /\ ~shared => keychain[AccountOr(To(p), Name(p))] # None
    BY <2>1, WhileAlone DEF Stored
  <2> HIDE DEF s
  <2>6. s # None
    BY <2>4
  <2>7. QED
    BY <1>13, <2>1, <2>3, <2>4, <2>5, <2>6
\* The commands that leave the credential's place alone.
<1>17. ASSUME NEW p \in Procs, NEW s \in ServerConfig, Name(p) \in Configured,
              pc[p] # "done", pc' = [pc EXCEPT ![p] = "done"],
              entry' = [entry EXCEPT ![Name(p)] = s], s.keyring = entry[Name(p)].keyring,
              UNCHANGED <<default, keychain, overlapped>>
       PROVE  AloneInv'
  <2>1. ~overlapped /\ ~shared /\ s.keyring # None =>
           keychain[AccountOr(s.keyring, Name(p))] # None
    BY <1>17, WhileAlone DEF SecretsResolve
  <2>2. s # None
    OBVIOUS
  <2>3. QED
    BY <1>13, <1>17, <2>1, <2>2
<1>18. ASSUME NEW p \in Procs, LoginCommit(p) \/ LogoutCommit(p) PROVE AloneInv'
  <2>1. /\ pc[p] = "commit" /\ pc' = [pc EXCEPT ![p] = "done"] /\ Name(p) \in Configured
        /\ UNCHANGED <<default, keychain, overlapped>>
    BY <1>18 DEF LoginCommit, LogoutCommit, Goto, bounds
  <2>2. /\ entry[Name(p)] \in ServerConfig /\ Name(p) \in Servers
        /\ LoginCommit(p) => held[p] \in Token
    BY <1>18, <1>t, <2>1, EntryType DEF LoginCommit, TypeInv
  <2>3. PICK s \in ServerConfig : /\ entry' = [entry EXCEPT ![Name(p)] = s]
                                  /\ s.keyring = entry[Name(p)].keyring
    <3>1. CASE LoginCommit(p)
      <4> DEFINE s == [entry[Name(p)] EXCEPT !.token = held[p]]
      <4>1. s \in ServerConfig /\ s.keyring = entry[Name(p)].keyring
        BY <2>2, <3>1 DEF ServerConfig
      <4>2. entry' = [entry EXCEPT ![Name(p)] = s]
        BY <3>1 DEF LoginCommit, WriteValidated
      <4>3. QED
        BY <4>1, <4>2
    <3>2. CASE LogoutCommit(p)
      <4> DEFINE s == [entry[Name(p)] EXCEPT !.token = None]
      <4>1. s \in ServerConfig /\ s.keyring = entry[Name(p)].keyring
        BY <2>2 DEF ServerConfig
      <4>2. entry' = [entry EXCEPT ![Name(p)] = s] \/ entry' = entry
        BY <3>2 DEF LogoutCommit, WriteValidated
      <4>3. entry = [entry EXCEPT ![Name(p)] = entry[Name(p)]]
        BY <1>t DEF TypeOK
      <4>4. QED
        BY <2>2, <4>1, <4>2, <4>3
    <3>3. QED
      BY <1>18, <3>1, <3>2
  <2>4. QED
    BY <1>17, <2>1, <2>3
<1>21. ASSUME NEW p \in Procs, KeyringStore(p) PROVE AloneInv'
  <2> DEFINE step == IF Is(p, "migrate") /\ held[p] = EnvSecret THEN "done" ELSE "commit"
             a == AccountOr(To(p), Name(p))
  <2>1. /\ pc[p] = "store" /\ pc' = [pc EXCEPT ![p] = step]
        /\ keychain' = [keychain EXCEPT ![a] = held[p]]
        /\ UNCHANGED <<default, entry, overlapped, cmd, acct>>
    BY <1>21 DEF KeyringStore, Goto, bounds
  <2>2. a \in Accounts /\ held[p] # None
    BY <1>t, <2>1, CommandType DEF TypeInv, Secret
  <2>3. \A b \in Accounts : keychain[b] # None => keychain'[b] # None
    BY <1>t, <2>1, <2>2 DEF TypeOK
  <2>4. ASSUME SecretsResolve PROVE SecretsResolve'
    <3>1. ASSUME NEW n \in Configured, entry[n].keyring # None
          PROVE  keychain'[AccountOr(entry[n].keyring, n)] # None
      <4>1. AccountOr(entry[n].keyring, n) \in Accounts
        BY <1>t, <3>1, EntryType DEF AccountOr
      <4>2. keychain[AccountOr(entry[n].keyring, n)] # None
        BY <2>4, <3>1 DEF SecretsResolve
      <4>3. QED
        BY <2>3, <4>1, <4>2
    <3>2. QED
      BY <2>1, <3>1 DEF SecretsResolve, Configured
  <2>5. DefaultSet => DefaultSet'
    BY <2>1 DEF DefaultSet, Configured
  <2>6. pc'[p] = step /\ cmd[p].op \in {"rename", "set-keyring", "migrate"}
    BY <1>t, <2>1 DEF TypeOK, TypeInv
  <2>7. Decided(p) => Decided(p)'
    BY <2>1, <2>6 DEF Decided, Configured, Name, To
  <2>8. Stored(p)'
    <3>1. pc'[p] # "delete"
      BY <2>6
    <3>2. keychain'[a] # None
      BY <1>t, <2>1, <2>2 DEF TypeOK
    <3>3. keychain'[AccountOr(To(p)', Name(p)')] # None
      BY <2>1, <3>2 DEF To, Name
    <3>4. QED
      BY <3>1, <3>3 DEF Stored
  <2> HIDE DEF step, a
  <2>9. QED
    BY <1>s, <1>t, <2>1, <2>4, <2>5, <2>7, <2>8, StepAlone, WhileAlone
<1>22. ASSUME NEW p \in Procs, KeyringDelete(p) PROVE AloneInv'
  <2>1. /\ pc[p] = "delete" /\ pc' = [pc EXCEPT ![p] = "done"]
        /\ keychain' = [keychain EXCEPT ![acct[p]] = None]
        /\ UNCHANGED <<default, entry, overlapped>>
    BY <1>22 DEF KeyringDelete, Goto, bounds
  <2>2. DefaultSet => DefaultSet'
    BY <2>1 DEF DefaultSet, Configured
  <2>3. ASSUME ~overlapped, ~shared PROVE SecretsResolve'
    <3>1. ASSUME NEW n \in Configured, entry[n].keyring # None
          PROVE  keychain'[AccountOr(entry[n].keyring, n)] # None
      <4>1. AccountOr(entry[n].keyring, n) \in Accounts
        BY <1>t, <3>1, EntryType DEF AccountOr
      <4>2. /\ keychain[AccountOr(entry[n].keyring, n)] # None
            /\ AccountOr(entry[n].keyring, n) # acct[p]
        BY <2>1, <2>3, <3>1, WhileAlone DEF SecretsResolve, Stored, PointsAt
      <4>3. QED
        BY <1>t, <2>1, <4>1, <4>2 DEF TypeOK
    <3>2. QED
      BY <2>1, <3>1 DEF SecretsResolve, Configured
  <2>4. QED
    BY <1>s, <1>t, <2>1, <2>2, <2>3, DoneAlone, WhileAlone
<1>20. QED
  BY <1>1, <1>2, <1>3, <1>4, <1>5, <1>6, <1>7, <1>8, <1>9, <1>10, <1>11, <1>12, <1>14,
     <1>15, <1>16, <1>18, <1>21, <1>22 DEF Next, Step

-----------------------------------------------------------------------------
(* Theorems *)

\* Every variable of the commands keeps its type, whatever the commands,
\* servers and processes, and wherever a command stops.
THEOREM TypeCorrect == Spec => []TypeOK
<1>1. TypeInv => TypeOK
  BY DEF TypeInv
<1>2. QED
  BY <1>1, InitTypeInv, NextTypeInv, PTL DEF Spec

\* The default pointer that set-server, import, set-default, remove and rename
\* write under the lock always names a configured server.
THEOREM DefaultSound == Spec => []DefaultResolves
<1>1. FileInv => DefaultResolves
  BY DEF FileInv
<1>2. QED
  BY <1>1, InitFileInv, NextFileInv, PTL DEF Spec

\* No interleaving of credential commands leaves a server with two credential
\* sources, the unvalidated writes of remove, rename and unset-keyring included.
THEOREM SourcesSound == Spec => []SourcesExclusive
<1>1. FileInv => SourcesExclusive
  BY DEF FileInv
<1>2. QED
  BY <1>1, InitFileInv, NextFileInv, PTL DEF Spec

\* A logout never drops a token the server still honours, for any number of
\* concurrent logins and logouts.
THEOREM LogoutSound == Spec => LogoutKeepsLiveToken
<1>1. TokenInv /\ [Next]_vars =>
        [\A p \in Procs :
           Is(p, "logout") /\ pc[p] = "commit" /\ pc'[p] = "done" =>
             \A n \in Configured : entry[n].token \in live => entry'[n] = entry[n]]_vars
  BY LogoutStep
<1>2. QED
  BY <1>1, InitTokenInv, NextTokenInv, PTL DEF Spec, LogoutKeepsLiveToken

\* PointersResolve: the default names a configured server whatever commands run;
\* and while they run one at a time, wherever each stops, there is a default as
\* long as there is a server, and every keychain reference that was never shared
\* finds its secret.
THEOREM PointersSound == Spec => []PointersResolve
<1>1. Init => FileInv /\ AloneInv
  BY InitFileInv, InitAloneInv
<1>2. FileInv /\ AloneInv /\ [Next]_vars => FileInv' /\ AloneInv'
  BY NextFileInv, NextAloneInv DEF FileInv
<1>3. FileInv /\ AloneInv => PointersResolve
  BY DEF FileInv, AloneInv, PointersResolve, NoDangling, DefaultExists
<1>4. QED
  BY <1>1, <1>2, <1>3, PTL DEF Spec
=============================================================================
