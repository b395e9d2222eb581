-------------------------- MODULE MCConfigCommands --------------------------
(* Small instances of ConfigCommands for TLC. *)
EXTENDS ConfigCommands

CONSTANTS a, b,     \* server names, which are keychain accounts as well
          x         \* an account that is not a server's name

MCServers == {a, b}
MCAccounts == {a, b, x}

On(ops, to) == [op : ops, name : MCServers, to : to]
Renames == {c \in On({"rename"}, MCServers) : c.to # c.name}

\* Every command; a key that is not under its server's name is in x, which both
\* servers may use.
Every ==
  On(Ops \ {"rename"}, {Default}) \cup Renames \cup On({"set-keyring", "migrate"}, {x})

\* One pair of commands each, for the races between them.
UnsetAndSet == On({"set-keyring", "unset-keyring"}, {Default})
RemoveAndAdd == On({"remove", "set-server"}, {Default})
RenameAndAdd == On({"set-server"}, {Default}) \cup Renames
RenameAndSet == On({"set-keyring"}, {Default}) \cup Renames
\* Server b may keep its key under the account named like server a.
Shared == On({"remove"}, {Default}) \cup [op : {"set-keyring"}, name : {b}, to : {a}]
=============================================================================
