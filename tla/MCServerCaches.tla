---- MODULE MCServerCaches ----
(* Small instances of ServerCaches: two names of two servers, an older and a newer bzr. *)
EXTENDS ServerCaches, TLC

CONSTANTS old, new, s1, s2, u1, u2, redhat, external, f1, f2

MCServers == {s1, s2}
MCUrls == {u1, u2}
MCCaps == {redhat, external}
MCNames == {f1, f2}
MCProcs == {old, new}

\* The older bzr does not know the second extension.
MCKnown == [p \in MCProcs |-> IF p = old THEN {redhat} ELSE {redhat, external}]

\* One server is Red Hat's, the other has no extension.
MCAdvertised == [u \in MCUrls |-> IF u = u1 THEN {redhat, external} ELSE {}]

\* One field on one server, or two and one.
MCDeclared == {[u \in MCUrls |-> IF u = u1 THEN {f} ELSE {}] : f \in MCNames} \cup
              {[u \in MCUrls |-> IF u = u1 THEN MCNames ELSE {f}] : f \in MCNames}

\* The names of servers are alike, and so are those of fields.
Symmetry == Permutations(MCServers) \cup Permutations(MCNames)
====
