---------------------------- MODULE MCConnection ----------------------------
(* Small instances of Connection for TLC; and AuthDetect, the detection that a *)
(* connection makes, while no command runs.                                    *)
EXTENDS Connection, MCAuthDetect

CONSTANTS u1, u2,       \* two URLs
          c1, c2, c3,   \* three self-signed certificates
          i1, i2,       \* the issuer of c1 and c2, and the one of c3
          header, query \* the two auth methods

MCUrls == {u1, u2}
MCCerts == {c1, c2, c3}
MCIssuers == {i1, i2}
MCMethods == {header, query}
MCIssuerOf == [c \in MCCerts |-> IF c = c3 THEN i2 ELSE i1]
\* The probes of the two URLs answer differently.
MCMethod == [u \in MCUrls |-> IF u = u1 THEN query ELSE header]

Set(url, trust, pin, cred, auth) ==
  [url |-> url, trust |-> trust, pin |-> pin, der |-> None, cred |-> cred,
   auth |-> auth, source |-> IF auth = None THEN "unknown" ELSE "pinned", mode |-> FALSE]

\* What set-server writes: either URL, each kind of trust.
Plain == {Set(u, t, None, "key", None) : u \in MCUrls, t \in {"default", "insecure"}}
\* The same with a pin given by hand, with an auth method, without a key.
ManualPin == {Set(u1, "default", c1, "key", None)}
PinnedAuth == {Set(u1, "default", None, "key", header)}
Anonymous == {Set(u1, "default", None, "none", None)}
Custom == {Set(u1, "ca", None, "key", None)}

\* An entry from before the provenance stamp, one detected long ago, one
\* holding a login token, and one pinned with its issuer.
Legacy == [Set(u1, "default", None, "key", header) EXCEPT !.source = "unknown", !.mode = TRUE]
Cached == [Set(u1, "default", c1, "key", query)
             EXCEPT !.source = "detected", !.mode = TRUE, !.der = i1]
LoginToken == Set(u1, "default", None, "token", None)

Start == {Legacy, Cached, LoginToken}
AllNew == Plain \cup ManualPin \cup PinnedAuth \cup Anonymous \cup Custom

-----------------------------------------------------------------------------
NoDetection ==
  /\ server = [redhat |-> FALSE] /\ next = "none" /\ legs = NoLegs /\ settled = Undecided
  /\ version = Nil /\ mode = Nil /\ outcome = "none" /\ asked = <<>>
  /\ anomalies = MaxAnomalies

NoConnection ==
  /\ entry = None /\ cert = [u \in Urls |-> None] /\ accepted = {}
  /\ pc = [p \in Procs |-> "idle"] /\ snap = [p \in Procs |-> None]
  /\ seen = [p \in Procs |-> None] /\ found = [p \in Procs |-> NoSettings]
  /\ commands = MaxCommands /\ rotations = MaxRotations /\ repointed = FALSE /\ repinned = FALSE

MCConnectSpec ==
  /\ (Init /\ NoDetection) \/ (DetectInit /\ NoConnection)
  /\ [][\/ Next /\ UNCHANGED detectVars
        \/ DetectNext /\ UNCHANGED vars]_<<vars, detectVars>>
=============================================================================
