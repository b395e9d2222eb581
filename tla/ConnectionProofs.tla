-------------------------- MODULE ConnectionProofs --------------------------
(***************************************************************************)
(* Theorems about Connection for any processes, servers, certificates and  *)
(* entries: what may be pinned, trusted and brought back, however the      *)
(* commands and their prompts interleave and wherever they stop; and about *)
(* the detection they make (AuthDetect), at any servers and however many   *)
(* answers are not the server's.                                           *)
(***************************************************************************)
EXTENDS Connection, AuthDetect, TLAPS

USE ConnectionAssumption

-----------------------------------------------------------------------------
(* Types *)

\* TypeOK, and the certificate in hand at the steps that use it.
TypeInv ==
  /\ TypeOK
  /\ \A p \in Procs : pc[p] \in {"tofu", "rotate", "repin", "pin-now"} => seen[p] \in Certs

LEMMA WithPinType ==
  ASSUME NEW e \in ServerConfig, NEW c \in Certs
  PROVE  /\ WithPin(e, c) \in ServerConfig
         /\ [e EXCEPT !.pin = c] \in ServerConfig
         /\ [e EXCEPT !.pin = None, !.der = None] \in ServerConfig
  BY DEF WithPin, ServerConfig

LEMMA SettingFields ==
  ASSUME NEW e \in ServerConfig, NEW a \in Methods \cup {None},
         NEW o \in {"detected", "pinned", "unknown"}, NEW m \in BOOLEAN
  PROVE  [e EXCEPT !.auth = a, !.source = o, !.mode = m] \in ServerConfig
  BY DEF ServerConfig

LEMMA WithSettingsType ==
  ASSUME NEW e \in ServerConfig, NEW s \in Settings, NEW a \in BOOLEAN
  PROVE  WithSettings(e, s, a) \in ServerConfig
<1> DEFINE method == IF a /\ s.auth # None THEN s.auth ELSE e.auth
           origin == IF ~a \/ s.auth = None THEN e.source
                     ELSE IF s.probed THEN "detected" ELSE "unknown"
           named == e.mode \/ s.version
<1>1. method \in Methods \cup {None}
  BY DEF ServerConfig, Settings
<1>2. origin \in {"detected", "pinned", "unknown"}
  BY DEF ServerConfig
<1>3. named \in BOOLEAN
  OBVIOUS
<1>4. WithSettings(e, s, a) = [e EXCEPT !.auth = method, !.source = origin, !.mode = named]
  BY DEF WithSettings
<1> HIDE DEF method, origin, named
<1>5. [e EXCEPT !.auth = method, !.source = origin, !.mode = named] \in ServerConfig
  BY <1>1, <1>2, <1>3, SettingFields
<1>6. QED
  BY <1>4, <1>5

\* A process at any step of a command holds a snapshot.
LEMMA SnapType ==
  ASSUME TypeOK, NEW p \in Procs, pc[p] # "idle"
  PROVE  snap[p] \in ServerConfig /\ snap[p].url \in Urls
  BY DEF TypeOK, ServerConfig

LEMMA AnswerTypes ==
  ASSUME NEW e \in ServerConfig, NEW c
  PROVE  /\ \A s \in Answers(e) : s \in Settings
         /\ \A s \in Fallbacks(e, c) : s \in Settings
<1>1. Method[e.url] \in Methods
  BY DEF ServerConfig
<1>2. (IF e.cred = "key" THEN Method[e.url] ELSE None) \in Methods \cup {None}
  BY <1>1
<1>3. (e.cred = "key") \in BOOLEAN
  OBVIOUS
<1>4. ASSUME NEW v \in {TRUE} \cup {~("version" \in Faults)}
      PROVE  [auth |-> IF e.cred = "key" THEN Method[e.url] ELSE None,
              probed |-> e.cred = "key", version |-> v] \in Settings
  BY <1>2, <1>3 DEF Settings
<1>5. ASSUME NEW s \in Fallbacks(e, c) PROVE s \in Settings
  <2>1. PICK v \in {FALSE} \cup {e.cred = "key" /\ Accepts(e, c)} :
          s = [auth |-> IF e.cred = "key" THEN Header ELSE None,
               probed |-> FALSE, version |-> v]
    BY Zenon, <1>5 DEF Fallbacks
  <2>2. Accepts(e, c) \in BOOLEAN
    BY DEF Accepts
  <2>3. v \in BOOLEAN
    BY <2>2
  <2>4. (IF e.cred = "key" THEN Header ELSE None) \in Methods \cup {None}
    OBVIOUS
  <2>5. QED
    BY <2>1, <2>3, <2>4 DEF Settings
<1>6. ASSUME NEW s \in Answers(e) PROVE s \in Settings
  <2>1. PICK v \in {TRUE} \cup {~("version" \in Faults)} :
          s = [auth |-> IF e.cred = "key" THEN Method[e.url] ELSE None,
               probed |-> e.cred = "key", version |-> v]
    BY Zenon, <1>6 DEF Answers
  <2>2. QED
    BY <1>4, <2>1
<1>7. QED
  BY <1>5, <1>6

\* An update of the entry on disk leaves an entry, or the absence of one.
LEMMA UpdateType ==
  ASSUME TypeOK, NEW new, Update(new), entry # None => new \in ServerConfig
  PROVE  entry' \in ServerConfig \cup {None}
  BY DEF TypeOK, Update

LEMMA InitTypeInv == Init => TypeInv
<1> SUFFICES ASSUME Init PROVE TypeInv
  OBVIOUS
<1>1. accepted \subseteq Urls \X Certs
  BY DEF Init, ServerConfig
<1>2. NoSettings \in Settings
  BY DEF NoSettings, Settings
<1>3. QED
  BY <1>1, <1>2 DEF Init, TypeInv, TypeOK, Steps

LEMMA EndType ==
  ASSUME TypeInv, NEW p \in Procs, End(p),
         entry' \in ServerConfig \cup {None}, cert' = cert,
         accepted' \subseteq Urls \X Certs,
         repointed' \in BOOLEAN, repinned' \in BOOLEAN
  PROVE  TypeInv'
<1>1. NoSettings \in Settings
  BY DEF NoSettings, Settings
<1>2. QED
  BY <1>1 DEF TypeInv, TypeOK, End, Goto, Steps, boundVars

LEMMA CountType ==
  ASSUME TypeInv, Count
  PROVE  commands' \in Nat
  BY DEF Count, TypeInv, TypeOK

\* The histories stay Boolean, whatever is written.
LEMMA HistoryTypes ==
  /\ \A u : Repoint(u) => repointed' \in BOOLEAN
  /\ \A i : Reissue(i) => repinned' \in BOOLEAN
  BY DEF Repoint, Reissue

LEMMA NextTypeInv == TypeInv /\ [Next]_vars => TypeInv'
<1> SUFFICES ASSUME TypeInv, [Next]_vars PROVE TypeInv'
  OBVIOUS
<1> USE DEF Goto, boundVars, histVars, procVars
<1>1. ASSUME NEW p \in Procs, Connect(p) PROVE TypeInv'
  <2>1. commands' \in Nat
    BY <1>1, CountType DEF Connect, Begin
  <2>2. QED
    BY <1>1, <2>1 DEF Connect, Begin, TypeInv, TypeOK, Steps
<1>2. ASSUME NEW p \in Procs, Probe(p) PROVE TypeInv'
  BY <1>2, EndType DEF Probe, TypeInv, TypeOK
<1>3. ASSUME NEW p \in Procs, Detect(p) PROVE TypeInv'
  <2>1. snap[p] \in ServerConfig
    BY <1>3, SnapType DEF Detect, TypeInv
  <2>2. PICK s \in Settings : found' = [found EXCEPT ![p] = s]
    BY <1>3, <2>1, AnswerTypes DEF Detect
  <2>3. QED
    BY <1>3, <2>2 DEF Detect, TypeInv, TypeOK, Steps
<1>4. ASSUME NEW p \in Procs, Persist(p) PROVE TypeInv'
  <2>1. found[p] \in Settings
    BY DEF TypeInv, TypeOK
  <2>2. (pc[p] = "repersist" \/ RecordsAuth(snap[p])) \in BOOLEAN
    BY DEF RecordsAuth
  <2> DEFINE new == WithSettings(entry, found[p], pc[p] = "repersist" \/ RecordsAuth(snap[p]))
  <2>a. entry # None => new \in ServerConfig
    BY <2>1, <2>2, WithSettingsType DEF TypeInv, TypeOK
  <2>b. Update(new)
    BY <1>4 DEF Persist
  <2> HIDE DEF new
  <2>3. entry' \in ServerConfig \cup {None}
    BY <2>a, <2>b, UpdateType DEF TypeInv
  <2>4. QED
    BY <1>4, <2>3, EndType DEF Persist, TypeInv, TypeOK
<1>5. ASSUME NEW p \in Procs, Untrusted(p) PROVE TypeInv'
  BY <1>5 DEF Untrusted, TypeInv, TypeOK, Steps
<1>6. ASSUME NEW p \in Procs, ProbeCert(p) PROVE TypeInv'
  <2>1. cert[snap[p].url] \in Certs
    BY <1>6, SnapType DEF ProbeCert, TypeInv, TypeOK
  <2>2. QED
    BY <1>6, <2>1 DEF ProbeCert, TypeInv, TypeOK, Steps
<1>7. ASSUME NEW p \in Procs, TofuOnce(p) PROVE TypeInv'
  <2>1. WithPin(snap[p], seen[p]) \in ServerConfig
    BY <1>7, SnapType, WithPinType DEF TofuOnce, TypeInv
  <2>2. QED
    BY <1>7, <2>1 DEF TofuOnce, TypeInv, TypeOK, Steps
<1>8. ASSUME NEW p \in Procs, TofuAlways(p) PROVE TypeInv'
  <2>1. WithPin(snap[p], seen[p]) \in ServerConfig /\ snap[p].url \in Urls /\ seen[p] \in Certs
    BY <1>8, SnapType, WithPinType DEF TofuAlways, TypeInv
  <2>a. entry # None => WithPin(entry, seen[p]) \in ServerConfig
    BY <2>1, WithPinType DEF TypeInv, TypeOK
  <2>2. entry' \in ServerConfig \cup {None}
    BY <1>8, <2>a, UpdateType DEF TofuAlways, TypeInv
  <2>b. repinned' \in BOOLEAN
    BY <1>8, HistoryTypes DEF TofuAlways, TypeInv, TypeOK
  <2>3. QED
    BY <1>8, <2>1, <2>2, <2>b DEF TofuAlways, TypeInv, TypeOK, Steps
<1>9. ASSUME NEW p \in Procs, Rotated(p) PROVE TypeInv'
  <2>1. cert[snap[p].url] \in Certs
    BY <1>9, SnapType DEF Rotated, TypeInv, TypeOK
  <2>2. QED
    BY <1>9, <2>1 DEF Rotated, TypeInv, TypeOK, Steps
<1>10. ASSUME NEW p \in Procs, AcceptRotation(p) PROVE TypeInv'
  <2>1. snap[p] \in ServerConfig /\ snap[p].url \in Urls /\ seen[p] \in Certs
    BY <1>10, SnapType DEF AcceptRotation, TypeInv
  <2>2. (IF entry = None THEN None ELSE entry.der) \in Issuers \cup {None}
    BY DEF TypeInv, TypeOK, ServerConfig
  <2> DEFINE der == IF entry = None THEN None ELSE entry.der
             s == [snap[p] EXCEPT !.pin = seen[p], !.der = der]
  <2>3. s \in ServerConfig
    <3> HIDE DEF der
    <3>1. der \in Issuers \cup {None}
      BY <2>2 DEF der
    <3>2. QED
      BY <2>1, <3>1 DEF ServerConfig
  <2>4. snap' = [snap EXCEPT ![p] = s]
    BY <1>10 DEF AcceptRotation, TypeInv, TypeOK
  <2> HIDE DEF s
  <2>5. accepted' \subseteq Urls \X Certs
    BY <1>10, <2>1 DEF AcceptRotation, TypeInv, TypeOK
  <2>6. snap' \in [Procs -> ServerConfig \cup {None}] /\ snap'[p] # None
    BY <2>3, <2>4 DEF TypeInv, TypeOK
  <2>7. \A q \in Procs : q # p => snap'[q] = snap[q]
    BY <2>4 DEF TypeInv, TypeOK
  <2>8. pc' = [pc EXCEPT ![p] = "repin"]
    BY <1>10 DEF AcceptRotation
  <2>9. \A q \in Procs : (pc'[q] = "idle") <=> (snap'[q] = None)
    BY <2>6, <2>7, <2>8 DEF TypeInv, TypeOK
  <2>10. QED
    BY <1>10, <2>1, <2>5, <2>6, <2>8, <2>9 DEF AcceptRotation, TypeInv, TypeOK, Steps
<1>11. ASSUME NEW p \in Procs, Repin(p) PROVE TypeInv'
  <2>a. entry # None => [entry EXCEPT !.pin = seen[p]] \in ServerConfig
    BY <1>11, WithPinType DEF Repin, TypeInv, TypeOK
  <2>1. entry' \in ServerConfig \cup {None}
    BY <1>11, <2>a, UpdateType DEF Repin, TypeInv
  <2>2. QED
    BY <1>11, <2>1 DEF Repin, TypeInv, TypeOK, Steps
<1>12. ASSUME NEW p \in Procs, Stop(p) PROVE TypeInv'
  BY <1>12, EndType DEF Stop, TypeInv, TypeOK
<1>13. ASSUME NEW p \in Procs, SetServer(p) PROVE TypeInv'
  <2>1. PICK e \in NewEntries :
          /\ entry' = e
          /\ accepted' = IF e.pin = None THEN accepted ELSE accepted \cup {<<e.url, e.pin>>}
    BY <1>13 DEF SetServer
  <2>2. e.url \in Urls /\ e.pin \in Certs \cup {None}
    BY DEF ServerConfig
  <2>3. accepted' \subseteq Urls \X Certs
    BY <2>1, <2>2 DEF TypeInv, TypeOK
  <2>4. commands' \in Nat
    BY <1>13, CountType DEF SetServer
  <2>a. repointed' \in BOOLEAN
    BY <1>13, HistoryTypes DEF SetServer
  <2>5. QED
    BY <1>13, <2>1, <2>3, <2>4, <2>a DEF SetServer, TypeInv, TypeOK
<1>14. ASSUME NEW p \in Procs, PinNow(p) PROVE TypeInv'
  <2>1. PICK e \in NewEntries : Begin(p, "pin-now", e, cert[e.url])
    BY <1>14 DEF PinNow
  <2>2. cert[e.url] \in Certs
    BY DEF ServerConfig, TypeInv, TypeOK
  <2>3. commands' \in Nat
    BY <1>14, CountType DEF PinNow, Begin
  <2>4. QED
    BY <1>14, <2>1, <2>2, <2>3 DEF PinNow, Begin, TypeInv, TypeOK, Steps
<1>15. ASSUME NEW p \in Procs, ConfirmPin(p) PROVE TypeInv'
  <2>1. snap[p] \in ServerConfig /\ snap[p].url \in Urls /\ seen[p] \in Certs
    BY <1>15, SnapType DEF ConfirmPin, TypeInv
  <2>a. accepted' \subseteq Urls \X Certs
    BY <1>15, <2>1 DEF ConfirmPin, TypeInv, TypeOK
  <2>b. entry' \in ServerConfig
    BY <1>15, <2>1, WithPinType DEF ConfirmPin
  <2>2. accepted' \subseteq Urls \X Certs /\ entry' \in ServerConfig
    BY <2>a, <2>b
  <2>c. repointed' \in BOOLEAN /\ repinned' \in BOOLEAN
    BY <1>15, HistoryTypes DEF ConfirmPin
  <2>3. QED
    BY <1>15, <2>2, <2>c, EndType DEF ConfirmPin
<1>16. ASSUME NEW p \in Procs, PinClear(p) PROVE TypeInv'
  <2>1. entry' \in ServerConfig
    BY <1>16 DEF PinClear, TypeInv, TypeOK, ServerConfig
  <2>2. commands' \in Nat
    BY <1>16, CountType DEF PinClear
  <2>3. QED
    BY <1>16, <2>1, <2>2 DEF PinClear, TypeInv, TypeOK
<1>17. ASSUME NEW p \in Procs, Remove(p) PROVE TypeInv'
  <2>1. commands' \in Nat
    BY <1>17, CountType DEF Remove
  <2>2. QED
    BY <1>17, <2>1 DEF Remove, TypeInv, TypeOK
<1>18. ASSUME NEW u \in Urls, Renew(u) PROVE TypeInv'
  BY <1>18 DEF Renew, TypeInv, TypeOK
<1>19. CASE UNCHANGED vars
  BY <1>19 DEF vars, TypeInv, TypeOK
<1>20. QED
  BY <1>1, <1>2, <1>3, <1>4, <1>5, <1>6, <1>7, <1>8, <1>9, <1>10, <1>11, <1>12,
     <1>13, <1>14, <1>15, <1>16, <1>17, <1>18, <1>19 DEF Next, Step

\* TypeOK holds whatever processes and entries there are.
THEOREM TypeCorrect == Spec => []TypeOK
<1>1. TypeInv => TypeOK
  BY DEF TypeInv
<1>2. QED
  BY <1>1, InitTypeInv, NextTypeInv, PTL DEF Spec

-----------------------------------------------------------------------------
(* Trust *)

\* What keeps PinShown and TlsExclusive inductive: a rotation is written after
\* its certificate was accepted, and --tls-pin-now holds an entry as set-server
\* writes it.
TrustInv ==
  /\ PinShown
  /\ TlsExclusive
  /\ \A p \in Procs :
       /\ pc[p] = "repin" => Shown(seen[p])
       /\ pc[p] = "pin-now" => Unanchored(snap[p]) /\ Fresh(snap[p])

\* Shown, of any set of pairs: its prime is Agreed(accepted', c).
Agreed(a, c) == \E u \in Urls : <<u, c>> \in a

LEMMA InitTrustInv == Init => TrustInv
<1> SUFFICES ASSUME Init PROVE TrustInv
  OBVIOUS
<1>1. entry # None => entry \in InitEntries /\ entry.url \in Urls /\ Valid(entry)
  BY DEF Init, ServerConfig
<1>2. QED
  BY <1>1 DEF Init, TrustInv, PinShown, TlsExclusive, Shown

\* What users agreed to is not forgotten.
LEMMA ShownMonotone ==
  ASSUME NEW a, NEW b, a \subseteq b, NEW c, Agreed(a, c)
  PROVE  Agreed(b, c)
  BY DEF Agreed

\* TrustInv in terms of Agreed, now and in the next state.
LEMMA TrustNow ==
  ASSUME TrustInv
  PROVE  /\ entry # None /\ entry.pin # None => Agreed(accepted, entry.pin)
         /\ \A p \in Procs : pc[p] = "repin" => Agreed(accepted, seen[p])
  BY DEF TrustInv, PinShown, Shown, Agreed

LEMMA PinShownNext ==
  ASSUME entry' # None /\ entry'.pin # None => Agreed(accepted', entry'.pin)
  PROVE  PinShown'
  BY DEF PinShown, Shown, Agreed

LEMMA TrustNext ==
  ASSUME PinShown', TlsExclusive',
         \A p \in Procs :
           /\ pc'[p] = "repin" => Agreed(accepted', seen'[p])
           /\ pc'[p] = "pin-now" => Unanchored(snap'[p]) /\ Fresh(snap'[p])
  PROVE  TrustInv'
  BY DEF TrustInv, Shown, Agreed

\* An update keeps the entry in order if it writes no pin but the one that was
\* there or one that was accepted.
LEMMA UpdateTrust ==
  ASSUME TrustInv, NEW new, Update(new), accepted \subseteq accepted',
         entry # None => (new.pin \in {None, entry.pin} \/ Agreed(accepted', new.pin))
  PROVE  PinShown' /\ TlsExclusive'
<1>1. CASE entry = None
  BY <1>1 DEF Update, PinShown, TlsExclusive
<1>2. CASE entry # None
  <2>1. entry' = new /\ Valid(new)
    BY <1>2 DEF Update
  <2>2. TlsExclusive'
    BY <2>1 DEF TlsExclusive
  <2>3. entry.pin # None => Agreed(accepted', entry.pin)
    BY <1>2, TrustNow, ShownMonotone
  <2>4. PinShown'
    BY <1>2, <2>1, <2>3, PinShownNext
  <2>5. QED
    BY <2>2, <2>4
<1>3. QED
  BY <1>1, <1>2

\* A step that leaves the entry alone and takes no process to a step that
\* TrustInv speaks of keeps it.
LEMMA OtherStep ==
  ASSUME TrustInv, UNCHANGED entry, accepted \subseteq accepted',
         \A p \in Procs : pc'[p] \in {"repin", "pin-now"} =>
                            pc'[p] = pc[p] /\ seen'[p] = seen[p] /\ snap'[p] = snap[p]
  PROVE  TrustInv'
<1>1. PinShown' /\ TlsExclusive'
  <2>1. entry # None /\ entry.pin # None => Agreed(accepted', entry.pin)
    BY TrustNow, ShownMonotone
  <2>2. PinShown'
    BY <2>1, PinShownNext
  <2>3. QED
    BY <2>2 DEF TrustInv, TlsExclusive
<1>2. ASSUME NEW p \in Procs, pc'[p] = "repin" PROVE Agreed(accepted', seen'[p])
  BY <1>2, TrustNow, ShownMonotone
<1>3. ASSUME NEW p \in Procs, pc'[p] = "pin-now" PROVE Unanchored(snap'[p]) /\ Fresh(snap'[p])
  BY <1>3 DEF TrustInv
<1>4. QED
  BY <1>1, <1>2, <1>3, TrustNext

\* The same for a step that writes the entry and keeps it in order.
LEMMA WriteStep ==
  ASSUME TrustInv, PinShown', TlsExclusive', accepted \subseteq accepted',
         \A p \in Procs : pc'[p] \in {"repin", "pin-now"} =>
                            pc'[p] = pc[p] /\ seen'[p] = seen[p] /\ snap'[p] = snap[p]
  PROVE  TrustInv'
<1>1. ASSUME NEW p \in Procs, pc'[p] = "repin" PROVE Agreed(accepted', seen'[p])
  BY <1>1, TrustNow, ShownMonotone
<1>2. ASSUME NEW p \in Procs, pc'[p] = "pin-now" PROVE Unanchored(snap'[p]) /\ Fresh(snap'[p])
  BY <1>2 DEF TrustInv
<1>3. QED
  BY <1>1, <1>2, TrustNext

\* A step that ends a command or moves it to another step than those two.
LEMMA Elsewhere ==
  ASSUME TypeOK, NEW p \in Procs, NEW step \in Steps \ {"repin", "pin-now"},
         pc' = [pc EXCEPT ![p] = step],
         \A q \in Procs \ {p} : seen'[q] = seen[q] /\ snap'[q] = snap[q]
  PROVE  \A q \in Procs : pc'[q] \in {"repin", "pin-now"} =>
                            pc'[q] = pc[q] /\ seen'[q] = seen[q] /\ snap'[q] = snap[q]
  BY DEF TypeOK

LEMMA Ending ==
  ASSUME TypeOK, NEW p \in Procs, End(p)
  PROVE  \A q \in Procs : pc'[q] \in {"repin", "pin-now"} =>
                            pc'[q] = pc[q] /\ seen'[q] = seen[q] /\ snap'[q] = snap[q]
  BY DEF TypeOK, End, Goto

LEMMA NextTrustInv == TypeInv /\ TrustInv /\ [Next]_vars => TrustInv'
<1> SUFFICES ASSUME TypeInv, TrustInv, [Next]_vars PROVE TrustInv'
  OBVIOUS
<1> USE DEF Goto, boundVars, histVars, procVars
<1>t. TypeOK
  BY DEF TypeInv
<1>1. ASSUME NEW p \in Procs, Connect(p) PROVE TrustInv'
  BY <1>1, <1>t, OtherStep DEF Connect, Begin, TypeOK
<1>2. ASSUME NEW p \in Procs, Probe(p) PROVE TrustInv'
  BY <1>2, <1>t, OtherStep, Ending DEF Probe
<1>3. ASSUME NEW p \in Procs, Detect(p) PROVE TrustInv'
  BY <1>3, <1>t, OtherStep DEF Detect, TypeOK
<1>4. ASSUME NEW p \in Procs, Persist(p) PROVE TrustInv'
  <2> DEFINE new == WithSettings(entry, found[p], pc[p] = "repersist" \/ RecordsAuth(snap[p]))
  <2>1. entry # None => new.pin = entry.pin
    BY <1>t DEF WithSettings, TypeOK, ServerConfig
  <2>2. Update(new) /\ accepted \subseteq accepted' /\ End(p)
    BY <1>4 DEF Persist
  <2> HIDE DEF new
  <2>3. PinShown' /\ TlsExclusive'
    BY <2>1, <2>2, UpdateTrust
  <2>4. QED
    BY <1>t, <2>2, <2>3, WriteStep, Ending
<1>5. ASSUME NEW p \in Procs, Untrusted(p) PROVE TrustInv'
  BY <1>5, <1>t, OtherStep DEF Untrusted, TypeOK
<1>6. ASSUME NEW p \in Procs, ProbeCert(p) PROVE TrustInv'
  BY <1>6, <1>t, OtherStep DEF ProbeCert, TypeOK
<1>7. ASSUME NEW p \in Procs, TofuOnce(p) PROVE TrustInv'
  BY <1>7, <1>t, OtherStep DEF TofuOnce, TypeOK
<1>8. ASSUME NEW p \in Procs, TofuAlways(p) PROVE TrustInv'
  <2>1. entry # None => WithPin(entry, seen[p]).pin = seen[p]
    BY <1>t DEF WithPin, TypeOK, ServerConfig
  <2>2. snap[p].url \in Urls
    BY <1>8, <1>t, SnapType DEF TofuAlways
  <2>3. Agreed(accepted', seen[p]) /\ accepted \subseteq accepted'
    BY <1>8, <2>2 DEF TofuAlways, Agreed
  <2>4. Update(WithPin(entry, seen[p]))
    BY <1>8 DEF TofuAlways
  <2>5. entry # None => Agreed(accepted', WithPin(entry, seen[p]).pin)
    BY <2>1, <2>3
  <2>6. PinShown' /\ TlsExclusive'
    BY <2>3, <2>4, <2>5, UpdateTrust
  <2>7. \A q \in Procs : pc'[q] \in {"repin", "pin-now"} =>
                            pc'[q] = pc[q] /\ seen'[q] = seen[q] /\ snap'[q] = snap[q]
    BY <1>8, <1>t DEF TofuAlways, TypeOK
  <2>8. QED
    BY <2>3, <2>6, <2>7, WriteStep
<1>9. ASSUME NEW p \in Procs, Rotated(p) PROVE TrustInv'
  BY <1>9, <1>t, OtherStep DEF Rotated, TypeOK
<1>10. ASSUME NEW p \in Procs, AcceptRotation(p) PROVE TrustInv'
  <2>1. snap[p].url \in Urls
    BY <1>10, <1>t, SnapType DEF AcceptRotation
  <2>2. Agreed(accepted', seen[p]) /\ accepted \subseteq accepted'
    BY <1>10, <2>1 DEF AcceptRotation, Agreed
  <2>a. UNCHANGED <<entry, seen>>
    BY <1>10 DEF AcceptRotation
  <2>b. entry # None /\ entry.pin # None => Agreed(accepted', entry.pin)
    BY <2>2, TrustNow, ShownMonotone
  <2>3. PinShown' /\ TlsExclusive'
    BY <2>a, <2>b, PinShownNext DEF TrustInv, TlsExclusive
  <2>4. ASSUME NEW q \in Procs, pc'[q] = "repin" PROVE Agreed(accepted', seen'[q])
    <3>1. q = p \/ pc[q] = "repin"
      BY <1>10, <1>t, <2>4 DEF AcceptRotation, TypeOK
    <3>2. QED
      BY <2>2, <2>a, <3>1, TrustNow, ShownMonotone
  <2>5. ASSUME NEW q \in Procs, pc'[q] = "pin-now"
        PROVE  Unanchored(snap'[q]) /\ Fresh(snap'[q])
    BY <1>10, <1>t, <2>5 DEF AcceptRotation, TrustInv, TypeOK
  <2>6. QED
    BY <2>3, <2>4, <2>5, TrustNext
<1>11. ASSUME NEW p \in Procs, Repin(p) PROVE TrustInv'
  <2> DEFINE new == [entry EXCEPT !.pin = seen[p]]
  <2>1. entry # None => new.pin = seen[p]
    BY <1>t DEF TypeOK, ServerConfig
  <2>2. Agreed(accepted', seen[p]) /\ accepted \subseteq accepted' /\ Update(new)
    BY <1>11, TrustNow DEF Repin
  <2>3. entry # None => Agreed(accepted', new.pin)
    BY <2>1, <2>2
  <2> HIDE DEF new
  <2>4. PinShown' /\ TlsExclusive'
    BY <2>2, <2>3, UpdateTrust
  <2>5. \A q \in Procs : pc'[q] \in {"repin", "pin-now"} =>
                            pc'[q] = pc[q] /\ seen'[q] = seen[q] /\ snap'[q] = snap[q]
    BY <1>11, <1>t DEF Repin, TypeOK
  <2>6. QED
    BY <2>2, <2>4, <2>5, WriteStep
<1>12. ASSUME NEW p \in Procs, Stop(p) PROVE TrustInv'
  BY <1>12, <1>t, OtherStep, Ending DEF Stop
<1>13. ASSUME NEW p \in Procs, SetServer(p) PROVE TrustInv'
  <2>1. PICK e \in NewEntries :
          /\ entry' = e
          /\ accepted' = IF e.pin = None THEN accepted ELSE accepted \cup {<<e.url, e.pin>>}
    BY <1>13 DEF SetServer
  <2>2. e.url \in Urls /\ Valid(e)
    BY DEF ServerConfig
  <2>3. PinShown' /\ TlsExclusive' /\ accepted \subseteq accepted'
    BY <2>1, <2>2 DEF PinShown, TlsExclusive, Shown
  <2>4. QED
    BY <1>13, <2>3, WriteStep DEF SetServer
<1>14. ASSUME NEW p \in Procs, PinNow(p) PROVE TrustInv'
  <2>1. PICK e \in NewEntries : Unanchored(e) /\ Begin(p, "pin-now", e, cert[e.url])
    BY <1>14 DEF PinNow
  <2>2. Fresh(e)
    OBVIOUS
  <2>3. PinShown' /\ TlsExclusive'
    BY <1>14 DEF PinNow, TrustInv, PinShown, TlsExclusive, Shown
  <2>4. ASSUME NEW q \in Procs, pc'[q] = "repin" PROVE Agreed(accepted', seen'[q])
    <3>1. q # p /\ pc[q] = "repin" /\ seen'[q] = seen[q] /\ accepted' = accepted
      BY <1>14, <1>t, <2>1, <2>4 DEF PinNow, Begin, TypeOK
    <3>2. QED
      BY <3>1, TrustNow
  <2>5. ASSUME NEW q \in Procs, pc'[q] = "pin-now"
        PROVE  Unanchored(snap'[q]) /\ Fresh(snap'[q])
    BY <1>t, <2>1, <2>2, <2>5 DEF Begin, TrustInv, TypeOK
  <2>6. QED
    BY <2>3, <2>4, <2>5, TrustNext
<1>15. ASSUME NEW p \in Procs, ConfirmPin(p) PROVE TrustInv'
  <2>1. snap[p] \in ServerConfig /\ snap[p].url \in Urls /\ Unanchored(snap[p])
    BY <1>15, <1>t, SnapType DEF ConfirmPin, TrustInv
  <2>2. entry'.pin = seen[p] /\ Valid(entry')
    BY <1>15, <2>1 DEF ConfirmPin, WithPin, Valid, Unanchored, ServerConfig
  <2>3. <<snap[p].url, seen[p]>> \in accepted' /\ accepted \subseteq accepted'
    BY <1>15 DEF ConfirmPin
  <2>4. PinShown' /\ TlsExclusive'
    BY <2>1, <2>2, <2>3 DEF PinShown, TlsExclusive, Shown
  <2>5. QED
    BY <1>15, <1>t, <2>3, <2>4, WriteStep, Ending DEF ConfirmPin
<1>16. ASSUME NEW p \in Procs, PinClear(p) PROVE TrustInv'
  <2>1. entry'.pin = None
    BY <1>16, <1>t DEF PinClear, TypeOK, ServerConfig
  <2>2. PinShown' /\ TlsExclusive'
    BY <2>1 DEF PinShown, TlsExclusive, Valid
  <2>3. QED
    BY <1>16, <2>2, WriteStep DEF PinClear
<1>17. ASSUME NEW p \in Procs, Remove(p) PROVE TrustInv'
  <2>1. PinShown' /\ TlsExclusive'
    BY <1>17 DEF Remove, PinShown, TlsExclusive
  <2>2. QED
    BY <1>17, <2>1, WriteStep DEF Remove
<1>18. ASSUME NEW u \in Urls, Renew(u) PROVE TrustInv'
  BY <1>18, OtherStep DEF Renew
<1>19. CASE UNCHANGED vars
  BY <1>19, OtherStep DEF vars
<1>20. QED
  BY <1>1, <1>2, <1>3, <1>4, <1>5, <1>6, <1>7, <1>8, <1>9, <1>10, <1>11, <1>12,
     <1>13, <1>14, <1>15, <1>16, <1>17, <1>18, <1>19 DEF Next, Step

\* The step form of NoResurrection: an update of an entry that is gone changes
\* nothing, so only SetServer and ConfirmPin create one.
LEMMA ReturnStep ==
  ASSUME TypeInv, TrustInv, [Next]_vars, entry = None, entry' # None
  PROVE  /\ ~entry'.mode
         /\ entry'.source = IF entry'.auth = None THEN "unknown" ELSE "pinned"
<1>1. ASSUME NEW p \in Procs, SetServer(p)
      PROVE  /\ ~entry'.mode
             /\ entry'.source = IF entry'.auth = None THEN "unknown" ELSE "pinned"
  BY <1>1 DEF SetServer, Fresh
<1>2. ASSUME NEW p \in Procs, ConfirmPin(p)
      PROVE  /\ ~entry'.mode
             /\ entry'.source = IF entry'.auth = None THEN "unknown" ELSE "pinned"
  <2>1. snap[p] \in ServerConfig /\ Fresh(snap[p])
    BY <1>2, SnapType DEF ConfirmPin, TypeInv, TrustInv
  <2>2. /\ entry'.mode = snap[p].mode
        /\ entry'.source = snap[p].source
        /\ entry'.auth = snap[p].auth
    BY <1>2, <2>1 DEF ConfirmPin, WithPin, ServerConfig
  <2>3. QED
    BY <2>1, <2>2 DEF Fresh
<1>3. ASSUME NEW p \in Procs, Persist(p) \/ TofuAlways(p) \/ Repin(p) PROVE FALSE
  BY <1>3 DEF Persist, TofuAlways, Repin, Update
<1>4. ASSUME NEW p \in Procs,
             \/ Connect(p) \/ Probe(p) \/ Detect(p) \/ Untrusted(p) \/ ProbeCert(p)
             \/ TofuOnce(p) \/ Rotated(p) \/ AcceptRotation(p) \/ Stop(p) \/ PinNow(p)
             \/ PinClear(p) \/ Remove(p)
      PROVE FALSE
  BY <1>4 DEF Connect, Probe, Detect, Untrusted, ProbeCert, TofuOnce, Rotated,
              AcceptRotation, Stop, PinNow, PinClear, Remove
<1>5. ASSUME NEW u \in Urls, Renew(u) PROVE FALSE
  BY <1>5 DEF Renew
<1>6. CASE UNCHANGED vars
  BY <1>6 DEF vars
<1>7. QED
  BY <1>1, <1>2, <1>3, <1>4, <1>5, <1>6 DEF Next, Step

\* PinShown: whatever the entry becomes between a handshake, a prompt and a
\* write, a certificate no user agreed to keep is never pinned.
THEOREM PinsShown == Spec => []PinShown
<1>1. TrustInv => PinShown
  BY DEF TrustInv
<1>2. QED
  BY <1>1, InitTypeInv, NextTypeInv, InitTrustInv, NextTrustInv, PTL DEF Spec

\* TlsExclusive: no prompt answered late leaves an entry with two kinds of
\* trust.
THEOREM TrustExclusive == Spec => []TlsExclusive
<1>1. TrustInv => TlsExclusive
  BY DEF TrustInv
<1>2. QED
  BY <1>1, InitTypeInv, NextTypeInv, InitTrustInv, NextTrustInv, PTL DEF Spec

\* NoResurrection: no command that was connecting brings a removed server back.
THEOREM RemovedStaysRemoved == Spec => NoResurrection
<1>1. TypeInv /\ TrustInv /\ [Next]_vars =>
        [entry = None /\ entry' # None =>
           /\ ~entry'.mode
           /\ entry'.source = IF entry'.auth = None THEN "unknown" ELSE "pinned"]_vars
  BY ReturnStep
<1>2. QED
  BY <1>1, InitTypeInv, NextTypeInv, InitTrustInv, NextTrustInv, PTL DEF Spec, NoResurrection
-----------------------------------------------------------------------------
(* Commands at the same time, through one entry *)

\* What an entry must be for its stamps to be believed: a detected method is its
\* server's, a pin was accepted for its own URL.
OwnEntry(e, a) ==
  e # None =>
    /\ e.source = "detected" => e.auth = Method[e.url]
    /\ e.pin # None => <<e.url, e.pin>> \in a

\* What a command at a step may rely on while the entry keeps its URL: s is its
\* snapshot, c the certificate it showed, f what it found, e the entry, a what was
\* accepted.
OwnUrl(step, s, c, f, e, a) ==
  /\ step \notin {"idle", "pin-now"} /\ e # None => s.url = e.url
  /\ step = "repin" => <<s.url, c>> \in a
  /\ step \in {"persist", "repersist"} =>
       (f.probed /\ f.auth # None => f.auth = Method[s.url])

\* What keeps DetectedSound and PinAccepted inductive: until an entry is re-pointed
\* under it, a command's snapshot has the entry's URL, whoever else writes to it.
UrlInv ==
  ~repointed =>
    /\ OwnEntry(entry, accepted)
    /\ \A p \in Procs : OwnUrl(pc[p], snap[p], seen[p], found[p], entry, accepted)

\* A recorded issuer is the one of the pin.
Matched(e) == e # None /\ e.pin # None /\ e.der # None => e.der = IssuerOf[e.pin]

\* What a command that may meet a rotated certificate may rely on until a pin of
\* another issuer is saved under it: the issuer on disk is the one it loaded, or
\* was cleared since.
OwnIssuer(step, s, c, e) ==
  /\ step \in {"probe", "detect", "rotate"} /\ s.pin # None =>
       /\ Matched(s)
       /\ e # None => e.der \in {None, s.der}
  /\ step \in {"rotate", "repin"} => s.pin # None /\ s.der \in {None, IssuerOf[c]}
  /\ step = "repin" /\ e # None => e.der \in {None, IssuerOf[c]}

\* What keeps PinIssuerMatches and RotationSameIssuer inductive.
IssuerInv ==
  ~repinned =>
    /\ Matched(entry)
    /\ \A p \in Procs : OwnIssuer(pc[p], snap[p], seen[p], entry)

LEMMA InitSharedInv == Init => UrlInv /\ IssuerInv
<1> SUFFICES ASSUME Init PROVE UrlInv /\ IssuerInv
  OBVIOUS
<1>1. entry # None => entry \in InitEntries
  BY DEF Init
<1>2. OwnEntry(entry, accepted) /\ Matched(entry)
  BY <1>1, EntriesAssumption DEF Init, OwnEntry, Matched
<1>3. \A p \in Procs : pc[p] = "idle"
  BY DEF Init
<1>4. QED
  BY <1>2, <1>3 DEF UrlInv, IssuerInv, OwnUrl, OwnIssuer

\* No process touches what another one holds.
Untouched(p) ==
  \A q \in Procs \ {p} : /\ pc'[q] = pc[q] /\ snap'[q] = snap[q]
                         /\ seen'[q] = seen[q] /\ found'[q] = found[q]

LEMMA EndUntouched ==
  ASSUME TypeOK, NEW p \in Procs, End(p)
  PROVE  Untouched(p)
  BY DEF TypeOK, End, Goto, Untouched

LEMMA OthersUntouched ==
  ASSUME TypeOK, NEW p \in Procs, Step(p)
  PROVE  Untouched(p)
<1> USE DEF Goto
<1>1. CASE Probe(p) \/ Persist(p) \/ Stop(p) \/ ConfirmPin(p)
  BY <1>1, EndUntouched DEF Probe, Persist, Stop, ConfirmPin
<1>2. CASE Connect(p)
  BY <1>2 DEF Connect, Begin, TypeOK, Untouched
<1>3. CASE PinNow(p)
  <2>1. PICK e \in NewEntries : Begin(p, "pin-now", e, cert[e.url])
    BY <1>3 DEF PinNow
  <2>2. QED
    BY <2>1 DEF Begin, TypeOK, Untouched
<1>4. CASE Detect(p)
  <2>1. PICK s : found' = [found EXCEPT ![p] = s]
    BY <1>4 DEF Detect
  <2>2. QED
    BY <1>4, <2>1 DEF Detect, TypeOK, Untouched
<1>5. CASE Untrusted(p) \/ ProbeCert(p) \/ Rotated(p) \/ Repin(p)
  BY <1>5 DEF Untrusted, ProbeCert, Rotated, Repin, TypeOK, Untouched
<1>6. CASE TofuOnce(p) \/ TofuAlways(p)
  BY <1>6 DEF TofuOnce, TofuAlways, TypeOK, Untouched
<1>7. CASE AcceptRotation(p)
  BY <1>7 DEF AcceptRotation, TypeOK, Untouched
<1>8. CASE SetServer(p) \/ PinClear(p) \/ Remove(p)
  BY <1>8 DEF SetServer, PinClear, Remove, procVars, Untouched
<1>9. QED
  BY <1>1, <1>2, <1>3, <1>4, <1>5, <1>6, <1>7, <1>8 DEF Step

\* A process's step answers for what it relies on itself and for the entry; to
\* the others it matters only whether the URL has changed.
LEMMA UrlStep ==
  ASSUME TypeInv, UrlInv, NEW p \in Procs, Untouched(p), accepted \subseteq accepted',
         ~repointed' => ~repointed,
         entry' # None =>
           \/ entry # None /\ entry'.url = entry.url
           \/ ~repointed' => \A q \in Procs \ {p} :
                               pc[q] \notin {"idle", "pin-now"} => snap[q].url = entry'.url,
         ~repointed' => /\ OwnEntry(entry', accepted')
                        /\ OwnUrl(pc'[p], snap'[p], seen'[p], found'[p], entry', accepted')
  PROVE  UrlInv'
<1> SUFFICES ASSUME ~repointed', NEW q \in Procs, q # p
             PROVE  OwnUrl(pc'[q], snap'[q], seen'[q], found'[q], entry', accepted')
  BY DEF UrlInv
<1>1. OwnUrl(pc[q], snap[q], seen[q], found[q], entry, accepted)
  BY DEF UrlInv
<1>2. pc'[q] = pc[q] /\ snap'[q] = snap[q] /\ seen'[q] = seen[q] /\ found'[q] = found[q]
  BY DEF Untouched
<1>3. pc[q] \notin {"idle", "pin-now"} /\ entry' # None => snap[q].url = entry'.url
  BY <1>1 DEF OwnUrl
<1>4. QED
  BY <1>1, <1>2, <1>3 DEF OwnUrl

\* The same for the issuer.
LEMMA IssuerStep ==
  ASSUME TypeInv, IssuerInv, NEW p \in Procs, Untouched(p),
         ~repinned' => ~repinned,
         entry' # None =>
           \/ entry # None /\ entry'.der = entry.der
           \/ entry'.der = None
           \/ ~repinned' => \A q \in Procs \ {p} :
                              pc[q] \in {"probe", "detect", "rotate", "repin"} /\ snap[q].pin # None
                                => snap[q].der = entry'.der,
         ~repinned' => /\ Matched(entry')
                       /\ OwnIssuer(pc'[p], snap'[p], seen'[p], entry')
  PROVE  IssuerInv'
<1> SUFFICES ASSUME ~repinned', NEW q \in Procs, q # p
             PROVE  OwnIssuer(pc'[q], snap'[q], seen'[q], entry')
  BY DEF IssuerInv
<1>1. OwnIssuer(pc[q], snap[q], seen[q], entry)
  BY DEF IssuerInv
<1>2. pc'[q] = pc[q] /\ snap'[q] = snap[q] /\ seen'[q] = seen[q]
  BY DEF Untouched
<1>3. entry' # None => \/ entry # None /\ entry'.der = entry.der
                       \/ entry'.der = None
                       \/ pc[q] \in {"probe", "detect", "rotate", "repin"} /\ snap[q].pin # None
                            => snap[q].der = entry'.der
  OBVIOUS
<1>4. QED
  BY <1>1, <1>2, <1>3 DEF OwnIssuer

\* An entry on disk is an entry; no value of its fields is the absence of one.
LEMMA EntryType ==
  ASSUME TypeInv
  PROVE  entry # None => entry \in ServerConfig
  BY DEF TypeInv, TypeOK

\* A pin written with its own issuer, accepted for the entry's URL.
LEMMA PinOwn ==
  ASSUME NEW e \in ServerConfig, NEW c \in Certs, NEW b,
         e.source = "detected" => e.auth = Method[e.url], <<e.url, c>> \in b
  PROVE  OwnEntry(WithPin(e, c), b)
  BY DEF WithPin, ServerConfig, OwnEntry

LEMMA PinFields ==
  ASSUME NEW e \in ServerConfig, NEW c \in Certs
  PROVE  /\ WithPin(e, c).url = e.url /\ WithPin(e, c).pin = c
         /\ WithPin(e, c).der = IssuerOf[c] /\ Matched(WithPin(e, c))
         /\ WithPin(e, c) # None
<1>1. WithPin(e, c) \in ServerConfig
  BY WithPinType
<1>2. QED
  BY <1>1 DEF WithPin, ServerConfig, Matched

\* Settings found at the entry's own server, and what they leave alone.
LEMMA SettingsFields ==
  ASSUME NEW e \in ServerConfig, NEW s, NEW auth
  PROVE  /\ WithSettings(e, s, auth).url = e.url
         /\ WithSettings(e, s, auth).pin = e.pin
         /\ WithSettings(e, s, auth).der = e.der
  BY DEF WithSettings, ServerConfig

LEMMA SettingsOwn ==
  ASSUME NEW e \in ServerConfig, NEW s \in Settings, NEW auth \in BOOLEAN, NEW a,
         OwnEntry(e, a), e # None,
         s.probed /\ s.auth # None => s.auth = Method[e.url]
  PROVE  OwnEntry(WithSettings(e, s, auth), a)
<1> DEFINE w == WithSettings(e, s, auth)
<1>1. w.url = e.url /\ w.pin = e.pin
  BY SettingsFields
<1>2. /\ w.auth = IF auth /\ s.auth # None THEN s.auth ELSE e.auth
      /\ w.source = IF ~auth \/ s.auth = None THEN e.source
                    ELSE IF s.probed THEN "detected" ELSE "unknown"
  BY DEF WithSettings, ServerConfig
<1> HIDE DEF w
<1>3. w.source = "detected" => w.auth = Method[w.url]
  BY <1>1, <1>2 DEF OwnEntry, Settings
<1>4. OwnEntry(w, a)
  BY <1>1, <1>3 DEF OwnEntry
<1>5. QED
  BY <1>4 DEF w

\* What detection finds at a server, as far as it is the server's answer.
LEMMA AnswersTrue ==
  ASSUME NEW e \in ServerConfig, NEW c
  PROVE  /\ \A s \in Answers(e) : s.probed /\ s.auth # None => s.auth = Method[e.url]
         /\ \A s \in Fallbacks(e, c) : ~s.probed
<1>1. ASSUME NEW s \in Answers(e), s.probed PROVE s.auth = Method[e.url]
  <2>1. PICK v \in {TRUE} \cup {~("version" \in Faults)} :
          s = [auth |-> IF e.cred = "key" THEN Method[e.url] ELSE None,
               probed |-> e.cred = "key", version |-> v]
    BY Zenon DEF Answers
  <2>2. QED
    BY <1>1, <2>1
<1>2. \A s \in Fallbacks(e, c) : ~s.probed
  BY DEF Fallbacks
<1>3. QED
  BY <1>1, <1>2

LEMMA NextUrlInv == TypeInv /\ TrustInv /\ UrlInv /\ [Next]_vars => UrlInv'
<1> SUFFICES ASSUME TypeInv, TrustInv, UrlInv, [Next]_vars PROVE UrlInv'
  OBVIOUS
<1> USE DEF Goto, boundVars, histVars
<1>t. TypeOK
  BY DEF TypeInv
<1>a. ASSUME ~repointed
      PROVE  /\ OwnEntry(entry, accepted)
             /\ \A p \in Procs : OwnUrl(pc[p], snap[p], seen[p], found[p], entry, accepted)
  BY <1>a DEF UrlInv
<1>1. ASSUME NEW p \in Procs, Connect(p), Untouched(p) PROVE UrlInv'
  <2>1. /\ pc'[p] \in {"probe", "detect"} /\ snap'[p] = entry
        /\ UNCHANGED <<entry, accepted, repointed>>
    BY <1>1, <1>t DEF Connect, Begin, TypeOK
  <2>2. ~repointed => OwnUrl(pc'[p], snap'[p], seen'[p], found'[p], entry, accepted)
    BY <2>1 DEF OwnUrl
  <2>3. QED
    BY <1>1, <1>a, <2>1, <2>2, UrlStep
<1>2. ASSUME NEW p \in Procs, Probe(p) \/ Stop(p), Untouched(p) PROVE UrlInv'
  <2>1. pc'[p] = "idle" /\ UNCHANGED <<entry, accepted, repointed>>
    BY <1>2, <1>t DEF Probe, Stop, End, TypeOK
  <2>2. OwnUrl(pc'[p], snap'[p], seen'[p], found'[p], entry, accepted)
    BY <2>1 DEF OwnUrl
  <2>3. QED
    BY <1>2, <1>a, <2>1, <2>2, UrlStep
<1>3. ASSUME NEW p \in Procs, Detect(p), Untouched(p) PROVE UrlInv'
  <2>1. /\ pc[p] \in {"detect", "redetect"} /\ pc'[p] \in {"persist", "repersist"}
        /\ UNCHANGED <<entry, accepted, snap, seen, repointed>>
    BY <1>3, <1>t DEF Detect, TypeOK
  <2>2. snap[p] \in ServerConfig
    BY <2>1, <1>t, SnapType
  <2>3. PICK s : /\ found' = [found EXCEPT ![p] = s]
                 /\ s \in Answers(snap[p]) \/ s \in Fallbacks(snap[p], cert[snap[p].url])
    BY <1>3 DEF Detect
  <2>4. s.probed /\ s.auth # None => s.auth = Method[snap[p].url]
    BY <2>2, <2>3, AnswersTrue
  <2>5. found'[p] = s
    BY <2>3, <1>t DEF TypeOK
  <2>6. ASSUME ~repointed PROVE OwnUrl(pc'[p], snap[p], seen[p], s, entry, accepted)
    BY <1>a, <2>1, <2>4, <2>6 DEF OwnUrl
  <2>7. QED
    BY <1>3, <1>a, <2>1, <2>5, <2>6, UrlStep
<1>4. ASSUME NEW p \in Procs, Persist(p), Untouched(p) PROVE UrlInv'
  <2> DEFINE auth == pc[p] = "repersist" \/ RecordsAuth(snap[p])
             new == WithSettings(entry, found[p], auth)
  <2>1. /\ pc[p] \in {"persist", "repersist"} /\ Update(new) /\ pc'[p] = "idle"
        /\ accepted' = accepted /\ repointed' = repointed
    BY <1>4, <1>t DEF Persist, End, TypeOK
  <2>2. OwnUrl(pc'[p], snap'[p], seen'[p], found'[p], entry', accepted)
    BY <2>1 DEF OwnUrl
  <2>3. CASE entry = None
    <3>1. entry' = None
      BY <2>1, <2>3 DEF Update
    <3>2. OwnEntry(entry', accepted)
      BY <3>1 DEF OwnEntry
    <3>3. QED
      BY <1>4, <2>1, <2>2, <3>1, <3>2, UrlStep
  <2>4. CASE entry # None
    <3>1. entry \in ServerConfig /\ found[p] \in Settings /\ auth \in BOOLEAN
      BY <1>t, <2>4, EntryType DEF TypeOK, RecordsAuth
    <3>2. new.url = entry.url
      BY <3>1, SettingsFields
    <3>3. ASSUME ~repointed PROVE OwnEntry(new, accepted)
      <4>1. /\ snap[p].url = entry.url /\ OwnEntry(entry, accepted)
            /\ found[p].probed /\ found[p].auth # None => found[p].auth = Method[snap[p].url]
        BY <1>a, <2>1, <2>4, <3>3 DEF OwnUrl
      <4>2. QED
        BY <2>4, <3>1, <4>1, SettingsOwn
    <3> HIDE DEF new
    <3>4. entry' = new
      BY <2>1, <2>4 DEF Update
    <3>5. QED
      BY <1>4, <2>1, <2>2, <2>4, <3>2, <3>3, <3>4, UrlStep
  <2>5. QED
    BY <2>3, <2>4
<1>5. ASSUME NEW p \in Procs, Untrusted(p) \/ ProbeCert(p) \/ Rotated(p), Untouched(p)
      PROVE  UrlInv'
  <2>1. /\ pc[p] \notin {"idle", "pin-now"} /\ pc'[p] \in {"untrusted", "tofu", "rotate"}
        /\ UNCHANGED <<entry, accepted, snap, found, repointed>>
    BY <1>5, <1>t DEF Untrusted, ProbeCert, Rotated, TypeOK
  <2>2. ASSUME ~repointed PROVE OwnUrl(pc'[p], snap[p], seen'[p], found[p], entry, accepted)
    BY <1>a, <2>1, <2>2 DEF OwnUrl
  <2>3. QED
    BY <1>5, <1>a, <2>1, <2>2, UrlStep
<1>6. ASSUME NEW p \in Procs, TofuOnce(p), Untouched(p) PROVE UrlInv'
  <2>1. /\ pc[p] = "tofu" /\ pc'[p] = "redetect" /\ snap'[p] = WithPin(snap[p], seen[p])
        /\ UNCHANGED <<entry, accepted, seen, found, repointed>>
    BY <1>6, <1>t DEF TofuOnce, TypeOK
  <2>2. snap'[p].url = snap[p].url
    BY <2>1, <1>t, SnapType DEF WithPin, ServerConfig
  <2>3. ASSUME ~repointed PROVE OwnUrl(pc'[p], snap'[p], seen[p], found[p], entry, accepted)
    BY <1>a, <2>1, <2>2, <2>3 DEF OwnUrl
  <2>4. QED
    BY <1>6, <1>a, <2>1, <2>3, UrlStep
<1>7. ASSUME NEW p \in Procs, TofuAlways(p), Untouched(p) PROVE UrlInv'
  <2>1. /\ pc[p] = "tofu" /\ pc'[p] = "redetect" /\ snap'[p] = WithPin(snap[p], seen[p])
        /\ Update(WithPin(entry, seen[p]))
        /\ accepted' = accepted \cup {<<snap[p].url, seen[p]>>}
        /\ UNCHANGED <<seen, found, repointed>>
    BY <1>7, <1>t DEF TofuAlways, TypeOK
  <2>2. snap'[p].url = snap[p].url /\ seen[p] \in Certs
    BY <2>1, <1>t, SnapType DEF TypeInv, WithPin, ServerConfig
  <2>3. CASE entry = None
    <3>1. entry' = None
      BY <2>1, <2>3 DEF Update
    <3>2. OwnEntry(entry', accepted') /\ OwnUrl(pc'[p], snap'[p], seen[p], found[p], entry', accepted')
      BY <2>1, <3>1 DEF OwnEntry, OwnUrl
    <3>3. QED
      BY <1>7, <2>1, <3>1, <3>2, UrlStep
  <2>4. CASE entry # None
    <3>1. entry \in ServerConfig /\ entry' = WithPin(entry, seen[p])
      BY <2>1, <2>4, EntryType DEF Update
    <3>2. entry'.url = entry.url
      BY <2>2, <3>1, PinFields
    <3>3. ASSUME ~repointed
          PROVE  /\ OwnEntry(entry', accepted')
                 /\ OwnUrl(pc'[p], snap'[p], seen[p], found[p], entry', accepted')
      <4>1. /\ entry.source = "detected" => entry.auth = Method[entry.url]
            /\ snap[p].url = entry.url
        BY <1>a, <2>1, <2>4, <3>3 DEF OwnEntry, OwnUrl
      <4>2. <<entry.url, seen[p]>> \in accepted'
        BY <2>1, <4>1
      <4>3. OwnEntry(entry', accepted')
        BY <2>2, <3>1, <4>1, <4>2, PinOwn
      <4>4. OwnUrl(pc'[p], snap'[p], seen[p], found[p], entry', accepted')
        BY <2>1, <2>2, <3>2, <4>1 DEF OwnUrl
      <4>5. QED
        BY <4>3, <4>4
    <3>4. QED
      BY <1>7, <2>1, <2>4, <3>2, <3>3, UrlStep
  <2>5. QED
    BY <2>3, <2>4
<1>8. ASSUME NEW p \in Procs, AcceptRotation(p), Untouched(p) PROVE UrlInv'
  <2>1. /\ pc[p] = "rotate" /\ pc'[p] = "repin"
        /\ accepted' = accepted \cup {<<snap[p].url, seen[p]>>}
        /\ UNCHANGED <<entry, seen, found, repointed>>
    BY <1>8, <1>t DEF AcceptRotation, TypeOK
  <2>2. snap'[p].url = snap[p].url
    BY <1>8, <2>1, <1>t, SnapType DEF AcceptRotation, TypeOK, ServerConfig
  <2>3. ASSUME ~repointed
        PROVE  /\ OwnEntry(entry, accepted')
               /\ OwnUrl(pc'[p], snap'[p], seen[p], found[p], entry, accepted')
    BY <1>a, <2>1, <2>2, <2>3 DEF OwnEntry, OwnUrl
  <2>4. QED
    BY <1>8, <2>1, <2>3, UrlStep
<1>9. ASSUME NEW p \in Procs, Repin(p), Untouched(p) PROVE UrlInv'
  <2> DEFINE new == [entry EXCEPT !.pin = seen[p]]
  <2>1. /\ pc[p] = "repin" /\ pc'[p] = "redetect" /\ Update(new)
        /\ UNCHANGED <<accepted, snap, seen, found, repointed>>
    BY <1>9, <1>t DEF Repin, TypeOK
  <2>2. CASE entry = None
    <3>1. entry' = None
      BY <2>1, <2>2 DEF Update
    <3>2. OwnEntry(entry', accepted) /\ OwnUrl(pc'[p], snap[p], seen[p], found[p], entry', accepted)
      BY <2>1, <3>1 DEF OwnEntry, OwnUrl
    <3>3. QED
      BY <1>9, <2>1, <3>1, <3>2, UrlStep
  <2>3. CASE entry # None
    <3>1. entry' = new
      BY <2>1, <2>3 DEF Update
    <3>2. /\ new.pin = seen[p] /\ new.url = entry.url
          /\ new.source = entry.source /\ new.auth = entry.auth
      BY <2>3, EntryType DEF ServerConfig
    <3> HIDE DEF new
    <3>3. ASSUME ~repointed
          PROVE  /\ OwnEntry(new, accepted)
                 /\ OwnUrl(pc'[p], snap[p], seen[p], found[p], new, accepted)
      BY <1>a, <2>1, <2>3, <3>2, <3>3 DEF OwnEntry, OwnUrl
    <3>4. QED
      BY <1>9, <2>1, <2>3, <3>1, <3>2, <3>3, UrlStep
  <2>4. QED
    BY <2>2, <2>3
<1>10. ASSUME NEW p \in Procs, SetServer(p), Untouched(p) PROVE UrlInv'
  <2>1. PICK e \in NewEntries :
          /\ entry' = e
          /\ accepted' = IF e.pin = None THEN accepted ELSE accepted \cup {<<e.url, e.pin>>}
          /\ Repoint(e.url)
    BY <1>10 DEF SetServer
  <2>2. pc[p] = "idle" /\ UNCHANGED <<pc, snap, seen, found>>
    BY <1>10 DEF SetServer, procVars
  <2>3. /\ OwnEntry(entry', accepted')
        /\ OwnUrl(pc'[p], snap'[p], seen'[p], found'[p], entry', accepted')
    BY <2>1, <2>2 DEF OwnEntry, OwnUrl, Fresh
  <2>4. ~repointed' => /\ ~repointed
                       /\ \A q \in Procs : pc[q] \notin {"idle", "pin-now"} => snap[q].url = entry'.url
    BY <2>1 DEF Repoint
  <2>5. QED
    BY <1>10, <2>1, <2>3, <2>4, UrlStep
<1>11. ASSUME NEW p \in Procs, PinNow(p), Untouched(p) PROVE UrlInv'
  <2>1. pc'[p] = "pin-now" /\ UNCHANGED <<entry, accepted, repointed>>
    BY <1>11, <1>t DEF PinNow, Begin, TypeOK
  <2>2. OwnUrl(pc'[p], snap'[p], seen'[p], found'[p], entry, accepted)
    BY <2>1 DEF OwnUrl
  <2>3. QED
    BY <1>11, <1>a, <2>1, <2>2, UrlStep
<1>12. ASSUME NEW p \in Procs, ConfirmPin(p), Untouched(p) PROVE UrlInv'
  <2>1. /\ pc[p] = "pin-now" /\ pc'[p] = "idle"
        /\ entry' = WithPin(snap[p], seen[p])
        /\ accepted' = accepted \cup {<<snap[p].url, seen[p]>>}
        /\ Repoint(snap[p].url)
    BY <1>12, <1>t DEF ConfirmPin, End, TypeOK
  <2>2. snap[p] \in ServerConfig /\ seen[p] \in Certs /\ snap[p].source # "detected"
    BY <2>1, <1>t, SnapType DEF TypeInv, TrustInv, Fresh
  <2>3. entry'.url = snap[p].url
    BY <2>1, <2>2, PinFields
  <2>4. <<snap[p].url, seen[p]>> \in accepted'
    BY <2>1
  <2>5. OwnEntry(entry', accepted')
    BY <2>1, <2>2, <2>4, PinOwn
  <2>6. OwnUrl(pc'[p], snap'[p], seen'[p], found'[p], entry', accepted')
    BY <2>1 DEF OwnUrl
  <2>7. ~repointed' => /\ ~repointed
                       /\ \A q \in Procs : pc[q] \notin {"idle", "pin-now"} => snap[q].url = entry'.url
    BY <2>1, <2>3 DEF Repoint
  <2>8. QED
    BY <1>12, <2>1, <2>5, <2>6, <2>7, UrlStep
<1>13. ASSUME NEW p \in Procs, PinClear(p), Untouched(p) PROVE UrlInv'
  <2>1. entry # None /\ entry \in ServerConfig
    BY <1>13, <1>t DEF PinClear, TypeOK
  <2>2. /\ entry'.pin = None /\ entry'.source = entry.source
        /\ entry'.auth = entry.auth /\ entry'.url = entry.url
    BY <1>13, <2>1 DEF PinClear, ServerConfig
  <2>3. pc[p] = "idle" /\ UNCHANGED <<accepted, pc, snap, seen, found, repointed>>
    BY <1>13 DEF PinClear, procVars
  <2>4. ~repointed => /\ OwnEntry(entry', accepted)
                      /\ OwnUrl(pc[p], snap[p], seen[p], found[p], entry', accepted)
    BY <1>a, <2>1, <2>2, <2>3 DEF OwnEntry, OwnUrl
  <2>5. QED
    BY <1>13, <2>1, <2>2, <2>3, <2>4, UrlStep
<1>14. ASSUME NEW p \in Procs, Remove(p), Untouched(p) PROVE UrlInv'
  <2>1. pc[p] = "idle" /\ entry' = None /\ UNCHANGED <<accepted, pc, snap, seen, found, repointed>>
    BY <1>14 DEF Remove, procVars
  <2>2. /\ OwnEntry(entry', accepted')
        /\ OwnUrl(pc'[p], snap'[p], seen'[p], found'[p], entry', accepted')
    BY <2>1 DEF OwnEntry, OwnUrl
  <2>3. QED
    BY <1>14, <2>1, <2>2, UrlStep
<1>15. ASSUME NEW u \in Urls, Renew(u) PROVE UrlInv'
  BY <1>15 DEF Renew, UrlInv, procVars
<1>16. CASE UNCHANGED vars
  BY <1>16 DEF vars, UrlInv, procVars
<1>17. QED
  BY <1>t, <1>1, <1>2, <1>3, <1>4, <1>5, <1>6, <1>7, <1>8, <1>9, <1>10, <1>11, <1>12,
     <1>13, <1>14, <1>15, <1>16, OthersUntouched DEF Next, Step

LEMMA NextIssuerInv == TypeInv /\ IssuerInv /\ [Next]_vars => IssuerInv'
<1> SUFFICES ASSUME TypeInv, IssuerInv, [Next]_vars PROVE IssuerInv'
  OBVIOUS
<1> USE DEF Goto, boundVars, histVars
<1>t. TypeOK
  BY DEF TypeInv
<1>a. ASSUME ~repinned
      PROVE  Matched(entry) /\ \A p \in Procs : OwnIssuer(pc[p], snap[p], seen[p], entry)
  BY <1>a DEF IssuerInv
<1>1. ASSUME NEW p \in Procs, Connect(p), Untouched(p) PROVE IssuerInv'
  <2>1. /\ pc'[p] \in {"probe", "detect"} /\ snap'[p] = entry
        /\ UNCHANGED <<entry, repinned>>
    BY <1>1, <1>t DEF Connect, Begin, TypeOK
  <2>2. ~repinned => OwnIssuer(pc'[p], snap'[p], seen'[p], entry)
    BY <1>a, <2>1 DEF OwnIssuer
  <2>3. QED
    BY <1>1, <1>a, <2>1, <2>2, IssuerStep
<1>2. ASSUME NEW p \in Procs,
             \/ Probe(p) \/ Stop(p) \/ Detect(p) \/ Untrusted(p) \/ ProbeCert(p)
             \/ TofuOnce(p) \/ PinNow(p),
             Untouched(p)
      PROVE  IssuerInv'
  <2>1. /\ pc'[p] \notin {"probe", "detect", "rotate", "repin"}
        /\ UNCHANGED <<entry, repinned>>
    BY <1>2, <1>t DEF Probe, Stop, End, Detect, Untrusted, ProbeCert, TofuOnce, PinNow,
                      Begin, TypeOK
  <2>2. OwnIssuer(pc'[p], snap'[p], seen'[p], entry)
    BY <2>1 DEF OwnIssuer
  <2>3. QED
    BY <1>2, <1>a, <2>1, <2>2, IssuerStep
<1>3. ASSUME NEW p \in Procs, Persist(p), Untouched(p) PROVE IssuerInv'
  <2> DEFINE new == WithSettings(entry, found[p], pc[p] = "repersist" \/ RecordsAuth(snap[p]))
  <2>1. Update(new) /\ pc'[p] = "idle" /\ repinned' = repinned
    BY <1>3, <1>t DEF Persist, End, TypeOK
  <2>2. entry # None => new.pin = entry.pin /\ new.der = entry.der
    BY EntryType, SettingsFields
  <2> HIDE DEF new
  <2>3. (entry = None /\ entry' = None) \/ (entry # None /\ entry' = new)
    BY <2>1 DEF Update
  <2>4. OwnIssuer(pc'[p], snap'[p], seen'[p], entry')
    BY <2>1 DEF OwnIssuer
  <2>5. Matched(entry) => Matched(entry')
    BY <2>2, <2>3 DEF Matched
  <2>6. QED
    BY <1>3, <1>a, <2>1, <2>2, <2>3, <2>4, <2>5, IssuerStep
<1>4. ASSUME NEW p \in Procs, TofuAlways(p), Untouched(p) PROVE IssuerInv'
  <2>1. /\ pc[p] = "tofu" /\ pc'[p] = "redetect"
        /\ Update(WithPin(entry, seen[p]))
        /\ IF entry = None THEN UNCHANGED repinned ELSE Reissue(IssuerOf[seen[p]])
    BY <1>4, <1>t DEF TofuAlways, TypeOK
  <2>2. OwnIssuer(pc'[p], snap'[p], seen'[p], entry')
    BY <2>1 DEF OwnIssuer
  <2>3. seen[p] \in Certs
    BY <2>1 DEF TypeInv
  <2>4. CASE entry = None
    <3>1. entry' = None /\ repinned' = repinned
      BY <2>1, <2>4 DEF Update
    <3>2. QED
      BY <1>4, <2>2, <3>1, IssuerStep DEF Matched
  <2>5. CASE entry # None
    <3>1. entry' = WithPin(entry, seen[p]) /\ Reissue(IssuerOf[seen[p]])
      BY <2>1, <2>5 DEF Update
    <3>2. entry'.der = IssuerOf[seen[p]] /\ Matched(entry')
      BY <2>3, <2>5, <3>1, EntryType, PinFields
    <3>3. ~repinned' =>
            /\ ~repinned
            /\ \A q \in Procs :
                 pc[q] \in {"probe", "detect", "rotate", "repin"} /\ snap[q].pin # None
                   => snap[q].der = entry'.der
      BY <3>1, <3>2 DEF Reissue
    <3>4. QED
      BY <1>4, <2>2, <3>2, <3>3, IssuerStep
  <2>6. QED
    BY <2>4, <2>5
<1>5. ASSUME NEW p \in Procs, Rotated(p), Untouched(p) PROVE IssuerInv'
  <2>1. /\ pc[p] \in {"probe", "detect"} /\ pc'[p] = "rotate"
        /\ PinMismatch(snap[p], cert[snap[p].url])
        /\ seen'[p] = cert[snap[p].url]
        /\ UNCHANGED <<entry, snap, repinned>>
    BY <1>5, <1>t DEF Rotated, TypeOK
  <2>2. ASSUME ~repinned PROVE OwnIssuer("rotate", snap[p], seen'[p], entry)
    BY <1>a, <2>1, <2>2 DEF OwnIssuer, PinMismatch
  <2>3. QED
    BY <1>5, <1>a, <2>1, <2>2, IssuerStep
<1>6. ASSUME NEW p \in Procs, AcceptRotation(p), Untouched(p) PROVE IssuerInv'
  <2>1. /\ pc[p] = "rotate" /\ pc'[p] = "repin" /\ UNCHANGED <<entry, seen, repinned>>
    BY <1>6, <1>t DEF AcceptRotation, TypeOK
  <2>2. snap[p] \in ServerConfig /\ seen[p] \in Certs
    BY <2>1, <1>t, SnapType DEF TypeInv
  <2>3. /\ snap'[p].pin = seen[p]
        /\ snap'[p].der = IF entry = None THEN None ELSE entry.der
    BY <1>6, <1>t, <2>2 DEF AcceptRotation, TypeOK, ServerConfig
  <2>4. ASSUME ~repinned PROVE OwnIssuer("repin", snap'[p], seen[p], entry)
    <3>1. /\ snap[p].der \in {None, IssuerOf[seen[p]]}
          /\ entry # None => entry.der \in {None, snap[p].der}
      BY <1>a, <2>1, <2>4 DEF OwnIssuer
    <3>2. QED
      BY <2>2, <2>3, <3>1 DEF OwnIssuer
  <2>5. QED
    BY <1>6, <1>a, <2>1, <2>4, IssuerStep
<1>7. ASSUME NEW p \in Procs, Repin(p), Untouched(p) PROVE IssuerInv'
  <2> DEFINE new == [entry EXCEPT !.pin = seen[p]]
  <2>1. /\ pc[p] = "repin" /\ pc'[p] = "redetect" /\ Update(new) /\ repinned' = repinned
    BY <1>7, <1>t DEF Repin, TypeOK
  <2>2. entry # None => new.pin = seen[p] /\ new.der = entry.der
    BY EntryType DEF ServerConfig
  <2> HIDE DEF new
  <2>3. (entry = None /\ entry' = None) \/ (entry # None /\ entry' = new)
    BY <2>1 DEF Update
  <2>4. OwnIssuer(pc'[p], snap'[p], seen'[p], entry')
    BY <2>1 DEF OwnIssuer
  <2>5. ASSUME ~repinned PROVE Matched(entry')
    BY <1>a, <2>1, <2>2, <2>3, <2>5 DEF OwnIssuer, Matched
  <2>6. QED
    BY <1>7, <2>1, <2>2, <2>3, <2>4, <2>5, IssuerStep
<1>8. ASSUME NEW p \in Procs, SetServer(p) \/ PinClear(p), Untouched(p) PROVE IssuerInv'
  <2>1. pc[p] = "idle" /\ UNCHANGED <<pc, snap, seen, repinned>>
    BY <1>8 DEF SetServer, PinClear, procVars
  <2>2. entry'.der = None
    <3>1. CASE SetServer(p)
      BY <3>1 DEF SetServer, Fresh
    <3>2. CASE PinClear(p)
      BY <3>2, EntryType DEF PinClear, ServerConfig
    <3>3. QED
      BY <1>8, <3>1, <3>2
  <2>3. Matched(entry') /\ OwnIssuer(pc'[p], snap'[p], seen'[p], entry')
    BY <2>1, <2>2 DEF Matched, OwnIssuer
  <2>4. QED
    BY <1>8, <2>1, <2>2, <2>3, IssuerStep
<1>9. ASSUME NEW p \in Procs, ConfirmPin(p), Untouched(p) PROVE IssuerInv'
  <2>1. /\ pc[p] = "pin-now" /\ pc'[p] = "idle"
        /\ entry' = WithPin(snap[p], seen[p])
        /\ Reissue(IssuerOf[seen[p]])
    BY <1>9, <1>t DEF ConfirmPin, End, TypeOK
  <2>2. snap[p] \in ServerConfig /\ seen[p] \in Certs
    BY <2>1, <1>t, SnapType DEF TypeInv
  <2>3. entry'.der = IssuerOf[seen[p]] /\ Matched(entry')
    BY <2>1, <2>2, PinFields
  <2>4. OwnIssuer(pc'[p], snap'[p], seen'[p], entry')
    BY <2>1 DEF OwnIssuer
  <2>5. ~repinned' =>
          /\ ~repinned
          /\ \A q \in Procs :
               pc[q] \in {"probe", "detect", "rotate", "repin"} /\ snap[q].pin # None
                 => snap[q].der = entry'.der
    BY <2>1, <2>3 DEF Reissue
  <2>6. QED
    BY <1>9, <2>3, <2>4, <2>5, IssuerStep
<1>10. ASSUME NEW p \in Procs, Remove(p), Untouched(p) PROVE IssuerInv'
  <2>1. pc[p] = "idle" /\ entry' = None /\ UNCHANGED <<pc, snap, seen, repinned>>
    BY <1>10 DEF Remove, procVars
  <2>2. Matched(entry') /\ OwnIssuer(pc'[p], snap'[p], seen'[p], entry')
    BY <2>1 DEF Matched, OwnIssuer
  <2>3. QED
    BY <1>10, <2>1, <2>2, IssuerStep
<1>11. ASSUME NEW u \in Urls, Renew(u) PROVE IssuerInv'
  BY <1>11 DEF Renew, IssuerInv, procVars
<1>12. CASE UNCHANGED vars
  BY <1>12 DEF vars, IssuerInv, procVars
<1>13. QED
  BY <1>t, <1>1, <1>2, <1>3, <1>4, <1>5, <1>6, <1>7, <1>8, <1>9, <1>10, <1>11, <1>12,
     OthersUntouched DEF Next, Step

\* The inductive invariants of this section, of every behaviour.
LEMMA SharedHolds == Spec => [](TypeInv /\ UrlInv /\ IssuerInv)
<1>1. Init => TypeInv /\ TrustInv /\ UrlInv /\ IssuerInv
  BY InitTypeInv, InitTrustInv, InitSharedInv
<1>2. (TypeInv /\ TrustInv /\ UrlInv /\ IssuerInv) /\ [Next]_vars =>
        (TypeInv /\ TrustInv /\ UrlInv /\ IssuerInv)'
  BY NextTypeInv, NextTrustInv, NextUrlInv, NextIssuerInv
<1>3. QED
  BY <1>1, <1>2, PTL DEF Spec

\* DetectedSound: a method stamped as probed is what the entry's own server
\* answered, however many commands run through the entry at the same time, until
\* it is re-pointed under one of them.
THEOREM DetectedMethodsTrue == Spec => []DetectedSound
<1>1. UrlInv => DetectedSound
  BY DEF UrlInv, OwnEntry, DetectedSound, MethodOfOwnUrl
<1>2. QED
  BY <1>1, SharedHolds, PTL

\* PinAccepted: the pin was accepted for the URL it is stored with, under the
\* same condition (PinsShown needs none, and says less).
THEOREM PinsOfOwnUrl == Spec => []PinAccepted
<1>1. UrlInv => PinAccepted
  BY DEF UrlInv, OwnEntry, PinAccepted, PinOfOwnUrl
<1>2. QED
  BY <1>1, SharedHolds, PTL

\* PinIssuerMatches: the issuer that decides whether a new certificate may be
\* offered as a renewal is the pinned certificate's, however many commands rotate,
\* pin and clear at the same time, until a pin of another issuer is saved under
\* one that has a rotation to decide on.
THEOREM IssuersMatch == Spec => []PinIssuerMatches
<1>1. IssuerInv => PinIssuerMatches
  BY DEF IssuerInv, Matched, PinIssuerMatches, IssuerOfOwnPin
<1>2. QED
  BY <1>1, SharedHolds, PTL

\* RotationSameIssuer: the prompt that says "same issuer" says so of two
\* certificates of one issuer, if the pin was recorded with its own, under that
\* condition.
THEOREM RotationsKeepIssuer == Spec => []RotationSameIssuer
<1>1. ASSUME TypeInv, IssuerInv, NEW p \in Procs,
             ~repinned, pc[p] = "rotate", snap[p].der # None
      PROVE  IssuerOf[seen[p]] = IssuerOf[snap[p].pin]
  <2>1. snap[p] # None
    BY <1>1 DEF TypeInv, TypeOK
  <2>2. snap[p].pin # None /\ snap[p].der = IssuerOf[seen[p]]
    BY <1>1 DEF IssuerInv, OwnIssuer
  <2>3. Matched(snap[p])
    BY <1>1, <2>2 DEF IssuerInv, OwnIssuer
  <2>4. QED
    BY <1>1, <2>1, <2>2, <2>3 DEF Matched
<1>2. TypeInv /\ IssuerInv => RotationSameIssuer
  BY <1>1 DEF RotationSameIssuer
<1>3. QED
  BY <1>2, SharedHolds, PTL

-----------------------------------------------------------------------------
(* Detection: what is cached with a server is true of it *)

HIDE ConnectionAssumption

Comparing == {"compare anonymous", "compare query", "compare again"}

\* DetectTypeOK, with the record that the legs are.
DetectTypeInv ==
  /\ DetectTypeOK
  /\ legs \in [header : Replies \cup {Nil}, anonymous : Replies \cup {Nil}]

\* What the comparison at rest/user has found out so far: the key in the URL is
\* known to work; if the header does not, its leg shows what is shown to nobody
\* as well, so a difference between the two was not the server's.
Compared ==
  /\ next \in Comparing \cup {"compare header"} => Sees(server, "query")
  /\ next \in Comparing /\ ~Sees(server, "header") =>
       \A a \in UserAnswers(server, Nil) : a.body = legs.header.body
  /\ next \in {"compare query", "compare again"} =>
       /\ legs.anonymous.body # legs.header.body
       /\ Sees(server, "header") \/ anomalies >= 1

\* What is settled, and what is known of the version, is true of the server.
Probed == settled.probed /\ anomalies <= 1 => Sees(server, settled.method)

Versioned == version # Nil => version = server.version /\ mode = Threshold(version)

\* The auth probes and the comparison are for a caller with a key.
Keyed == next \notin {"version", "done"} => server.key /\ ~server.redhat

\* After an alarm the detection is over; after one in the comparison it is, once
\* the version has been asked for as valid_login accepted the key.
Alarmed ==
  \A i \in 1..Len(asked) : Alarming(asked[i]) =>
    \/ i = Len(asked) /\ next = "done"
    \/ /\ asked[i].probe \in Legs /\ i = Len(asked)
       /\ next = "version" /\ VersionForm = "query"
    \/ /\ asked[i].probe \in Legs /\ i + 1 = Len(asked) /\ AsAccepted(asked[i + 1])
       /\ next = "done"

DetectInv == DetectTypeInv /\ Compared /\ Probed /\ Versioned /\ Keyed /\ Alarmed

LEMMA AnomaliesBounded == MaxAnomalies \in Nat
  BY AuthDetectAssumption

LEMMA ReplyType ==
  ASSUME NEW s \in Statuses, NEW b \in Bodies
  PROVE  Reply(s, b) \in Replies /\ Reply(s, b).status = s /\ Reply(s, b).body = b
  BY DEF Reply, Replies

LEMMA AnomalyReplies ==
  /\ Anomalies \subseteq Replies
  /\ \A r \in Anomalies : r.body \notin {"yes", "no", "public", "version"}
  /\ \A r \in Anomalies : r.status = "ok" => r.body \in {"html", "error", "large", "cut"}
  /\ \A r \in Anomalies : r.body = "large" => r.status # "lost"
  BY DEF Anomalies, Replies, Reply, Statuses, Bodies

\* Only a caller that a server knows is told so.
LEMMA LoginReplies ==
  ASSUME NEW s, NEW f, NEW r, r \in WhoamiAnswers(s, f) \/ r \in LoginAnswers(s, f)
  PROVE  /\ r \in Replies
         /\ r.status \in {"ok", "refused", "missing"} /\ r.body # "large"
         /\ r.body = "yes" => Sees(s, f)
<1>1. r \in {Reply("missing", "html"), Reply("ok", "html"), Reply("ok", "no"),
             Reply("refused", "error")}
      \/ (r = Reply("ok", "yes") /\ Sees(s, f))
  <2>1. CASE r \in WhoamiAnswers(s, f)
    BY <2>1 DEF WhoamiAnswers, Stranger
  <2>2. CASE r \in LoginAnswers(s, f)
    BY <2>2 DEF LoginAnswers, Stranger
  <2>3. QED
    BY <2>1, <2>2
<1>2. QED
  BY <1>1 DEF Reply, Replies, Statuses, Bodies

LEMMA UserReplies ==
  ASSUME NEW s \in ServerType, NEW f, NEW r \in UserAnswers(s, f)
  PROVE  /\ r \in Replies
         /\ f # Nil /\ s.challenge # "none" => r.body \in {"html", "error"}
         /\ ~(f # Nil /\ s.challenge # "none") /\ ~Sees(s, f) =>
              r = IF s.anonymous = "same" THEN Reply("ok", "yes")
                  ELSE IF s.anonymous = "public" THEN Reply("ok", "public")
                  ELSE Reply("refused", "error")
<1>1. s.challenge \in {"none", "html", "error"}
  BY DEF ServerType
<1>2. CASE f # Nil /\ s.challenge # "none"
  <2>1. r = Reply("ok", s.challenge)
    BY <1>2 DEF UserAnswers
  <2>2. QED
    BY <1>1, <1>2, <2>1 DEF Reply, Replies, Statuses, Bodies
<1>3. CASE ~(f # Nil /\ s.challenge # "none")
  <2>1. r \in {Reply("ok", "yes"), Reply("ok", "public"), Reply("refused", "error")}
    BY <1>3 DEF UserAnswers
  <2>2. ~Sees(s, f) => r = IF s.anonymous = "same" THEN Reply("ok", "yes")
                           ELSE IF s.anonymous = "public" THEN Reply("ok", "public")
                           ELSE Reply("refused", "error")
    BY <1>3 DEF UserAnswers
  <2>3. QED
    BY <1>3, <2>1, <2>2 DEF Reply, Replies, Statuses, Bodies
<1>4. QED
  BY <1>2, <1>3

LEMMA VersionReplies ==
  ASSUME NEW s, NEW r \in VersionAnswers(s)
  PROVE  r \in Replies
<1>1. r \in {Reply("missing", "html"), Reply("ok", "html"), Reply("ok", "version")}
  BY DEF VersionAnswers
<1>2. QED
  BY <1>1 DEF Reply, Replies, Statuses, Bodies

\* A leg that is accepted is the server's own answer; and if the server does not
\* honour the header, it shows what nobody would be refused.
LEMMA AcceptedLeg ==
  ASSUME NEW s \in ServerType, NEW r \in UserAnswers(s, "header") \cup Anomalies,
         Conclusive(r), CredentialAccepted(r), ~Sees(s, "header")
  PROVE  \A a \in UserAnswers(s, Nil) : a.body = r.body
<1>1. r \in UserAnswers(s, "header")
  BY AnomalyReplies DEF Conclusive, CredentialAccepted, Success
<1>2. "header" # Nil /\ ~Sees(s, Nil)
  BY AuthDetectAssumption DEF Forms, Sees
<1>3. s.challenge = "none"
  BY <1>1, <1>2, UserReplies DEF CredentialAccepted
<1>4. QED
  BY <1>1, <1>2, <1>3, UserReplies

LEMMA OutcomesRead ==
  ASSUME NEW r \in Replies, NEW o, o = WhoamiOutcome(r) \/ o = LoginOutcome(r)
  PROVE  /\ o = "authenticated" => r.body = "yes"
         /\ r.status = "untrusted" \/ (r.status = "ok" /\ r.body = "large")
              => o \in {"untrusted", "too large"}
<1>1. CASE o = WhoamiOutcome(r)
  BY <1>1 DEF WhoamiOutcome, Unreached, Success
<1>2. CASE o = LoginOutcome(r)
  BY <1>2 DEF LoginOutcome, Success
<1>3. QED
  BY <1>1, <1>2

LEMMA WhoamiReadsBody ==
  ASSUME NEW r \in Replies, r.body = "large", r.status # "lost"
  PROVE  WhoamiOutcome(r) \in {"untrusted", "too large"}
  BY DEF WhoamiOutcome, Unreached

LEMMA ApiModeThreshold ==
  ASSUME NEW s \in ServerType
  PROVE  /\ ApiMode(s.version) = Threshold(s.version)
         /\ ApiMode(s.version) \in {"rest", "hybrid", "xmlrpc"}
<1>1. /\ s.version[1] \in {"numbers", "odd", "custom", "none"}
      /\ s.version[2] \in Nat /\ s.version[3] \in Nat \cup {Nil}
  BY DEF ServerType
<1>2. QED
  BY <1>1, AuthDetectAssumption DEF ApiMode, Threshold

LEMMA InitDetectInv ==
  ASSUME DetectInit
  PROVE  DetectInv
<1>1. server \in ServerType
  BY AuthDetectAssumption DEF DetectInit
<1>2. legs \in [header : Replies \cup {Nil}, anonymous : Replies \cup {Nil}]
  BY DEF DetectInit, NoLegs
<1>6. settled \in [method : {"header", "query", Nil}, probed : BOOLEAN]
  BY DEF DetectInit, Undecided
<1>9. next \in {"whoami header", "version"}
  BY DEF DetectInit
<1>11. asked = <<>>
  BY DEF DetectInit
<1>12. asked \in Seq(Requests) /\ Len(asked) = 0
  BY <1>11
<1>10. anomalies \in 0..MaxAnomalies
  <2>1. anomalies = 0
    BY DEF DetectInit
  <2>2. QED
    BY <2>1, AnomaliesBounded
<1>8. DetectTypeInv
  BY <1>2, <1>6, <1>9, <1>10, <1>12 DEF DetectInit, DetectTypeInv, DetectTypeOK, Probes, Legs
<1>3. Compared
  BY DEF DetectInit, Compared, Comparing
<1>4. Probed /\ Versioned /\ Keyed
  BY DEF DetectInit, Probed, Versioned, Keyed, Undecided
<1>7. Alarmed
  BY <1>12 DEF Alarmed
<1>5. QED
  BY <1>8, <1>3, <1>4, <1>7 DEF DetectInv

\* What every exchange leaves true, whatever the answer.
LEMMA ExchangeKept ==
  ASSUME DetectTypeInv, NEW f \in {"header", "query", "bearer", Nil}, NEW honest,
         NEW r \in Replies, Exchange(f, honest, r), next \in Probes
  PROVE  /\ server' = server /\ asked' \in Seq(Requests)
         /\ anomalies' \in 0..MaxAnomalies /\ anomalies' >= anomalies
         /\ r \notin honest => r \in Anomalies /\ anomalies' = anomalies + 1
<1>1. asked' \in Seq(Requests)
  <2>1. [probe |-> next, form |-> f, reply |-> r] \in Requests
    BY DEF Requests, Forms
  <2>2. asked \in Seq(Requests)
    BY DEF DetectTypeInv, DetectTypeOK
  <2>3. asked' = Append(asked, [probe |-> next, form |-> f, reply |-> r])
    BY DEF Exchange
  <2>4. QED
    BY <2>1, <2>2, <2>3
<1>2. anomalies \in 0..MaxAnomalies /\ MaxAnomalies \in Nat
  BY AnomaliesBounded DEF DetectTypeInv, DetectTypeOK
<1>3. \/ r \in honest /\ anomalies' = anomalies
      \/ r \in Anomalies /\ anomalies < MaxAnomalies /\ anomalies' = anomalies + 1
  BY DEF Exchange
<1>4. anomalies' \in 0..MaxAnomalies /\ anomalies' >= anomalies
  BY <1>2, <1>3
<1>5. QED
  BY <1>1, <1>3, <1>4 DEF Exchange

\* A request before the version's keeps the log in order, if its own alarm ends
\* the detection, or the comparison for the query form.
LEMMA AskedOn ==
  ASSUME DetectInv, next \in Probes \ {"version"}, NEW f, NEW honest, NEW r,
         Exchange(f, honest, r),
         Alarming([probe |-> next, form |-> f, reply |-> r]) =>
           \/ next' = "done"
           \/ next \in Legs /\ next' = "version" /\ settled'.method = "query"
  PROVE  Keyed' /\ Alarmed'
<1> DEFINE q == [probe |-> next, form |-> f, reply |-> r]
<1>1. server' = server /\ asked' = Append(asked, q)
  BY DEF Exchange
<1>2. next \notin {"version", "done"} /\ asked \in Seq(Requests)
  BY DEF DetectInv, DetectTypeInv, DetectTypeOK, Probes, Legs
<1>3. server.key /\ ~server.redhat
  BY <1>2 DEF DetectInv, Keyed
<1>4. Keyed'
  BY <1>1, <1>3 DEF Keyed
<1>5. \A i \in 1..Len(asked) : ~Alarming(asked[i])
  BY <1>2 DEF DetectInv, Alarmed
<1>6. /\ Len(asked') = Len(asked) + 1 /\ Len(asked) \in Nat /\ asked'[Len(asked')] = q
      /\ \A i \in 1..Len(asked) : asked'[i] = asked[i]
  BY <1>1, <1>2
<1>7. Alarming(q) => \/ next' = "done"
                     \/ q.probe \in Legs /\ next' = "version" /\ VersionForm' = "query"
  BY <1>1, <1>3 DEF VersionForm
<1>8. ASSUME NEW i \in 1..Len(asked'), Alarming(asked'[i])
      PROVE  i = Len(asked') /\ asked'[i] = q
  <2>1. CASE i \in 1..Len(asked)
    BY <2>1, <1>5, <1>6, <1>8
  <2>2. CASE i \notin 1..Len(asked)
    BY <2>2, <1>6
  <2>3. QED
    BY <2>1, <2>2
<1> HIDE DEF q
<1>9. Alarmed'
  BY <1>7, <1>8 DEF Alarmed
<1>10. QED
  BY <1>4, <1>9

\* A probe either settles nothing, or falls back to the header unprobed, or
\* settles on a method; in the last case it must be one that the server honours.
Settling(m) ==
  \/ settled' = settled
  \/ settled' = [method |-> "header", probed |-> FALSE]
  \/ settled' = [method |-> m, probed |-> TRUE] /\ (anomalies' <= 1 => Sees(server, m))

LEMMA ProbeKept ==
  ASSUME DetectInv, NEW m \in {"header", "query"}, Settling(m),
         server' = server, UNCHANGED <<version, mode>>,
         anomalies' \in 0..MaxAnomalies, anomalies' >= anomalies
  PROVE  /\ settled' \in [method : {"header", "query", Nil}, probed : BOOLEAN]
         /\ Probed' /\ Versioned'
<1>1. anomalies' <= 1 => anomalies <= 1
  <2>1. anomalies \in 0..MaxAnomalies
    BY DEF DetectInv, DetectTypeInv, DetectTypeOK
  <2>2. QED
    BY <2>1, AnomaliesBounded
<1>2. Versioned'
  BY DEF DetectInv, Versioned
<1>3. CASE settled' = settled
  <2>1. settled' \in [method : {"header", "query", Nil}, probed : BOOLEAN]
    BY <1>3 DEF DetectInv, DetectTypeInv, DetectTypeOK
  <2>2. Probed'
    BY <1>1, <1>3 DEF DetectInv, Probed
  <2>3. QED
    BY <1>2, <2>1, <2>2
<1>4. CASE settled' = [method |-> "header", probed |-> FALSE]
  <2>1. ~settled'.probed
    BY <1>4
  <2>2. settled' \in [method : {"header", "query", Nil}, probed : BOOLEAN]
    BY <1>4
  <2>3. QED
    BY <1>2, <2>1, <2>2 DEF Probed
<1>5. CASE settled' = [method |-> m, probed |-> TRUE] /\ (anomalies' <= 1 => Sees(server, m))
  <2>1. settled'.method = m
    BY <1>5
  <2>2. settled' \in [method : {"header", "query", Nil}, probed : BOOLEAN]
    BY <1>5
  <2>3. Probed'
    BY <1>5, <2>1 DEF Probed
  <2>4. QED
    BY <1>2, <2>2, <2>3
<1>6. QED
  BY <1>3, <1>4, <1>5 DEF Settling

LEMMA WhoamiDetectInv ==
  ASSUME DetectInv, NEW form \in {"header", "query"}, Whoami(form)
  PROVE  DetectInv'
<1>1. PICK r \in WhoamiAnswers(server, form) \cup Anomalies :
        LET o == WhoamiOutcome(r) IN
        /\ Exchange(form, WhoamiAnswers(server, form), r)
        /\ \/ Common(o)
           \/ o = "authenticated" /\ Settle(form, TRUE)
           \/ o = "not found" /\ TryLogin
           \/ o \in {"rejected", "malformed"}
                /\ IF form = "header" THEN GoOn("whoami query") ELSE TryLogin
  BY DEF Whoami
<1> DEFINE o == WhoamiOutcome(r)
<1>2. r \in Replies /\ (r.body = "yes" => Sees(server, form))
  BY AnomalyReplies, LoginReplies
<1>3. /\ o = "authenticated" => r.body = "yes"
      /\ r.status = "untrusted" \/ (r.status = "ok" /\ r.body = "large")
           => o \in {"untrusted", "too large"}
  BY <1>2, OutcomesRead
<1> DEFINE q == [probe |-> next, form |-> form, reply |-> r]
<1>4. next \in Probes \ {"version"}
  BY DEF Whoami, Probes
<1>5. /\ server' = server /\ asked' \in Seq(Requests)
      /\ anomalies' \in 0..MaxAnomalies /\ anomalies' >= anomalies
  BY <1>1, <1>2, <1>4, ExchangeKept DEF DetectInv
<1>6. UNCHANGED legs /\ next \in {"whoami header", "whoami query"}
  BY DEF Whoami
<1>7. UNCHANGED <<version, mode>>
  BY <1>1 DEF Common, Settle, Fail, TryLogin, GoOn
<1>8. Alarming(q) => o \in {"untrusted", "too large"}
  <2>1. r.body = "large" => r.status # "lost"
    BY AnomalyReplies, LoginReplies
  <2>2. QED
    BY <1>2, <1>3, <2>1, WhoamiReadsBody DEF Alarming
<1>9. \/ next' = "done" /\ outcome' = "error" /\ settled' = settled
      \/ /\ ~Alarming(q) /\ next' \in {"whoami query", "login header", "version"}
         /\ outcome' = outcome /\ Settling(form)
  <2>1. CASE Common(o)
    BY <2>1, <1>8 DEF Common, Settle, Fail, Settling
  <2>2. CASE o = "authenticated" /\ Settle(form, TRUE)
    BY <2>2, <1>2, <1>3, <1>8 DEF Settle, Settling
  <2>3. CASE o = "not found" /\ TryLogin
    BY <2>3, <1>8 DEF TryLogin, GoOn, Fail, Settling
  <2>4. CASE /\ o \in {"rejected", "malformed"}
             /\ IF form = "header" THEN GoOn("whoami query") ELSE TryLogin
    BY <2>4, <1>8 DEF TryLogin, GoOn, Fail, Settling
  <2>5. QED
    BY <1>1, <2>1, <2>2, <2>3, <2>4
<1>10. Keyed' /\ Alarmed'
  BY <1>1, <1>4, <1>9, AskedOn
<1> HIDE DEF o, q
<1>11. /\ settled' \in [method : {"header", "query", Nil}, probed : BOOLEAN]
       /\ Probed' /\ Versioned'
  BY <1>5, <1>7, <1>9, ProbeKept DEF Settling
<1>12. DetectTypeInv'
  BY <1>5, <1>6, <1>7, <1>9, <1>11
  DEF DetectInv, DetectTypeInv, DetectTypeOK, Probes, Legs
<1>13. Compared'
  BY <1>9 DEF Compared, Comparing
<1>14. QED
  BY <1>10, <1>11, <1>12, <1>13 DEF DetectInv

LEMMA LoginDetectInv ==
  ASSUME DetectInv, NEW form \in {"header", "query"}, Login(form)
  PROVE  DetectInv'
<1>1. PICK r \in LoginAnswers(server, form) \cup Anomalies :
        LET o == LoginOutcome(r) IN
        /\ Exchange(form, LoginAnswers(server, form), r)
        /\ \/ Common(o)
           \/ o = "authenticated" /\ form = "header" /\ Settle("header", TRUE)
           \/ o = "authenticated" /\ form = "query" /\ GoOn("compare header")
           \/ o \in {"rejected", "malformed"}
                /\ IF form = "header" THEN GoOn("login query") ELSE Fail
  BY DEF Login
<1> DEFINE o == LoginOutcome(r)
<1>2. r \in Replies /\ (r.body = "yes" => Sees(server, form))
  BY AnomalyReplies, LoginReplies
<1>3. /\ o = "authenticated" => r.body = "yes"
      /\ r.status = "untrusted" \/ (r.status = "ok" /\ r.body = "large")
           => o \in {"untrusted", "too large"}
  BY <1>2, OutcomesRead
<1> DEFINE q == [probe |-> next, form |-> form, reply |-> r]
<1>4. next \in Probes \ {"version"}
  BY DEF Login, Probes
<1>5. /\ server' = server /\ asked' \in Seq(Requests)
      /\ anomalies' \in 0..MaxAnomalies /\ anomalies' >= anomalies
  BY <1>1, <1>2, <1>4, ExchangeKept DEF DetectInv
<1>6. UNCHANGED legs /\ next \in {"login header", "login query"}
  BY DEF Login
<1>7. UNCHANGED <<version, mode>>
  BY <1>1 DEF Common, Settle, Fail, GoOn
<1>8. Alarming(q) => o \in {"untrusted", "too large"}
  BY <1>3, <1>6 DEF Alarming, Legs
<1>9. \/ next' = "done" /\ outcome' = "error" /\ settled' = settled
      \/ /\ ~Alarming(q) /\ next' \in {"login query", "compare header", "version"}
         /\ outcome' = outcome /\ Settling(form)
         /\ next' = "compare header" => Sees(server, "query")
  <2>1. CASE Common(o)
    BY <2>1, <1>8 DEF Common, Settle, Fail, Settling
  <2>2. CASE o = "authenticated" /\ form = "header" /\ Settle("header", TRUE)
    BY <2>2, <1>2, <1>3, <1>8 DEF Settle, Settling
  <2>3. CASE o = "authenticated" /\ form = "query" /\ GoOn("compare header")
    BY <2>3, <1>2, <1>3, <1>8 DEF GoOn, Settling
  <2>4. CASE /\ o \in {"rejected", "malformed"}
             /\ IF form = "header" THEN GoOn("login query") ELSE Fail
    BY <2>4, <1>8 DEF GoOn, Fail, Settling
  <2>5. QED
    BY <1>1, <2>1, <2>2, <2>3, <2>4
<1>10. Keyed' /\ Alarmed'
  BY <1>1, <1>4, <1>9, AskedOn
<1> HIDE DEF o, q
<1>11. /\ settled' \in [method : {"header", "query", Nil}, probed : BOOLEAN]
       /\ Probed' /\ Versioned'
  BY <1>5, <1>7, <1>9, ProbeKept DEF Settling
<1>12. DetectTypeInv'
  BY <1>5, <1>6, <1>7, <1>9, <1>11
  DEF DetectInv, DetectTypeInv, DetectTypeOK, Probes, Legs
<1>13. Compared'
  BY <1>5, <1>9 DEF Compared, Comparing, Sees
<1>14. QED
  BY <1>10, <1>11, <1>12, <1>13 DEF DetectInv

\* What every request of the comparison leaves true.
LEMMA LegKept ==
  ASSUME DetectInv, NEW step \in Legs, NEW f \in {"header", "query", Nil},
         NEW r \in Replies, Leg(step, f, r)
  PROVE  /\ server \in ServerType /\ server' = server /\ asked' \in Seq(Requests)
         /\ anomalies \in Nat /\ anomalies' \in 0..MaxAnomalies /\ anomalies' >= anomalies
         /\ r \notin UserAnswers(server, f) => anomalies' = anomalies + 1
         /\ r \in UserAnswers(server, f) \cup Anomalies
         /\ next = step /\ next \in Probes \ {"version"}
         /\ Sees(server, "query")
<1>1. DetectTypeInv /\ Compared
  BY DEF DetectInv
<1>2. Exchange(f, UserAnswers(server, f), r)
  BY DEF Leg
<1>3. anomalies \in 0..MaxAnomalies
  BY <1>1 DEF DetectTypeInv, DetectTypeOK
<1>4. anomalies \in Nat
  BY <1>3, AnomaliesBounded
<1>5. next = step /\ next \in Probes \ {"version"}
  BY DEF Leg, Probes, Legs
<1>7. Sees(server, "query")
  BY <1>1, <1>5 DEF Compared, Comparing, Legs
<1>8. server \in ServerType
  BY <1>1, AuthDetectAssumption DEF DetectTypeInv, DetectTypeOK
<1>9. QED
  BY <1>1, <1>2, <1>4, <1>5, <1>7, <1>8, ExchangeKept DEF Leg

\* The comparison ends: for the query form, which is known to work, or, once two
\* answers that were not the server's are needed for it, for the header.
LEMMA ComparedEnd ==
  ASSUME DetectInv, NEW step \in Legs, NEW f \in {"header", "query", Nil},
         NEW r \in Replies, Leg(step, f, r), UNCHANGED legs,
         \/ Settle("query", TRUE)
         \/ /\ Settle("header", TRUE) /\ Conclusive(r)
            /\ anomalies' <= 1 => Sees(server, "header")
  PROVE  DetectInv'
<1>1. /\ server' = server /\ asked' \in Seq(Requests)
      /\ anomalies' \in 0..MaxAnomalies /\ anomalies' >= anomalies
      /\ next = step /\ next \in Probes \ {"version"} /\ Sees(server, "query")
  BY LegKept
<1>2. next' = "version" /\ UNCHANGED <<version, mode, outcome>>
  BY DEF Settle
<1>3. /\ settled' \in [method : {"header", "query", Nil}, probed : BOOLEAN]
      /\ Probed' /\ Versioned'
  BY <1>1, <1>2, ProbeKept DEF Settle, Settling
<1>4. DetectTypeInv'
  BY <1>1, <1>2, <1>3 DEF DetectInv, DetectTypeInv, DetectTypeOK, Probes, Legs
<1>5. Compared'
  BY <1>1, <1>2 DEF Compared, Comparing
<1>6. Keyed' /\ Alarmed'
  <2>1. Exchange(f, UserAnswers(server, f), r)
    BY DEF Leg
  <2>2. Settle("query", TRUE) => settled'.method = "query"
    BY DEF Settle
  <2>3. Conclusive(r) => ~Alarming([probe |-> next, form |-> f, reply |-> r])
    BY <1>1 DEF Conclusive, Alarming, Legs
  <2>4. QED
    BY <1>1, <1>2, <2>1, <2>2, <2>3, AskedOn
<1>7. QED
  BY <1>3, <1>4, <1>5, <1>6 DEF DetectInv

\* The comparison goes on to the next request.
LEMMA ComparedOn ==
  ASSUME DetectInv, NEW step \in Legs, NEW f \in {"header", "query", Nil},
         NEW r \in Replies, Leg(step, f, r), Conclusive(r),
         NEW to \in Comparing, GoOn(to),
         legs' \in [header : Replies \cup {Nil}, anonymous : Replies \cup {Nil}],
         legs'.header # Nil, to # "compare anonymous" => legs'.anonymous # Nil,
         ~Sees(server, "header") =>
           \A a \in UserAnswers(server, Nil) : a.body = legs'.header.body,
         to # "compare anonymous" =>
           /\ legs'.anonymous.body # legs'.header.body
           /\ Sees(server, "header") \/ anomalies' >= 1
  PROVE  DetectInv'
<1>1. /\ server' = server /\ asked' \in Seq(Requests)
      /\ anomalies' \in 0..MaxAnomalies /\ anomalies' >= anomalies
      /\ next = step /\ next \in Probes \ {"version"} /\ Sees(server, "query")
  BY LegKept
<1>2. next' = to /\ UNCHANGED <<settled, version, mode, outcome>>
  BY DEF GoOn
<1>3. /\ settled' \in [method : {"header", "query", Nil}, probed : BOOLEAN]
      /\ Probed' /\ Versioned'
  BY <1>1, <1>2, ProbeKept DEF Settling
<1>4. DetectTypeInv'
  <2>1. legs'.header \in Replies \cup {Nil} /\ legs'.anonymous \in Replies \cup {Nil}
    OBVIOUS
  <2>2. QED
    BY <1>1, <1>2, <1>3, <2>1
    DEF DetectInv, DetectTypeInv, DetectTypeOK, Comparing, Probes, Legs
<1>5. Compared'
  <2>1. Sees(server, "query")'
    BY <1>1 DEF Sees
  <2>2. Sees(server, "header")' = Sees(server, "header")
    BY <1>1 DEF Sees
  <2>3. UserAnswers(server, Nil)' = UserAnswers(server, Nil)
    BY <1>1
  <2>4. QED
    BY <1>2, <2>1, <2>2, <2>3 DEF Compared, Comparing
<1>6. Keyed' /\ Alarmed'
  <2>1. Exchange(f, UserAnswers(server, f), r)
    BY DEF Leg
  <2>2. ~Alarming([probe |-> next, form |-> f, reply |-> r])
    BY <1>1 DEF Conclusive, Alarming, Legs
  <2>3. QED
    BY <1>1, <2>1, <2>2, AskedOn
<1>7. QED
  BY <1>3, <1>4, <1>5, <1>6 DEF DetectInv

LEMMA CompareHeaderInv ==
  ASSUME DetectInv, CompareHeader
  PROVE  DetectInv'
<1>1. PICK r \in Replies :
        /\ Leg("compare header", "header", r)
        /\ IF Conclusive(r) /\ CredentialAccepted(r)
           THEN GoOn("compare anonymous") /\ legs' = [legs EXCEPT !.header = r]
           ELSE KeepQuery
  BY DEF CompareHeader
<1>2. CASE Conclusive(r) /\ CredentialAccepted(r)
  <2>1. GoOn("compare anonymous") /\ legs' = [legs EXCEPT !.header = r]
    BY <1>1, <1>2
  <2>2. /\ legs' \in [header : Replies \cup {Nil}, anonymous : Replies \cup {Nil}]
        /\ legs'.header = r
    BY <2>1 DEF DetectInv, DetectTypeInv
  <2>3. r # Nil
    BY AuthDetectAssumption
  <2>4. server \in ServerType /\ r \in UserAnswers(server, "header") \cup Anomalies
    BY <1>1, LegKept DEF Legs
  <2>5. ~Sees(server, "header") => \A a \in UserAnswers(server, Nil) : a.body = r.body
    BY <1>2, <2>4, AcceptedLeg
  <2>6. QED
    BY <1>1, <1>2, <2>1, <2>2, <2>3, <2>5, ComparedOn DEF Legs, Comparing
<1>3. CASE ~(Conclusive(r) /\ CredentialAccepted(r))
  BY <1>1, <1>3, ComparedEnd DEF Legs, KeepQuery
<1>4. QED
  BY <1>2, <1>3

LEMMA CompareAnonymousInv ==
  ASSUME DetectInv, CompareAnonymous
  PROVE  DetectInv'
<1>1. PICK r \in Replies :
        /\ Leg("compare anonymous", Nil, r)
        /\ IF Conclusive(r) /\ r.body # legs.header.body
           THEN GoOn("compare query") /\ legs' = [legs EXCEPT !.anonymous = r]
           ELSE KeepQuery
  BY DEF CompareAnonymous
<1>2. CASE Conclusive(r) /\ r.body # legs.header.body
  <2>1. GoOn("compare query") /\ legs' = [legs EXCEPT !.anonymous = r]
    BY <1>1, <1>2
  <2>2. /\ legs' \in [header : Replies \cup {Nil}, anonymous : Replies \cup {Nil}]
        /\ legs'.header = legs.header /\ legs'.anonymous = r
    BY <2>1 DEF DetectInv, DetectTypeInv
  <2>3. r # Nil
    BY AuthDetectAssumption
  <2>4. next = "compare anonymous"
    BY <1>1 DEF Leg
  <2>5. /\ legs.header # Nil
        /\ ~Sees(server, "header") => \A a \in UserAnswers(server, Nil) : a.body = legs.header.body
    BY <2>4 DEF DetectInv, DetectTypeInv, DetectTypeOK, Compared, Comparing
  <2>6. Sees(server, "header") \/ r \notin UserAnswers(server, Nil)
    BY <1>2, <2>5
  <2>7. /\ anomalies \in Nat
        /\ r \notin UserAnswers(server, Nil) => anomalies' = anomalies + 1
    BY <1>1, LegKept DEF Legs
  <2>8. Sees(server, "header") \/ anomalies' >= 1
    BY <2>6, <2>7
  <2>9. QED
    BY <1>1, <1>2, <2>1, <2>2, <2>3, <2>5, <2>8, ComparedOn DEF Legs, Comparing
<1>3. CASE ~(Conclusive(r) /\ r.body # legs.header.body)
  BY <1>1, <1>3, ComparedEnd DEF Legs, KeepQuery
<1>4. QED
  BY <1>2, <1>3

LEMMA CompareQueryInv ==
  ASSUME DetectInv, CompareQuery
  PROVE  DetectInv'
<1>1. PICK r \in Replies :
        /\ Leg("compare query", "query", r)
        /\ IF Conclusive(r) /\ CredentialAccepted(r) /\ r.body = legs.header.body
           THEN GoOn("compare again") /\ UNCHANGED legs
           ELSE KeepQuery
  BY DEF CompareQuery
<1>2. CASE Conclusive(r) /\ CredentialAccepted(r) /\ r.body = legs.header.body
  <2>1. GoOn("compare again") /\ UNCHANGED legs
    BY <1>1, <1>2
  <2>2. next = "compare query"
    BY <1>1 DEF Leg
  <2>3. /\ legs.header # Nil /\ legs.anonymous # Nil
        /\ legs \in [header : Replies \cup {Nil}, anonymous : Replies \cup {Nil}]
        /\ ~Sees(server, "header") => \A a \in UserAnswers(server, Nil) : a.body = legs.header.body
        /\ legs.anonymous.body # legs.header.body
        /\ Sees(server, "header") \/ anomalies >= 1
    BY <2>2 DEF DetectInv, DetectTypeInv, DetectTypeOK, Compared, Comparing
  <2>4. /\ anomalies \in Nat /\ anomalies' \in 0..MaxAnomalies
        /\ anomalies' >= anomalies
    BY <1>1, LegKept DEF Legs
  <2>5. Sees(server, "header") \/ anomalies' >= 1
    BY <2>3, <2>4, AnomaliesBounded
  <2>6. QED
    BY <1>1, <1>2, <2>1, <2>3, <2>5, ComparedOn DEF Legs, Comparing
<1>3. CASE ~(Conclusive(r) /\ CredentialAccepted(r) /\ r.body = legs.header.body)
  BY <1>1, <1>3, ComparedEnd DEF Legs, KeepQuery
<1>4. QED
  BY <1>2, <1>3

LEMMA CompareAgainInv ==
  ASSUME DetectInv, CompareAgain
  PROVE  DetectInv'
<1>1. PICK r \in Replies :
        /\ Leg("compare again", Nil, r)
        /\ IF /\ Conclusive(r)
              /\ Success(r) = Success(legs.anonymous)
              /\ r.body = legs.anonymous.body
           THEN Settle("header", TRUE) /\ UNCHANGED legs
           ELSE KeepQuery
  BY DEF CompareAgain
<1>2. CASE r.body = legs.anonymous.body
  <2>1. next = "compare again"
    BY <1>1 DEF Leg
  <2>2. /\ ~Sees(server, "header") => \A a \in UserAnswers(server, Nil) : a.body = legs.header.body
        /\ legs.anonymous.body # legs.header.body
        /\ Sees(server, "header") \/ anomalies >= 1
    BY <2>1 DEF DetectInv, Compared, Comparing
  <2>3. Sees(server, "header") \/ r \notin UserAnswers(server, Nil)
    BY <1>2, <2>2
  <2>4. /\ anomalies \in Nat
        /\ r \notin UserAnswers(server, Nil) => anomalies' = anomalies + 1
    BY <1>1, LegKept DEF Legs
  <2>5. anomalies' <= 1 => Sees(server, "header")
    BY <2>2, <2>3, <2>4
  <2>6. QED
    BY <1>1, <2>5, ComparedEnd DEF Legs, KeepQuery
<1>3. CASE r.body # legs.anonymous.body
  BY <1>1, <1>3, ComparedEnd DEF Legs, KeepQuery
<1>4. QED
  BY <1>2, <1>3

LEMMA ReadVersionInv ==
  ASSUME DetectInv, ReadVersion
  PROVE  DetectInv'
<1>1. PICK r \in VersionAnswers(server) \cup Anomalies :
        /\ Exchange(VersionForm, VersionAnswers(server), r)
        /\ next' = "done" /\ settled' = settled
        /\ \/ UNCHANGED <<version, mode>> /\ outcome' = "error"
           \/ version' = Nil /\ mode' \in {"xmlrpc", "hybrid"} /\ outcome' = "settings"
           \/ /\ version' = server.version /\ mode' = ApiMode(server.version)
              /\ outcome' = "settings"
  BY DEF ReadVersion, Report, Fail
<1>2. DetectTypeInv /\ server \in ServerType
  BY AuthDetectAssumption DEF DetectInv, DetectTypeInv, DetectTypeOK
<1>3. UNCHANGED legs /\ next = "version" /\ next \in Probes /\ r \in Replies
  BY AnomalyReplies, VersionReplies DEF ReadVersion, Probes
<1>4. VersionForm \in {"header", "query", "bearer", Nil}
  BY <1>2 DEF VersionForm, DetectTypeInv, DetectTypeOK
<1>5. /\ server' = server /\ asked' \in Seq(Requests)
      /\ anomalies' \in 0..MaxAnomalies /\ anomalies' >= anomalies
  BY <1>1, <1>2, <1>3, <1>4, ExchangeKept
<1>6. Settling("header")
  BY <1>1 DEF Settling
<1>7. Keyed'
  BY <1>1 DEF Keyed
<1>8. /\ ApiMode(server.version) = Threshold(server.version)
      /\ ApiMode(server.version) \in {"rest", "hybrid", "xmlrpc"}
  BY <1>2, ApiModeThreshold
<1>9. /\ outcome' \in {"running", "settings", "error"}
      /\ mode' \in {"rest", "hybrid", "xmlrpc", Nil}
  BY <1>1, <1>2, <1>8 DEF DetectTypeInv, DetectTypeOK
<1>10. settled' \in [method : {"header", "query", Nil}, probed : BOOLEAN]
  BY <1>1, <1>2 DEF DetectTypeInv, DetectTypeOK
<1>11. DetectTypeInv'
  BY <1>1, <1>2, <1>3, <1>5, <1>9, <1>10 DEF DetectTypeInv, DetectTypeOK
<1>12. Compared'
  BY <1>1 DEF Compared, Comparing
<1>16. Alarmed'
  <2> DEFINE q == [probe |-> next, form |-> VersionForm, reply |-> r]
  <2>1. asked' = Append(asked, q) /\ asked \in Seq(Requests) /\ next' = "done"
    BY <1>1, <1>2 DEF Exchange, DetectTypeInv, DetectTypeOK
  <2>2. /\ Len(asked') = Len(asked) + 1 /\ Len(asked) \in Nat /\ asked'[Len(asked')] = q
        /\ \A i \in 1..Len(asked) : asked'[i] = asked[i]
    BY <2>1
  <2>3. VersionForm = "query" => AsAccepted(q)
    BY <1>3 DEF AsAccepted
  <2> HIDE DEF q
  <2>4. ASSUME NEW i \in 1..Len(asked'), Alarming(asked'[i])
        PROVE  \/ i = Len(asked')
               \/ /\ asked'[i].probe \in Legs
                  /\ i + 1 = Len(asked') /\ AsAccepted(asked'[i + 1])
    <3>1. CASE i \in 1..Len(asked)
      <4>1. asked[i].probe \in Legs /\ i = Len(asked) /\ VersionForm = "query"
        BY <3>1, <1>3, <2>2, <2>4 DEF DetectInv, Alarmed
      <4>2. QED
        BY <4>1, <3>1, <2>2, <2>3
    <3>2. CASE i \notin 1..Len(asked)
      BY <3>2, <2>2
    <3>3. QED
      BY <3>1, <3>2
  <2>5. QED
    BY <2>1, <2>4 DEF Alarmed
<1>13. Versioned'
  BY <1>1, <1>5, <1>8 DEF DetectInv, Versioned
<1>14. Probed'
  <2>1. anomalies \in 0..MaxAnomalies
    BY <1>2 DEF DetectTypeInv, DetectTypeOK
  <2>2. anomalies' <= 1 => anomalies <= 1
    BY <1>5, <2>1, AnomaliesBounded
  <2>3. QED
    BY <1>1, <1>5, <2>2 DEF DetectInv, Probed
<1>15. QED
  BY <1>7, <1>11, <1>12, <1>13, <1>14, <1>16 DEF DetectInv

LEMMA NextDetectInv ==
  ASSUME DetectInv, [DetectNext]_detectVars
  PROVE  DetectInv'
<1>1. CASE \E form \in {"header", "query"} : Whoami(form) \/ Login(form)
  BY <1>1, WhoamiDetectInv, LoginDetectInv
<1>2. CASE CompareHeader \/ CompareAnonymous \/ CompareQuery \/ CompareAgain
  BY <1>2, CompareHeaderInv, CompareAnonymousInv, CompareQueryInv, CompareAgainInv
<1>3. CASE ReadVersion
  BY <1>3, ReadVersionInv
<1>4. CASE UNCHANGED detectVars
  <2>1. DetectTypeInv'
    <3>1. /\ server' = server /\ next' = next /\ legs' = legs /\ settled' = settled
          /\ mode' = mode /\ outcome' = outcome /\ asked' = asked
      BY <1>4 DEF detectVars
    <3>2. anomalies' = anomalies
      BY <1>4 DEF detectVars
    <3>3. anomalies \in 0..MaxAnomalies
      BY DEF DetectInv, DetectTypeInv, DetectTypeOK
    <3>4. anomalies' \in 0..MaxAnomalies
      BY <3>2, <3>3
    <3>5. settled' \in [method : {"header", "query", Nil}, probed : BOOLEAN]
      BY <3>1 DEF DetectInv, DetectTypeInv, DetectTypeOK
    <3>6. /\ server' \in Servers /\ mode' \in {"rest", "hybrid", "xmlrpc", Nil}
          /\ outcome' \in {"running", "settings", "error"}
          /\ asked' \in Seq(Requests)
      BY <3>1 DEF DetectInv, DetectTypeInv, DetectTypeOK
    <3>7. QED
      BY <3>1, <3>4, <3>5, <3>6 DEF DetectInv, DetectTypeInv, DetectTypeOK
  <2>2. Compared'
    BY <1>4 DEF detectVars, DetectInv, Compared
  <2>3. Probed' /\ Versioned' /\ Keyed'
    BY <1>4 DEF detectVars, DetectInv, Probed, Versioned, Keyed
  <2>4. Alarmed'
    <3>1. /\ server' = server /\ next' = next /\ settled' = settled /\ asked' = asked
      BY <1>4 DEF detectVars
    <3>2. VersionForm' = VersionForm
      BY <3>1 DEF VersionForm
    <3>3. QED
      BY <3>1, <3>2 DEF DetectInv, Alarmed
  <2>5. QED
    BY <2>1, <2>2, <2>3, <2>4 DEF DetectInv
<1>5. QED
  BY <1>1, <1>2, <1>3, <1>4 DEF DetectNext

LEMMA DetectHolds == DetectSpec => []DetectInv
<1>1. DetectInit => DetectInv
  BY InitDetectInv
<1>2. DetectInv /\ [DetectNext]_detectVars => DetectInv'
  BY NextDetectInv
<1>3. QED
  BY <1>1, <1>2, PTL DEF DetectSpec

\* Every variable of a detection keeps its shape, at any kind of server.
THEOREM DetectTypeCorrect == DetectSpec => []DetectTypeOK
<1>1. DetectInv => DetectTypeOK
  BY DEF DetectInv, DetectTypeInv
<1>2. QED
  BY <1>1, DetectHolds, PTL

\* While at most one answer was not the server's, what detect_server_settings
\* reports is true of it: the method stamped as probed is honoured, and the
\* protocol is the one of the recorded version's threshold.
THEOREM SettingsHold == DetectSpec => [](anomalies <= 1 => SettingsTrue)
<1>1. DetectInv => (anomalies <= 1 => SettingsTrue)
  BY DEF DetectInv, Probed, Versioned, SettingsTrue
<1>2. QED
  BY <1>1, DetectHolds, PTL

\* After an oversized body or a certificate that is not trusted nothing is asked
\* any more, with the key in whatever form; after one in the comparison only the
\* version is, once, with the key in the URL as valid_login accepted it.
THEOREM SilentAfterAlarm == DetectSpec => []NoKeyAfterAlarm
<1>1. DetectInv => NoKeyAfterAlarm
  <2>1. SUFFICES ASSUME DetectInv, NEW i \in 1..Len(asked), Alarming(asked[i]), i < Len(asked)
                 PROVE  asked[i].probe \in Legs /\ i + 1 = Len(asked) /\ AsAccepted(asked[i + 1])
    BY DEF NoKeyAfterAlarm
  <2>2. asked \in Seq(Requests)
    BY <2>1 DEF DetectInv, DetectTypeInv, DetectTypeOK
  <2>3. i # Len(asked)
    BY <2>1, <2>2
  <2>4. QED
    BY <2>1, <2>3 DEF DetectInv, Alarmed
<1>2. QED
  BY <1>1, DetectHolds, PTL
=============================================================================
