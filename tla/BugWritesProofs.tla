-------------------------- MODULE BugWritesProofs --------------------------
(* A command that ends without a report leaves no write unreported, a         *)
(* collision blocks its batch, a report is true and tags land on no older     *)
(* comment: proofs for any bugs, items,                                       *)
(* attachments and doings of other users.  And what a bug is filed with, and  *)
(* the templates it may start from (NewBug), for any commands.                *)
EXTENDS BugWrites, NewBug, SequenceTheorems, TLAPS

-----------------------------------------------------------------------------
(* The gates and the steps of an item. *)

Forms == Updates \cup Creates

Names == {"update", "create", "tags", "comment", "attachment"}

\* How a command ends without its report.
Stops == {"rejected", "dry-run", "aborted", "error", "collision"}

\* Where a form has its check.
CheckAt(f) == IF f = "update" THEN 4 ELSE 5

LEMMA GatesShape ==
  ASSUME NEW f \in Forms
  PROVE  /\ Len(Gates[f]) \in 3..6
         /\ DOMAIN Gates[f] = 1..Len(Gates[f])
         /\ f \in Updates => CheckAt(f) <= Len(Gates[f])
         /\ f = "update_json" => CheckAt(f) = Len(Gates[f])
         /\ \A g \in 1..Len(Gates[f]) :
              Gates[f][g] = "check" <=> f \in Updates /\ g = CheckAt(f)
<1>1. CASE f = "update"
  BY <1>1 DEF Gates, Updates, Creates, CheckAt
<1>2. CASE f = "verb"
  BY <1>2 DEF Gates, Updates, Creates, CheckAt
<1>3. CASE f = "update_json"
  BY <1>3 DEF Gates, Updates, Creates, CheckAt
<1>4. CASE f = "create"
  BY <1>4 DEF Gates, Updates, Creates, CheckAt
<1>5. CASE f = "clone"
  BY <1>5 DEF Gates, Updates, Creates, CheckAt
<1>6. CASE f = "create_json"
  BY <1>6 DEF Gates, Updates, Creates, CheckAt
<1> QED
  BY <1>1, <1>2, <1>3, <1>4, <1>5, <1>6 DEF Forms, Updates, Creates

\* The first step makes the bug or the update, no other does; an update has one
\* other step at most; tags are put on where they were asked for.
LEMMA StepsShape ==
  ASSUME form \in Forms, NEW it \in Item
  PROVE  /\ Steps(it) \in Seq(Names)
         /\ Len(Steps(it)) \in Nat \ {0}
         /\ DOMAIN Steps(it) = 1..Len(Steps(it))
         /\ Steps(it)[1] = IF form \in Updates THEN "update" ELSE "create"
         /\ \A j \in 2..Len(Steps(it)) : Steps(it)[j] \in {"tags", "comment", "attachment"}
         /\ form \in Updates => Len(Steps(it)) <= 2
         /\ \A j \in 1..Len(Steps(it)) : Steps(it)[j] = "tags" => it.tags /\ j = 2
<1> DEFINE tags == IF it.tags THEN <<"tags">> ELSE <<>>
           comment == IF it.comment THEN <<"comment">> ELSE <<>>
           attach == [n \in 1..it.attachments |-> "attachment"]
<1>1. it.attachments \in Nat
  BY BugWritesAssumption DEF Item
<1>2. /\ tags \in Seq(Names) /\ Len(tags) \in {0, 1} /\ (Len(tags) = 1 => it.tags)
      /\ \A j \in 1..Len(tags) : tags[j] = "tags"
  <2>1. CASE it.tags
    <3>1. tags = <<"tags">>
      BY <2>1
    <3> QED
      BY <2>1, <3>1 DEF Names
  <2>2. CASE ~it.tags
    <3>1. tags = << >>
      BY <2>2
    <3> QED
      BY <3>1
  <2> QED
    BY <2>1, <2>2
<1>3. /\ comment \in Seq(Names) /\ Len(comment) \in {0, 1}
      /\ \A j \in 1..Len(comment) : comment[j] = "comment"
  <2>1. CASE it.comment
    <3>1. comment = <<"comment">>
      BY <2>1
    <3> HIDE DEF comment
    <3> QED
      BY <3>1 DEF Names
  <2>2. CASE ~it.comment
    <3>1. comment = << >>
      BY <2>2
    <3> QED
      BY <3>1
  <2> QED
    BY <2>1, <2>2
<1>4. /\ attach \in Seq(Names) /\ Len(attach) \in Nat
      /\ \A j \in 1..Len(attach) : attach[j] = "attachment"
  BY <1>1 DEF Names
<1> HIDE DEF tags, comment, attach
<1>5. CASE form \in Updates
  <2>1. Steps(it) = <<"update">> \o tags
    BY <1>5 DEF Steps, tags
  <2>2. <<"update">> \in Seq(Names) /\ Len(<<"update">>) = 1 /\ <<"update">>[1] = "update"
    BY DEF Names
  <2>3. /\ Steps(it) \in Seq(Names) /\ Len(Steps(it)) = 1 + Len(tags)
        /\ \A j \in 1..(1 + Len(tags)) :
             Steps(it)[j] = IF j <= 1 THEN <<"update">>[j] ELSE tags[j - 1]
    BY <1>2, <2>1, <2>2, ConcatProperties
  <2> QED
    BY <1>2, <1>5, <2>2, <2>3
<1>6. CASE form \notin Updates
  <2> DEFINE a == <<"create">> \o tags
             b == a \o comment
  <2>1. Steps(it) = b \o attach
    BY <1>6 DEF Steps, tags, comment, attach
  <2>2. <<"create">> \in Seq(Names) /\ Len(<<"create">>) = 1 /\ <<"create">>[1] = "create"
    BY DEF Names
  <2>3. /\ a \in Seq(Names) /\ Len(a) = 1 + Len(tags)
        /\ \A j \in 1..(1 + Len(tags)) :
             a[j] = IF j <= 1 THEN <<"create">>[j] ELSE tags[j - 1]
    BY <1>2, <2>2, ConcatProperties
  <2>4. a[1] = "create" /\ \A j \in 2..Len(a) : a[j] = "tags" /\ it.tags /\ j = 2
    BY <1>2, <2>2, <2>3
  <2> HIDE DEF a
  <2>5. /\ b \in Seq(Names) /\ Len(b) = Len(a) + Len(comment)
        /\ \A j \in 1..(Len(a) + Len(comment)) :
             b[j] = IF j <= Len(a) THEN a[j] ELSE comment[j - Len(a)]
    BY <1>3, <2>3, ConcatProperties
  <2>6. /\ b[1] = "create"
        /\ \A j \in 2..Len(b) : (b[j] = "tags" /\ it.tags /\ j = 2) \/ b[j] = "comment"
    BY <1>2, <1>3, <2>3, <2>4, <2>5
  <2> HIDE DEF b
  <2>7. /\ b \o attach \in Seq(Names) /\ Len(b \o attach) = Len(b) + Len(attach)
        /\ \A j \in 1..(Len(b) + Len(attach)) :
             (b \o attach)[j] = IF j <= Len(b) THEN b[j] ELSE attach[j - Len(b)]
    <3>1. b \in Seq(Names) /\ attach \in Seq(Names)
      BY <1>4, <2>5
    <3> QED
      BY <3>1, ConcatProperties
  <2>8. Len(b) \in Nat \ {0} /\ Len(attach) \in Nat
    BY <1>2, <1>3, <1>4, <2>3, <2>5
  <2> DEFINE s == b \o attach
  <2>9. /\ s \in Seq(Names) /\ Len(s) \in Nat \ {0} /\ s[1] = "create"
        /\ \A j \in 2..Len(s) : (s[j] = "tags" /\ it.tags /\ j = 2) \/ s[j] \in {"comment", "attachment"}
    BY <1>4, <2>6, <2>7, <2>8
  <2> HIDE DEF s
  <2>10. Steps(it) = s
    BY <2>1 DEF s
  <2>11. DOMAIN s = 1..Len(s)
    BY <2>9
  <2>12. \A j \in 1..Len(s) : s[j] = "tags" => it.tags /\ j = 2
    BY <2>9
  <2> QED
    BY <1>6, <2>9, <2>10, <2>11, <2>12
<1> QED
  BY <1>5, <1>6

\* The steps of an item and where its comments are depend on the command alone.
LEMMA CommandFixed ==
  ASSUME UNCHANGED command
  PROVE  /\ \A n : (Steps(items[n]))' = Steps(items[n])
         /\ \A n : (BugOf(n))' = BugOf(n)
         /\ Planned' = Planned
<1>1. form' = form /\ items' = items
  BY DEF command
<1>2. \A n : (Steps(items[n]))' = Steps(items[n])
  BY <1>1 DEF Steps
<1>3. \A n : (BugOf(n))' = BugOf(n)
  BY <1>1 DEF BugOf
<1>4. Planned' = Planned
  BY <1>1, <1>2 DEF Planned
<1> QED
  BY <1>2, <1>3, <1>4

-----------------------------------------------------------------------------
(* Type correctness. *)

\* Where the work on the items is: the part of the types that most steps move.
Position(g, n, j, c) ==
  /\ g \in 1..(Len(Gates[form]) + 1)
  /\ n \in 1..(Len(items) + 1)
  /\ j \in Nat \ {0} /\ c \in Nat
  /\ n <= Len(items) => j <= Len(Steps(items[n]))
  /\ g <= Len(Gates[form]) => n <= Len(items) /\ j = 1 /\ c = 0
  /\ c # 0 => n <= Len(items) /\ Steps(items[n])[j] = "tags"

Reports(done, not) == done \subseteq DOMAIN items /\ not \subseteq (DOMAIN items) \X Nat

Holds(threads, made, coming, tags) ==
  /\ threads \in [Places -> Seq(0..MaxItems)]
  /\ made \subseteq Planned
  /\ coming \subseteq Planned \X Nat
  /\ tags \subseteq (DOMAIN items) \X Nat

TypeInv ==
  /\ form \in Forms
  /\ items \in Seq(Item) /\ Len(items) \in 1..MaxItems
  /\ Meaningful(form, items)
  /\ stale \subseteq changed /\ changed \subseteq Bugs
  /\ Position(gate, i, k, found)
  /\ Reports(succeeded, failed)
  /\ ended \in {"no", "ok", "failed"} \cup Stops
  /\ Holds(thread, applied, late, tagged)
  /\ others \in 0..MaxOthers

LEMMA TypeOfInv == TypeInv => TypeOK
<1> SUFFICES ASSUME TypeInv PROVE TypeOK
  OBVIOUS
<1>1. items \in UNION { [1..n -> Item] : n \in 1..MaxItems }
  BY DEF TypeInv, Position, Reports, Holds
<1>2. gate \in 1..7
  <2>1. Len(Gates[form]) \in 3..6
    BY GatesShape DEF TypeInv, Position, Reports, Holds
  <2> DEFINE n == Len(Gates[form])
  <2>2. gate \in 1..(n + 1)
    BY DEF TypeInv, Position, Reports, Holds
  <2>3. n \in 3..6
    BY <2>1
  <2> HIDE DEF n
  <2> QED
    BY <2>2, <2>3
<1>3. i \in 1..(MaxItems + 1)
  BY BugWritesAssumption DEF TypeInv, Position, Reports, Holds
<1>4. Writing => k \in DOMAIN Steps(items[i])
  <2> SUFFICES ASSUME Writing PROVE k \in DOMAIN Steps(items[i])
    OBVIOUS
  <2>1. items[i] \in Item
    BY DEF TypeInv, Position, Reports, Holds, Writing
  <2> QED
    BY <2>1, StepsShape DEF TypeInv, Position, Reports, Holds, Writing
<1> QED
  BY <1>1, <1>2, <1>3, <1>4 DEF TypeInv, Position, Reports, Holds, TypeOK, Forms, Stops

LEMMA InitType == Init => TypeInv
<1> SUFFICES ASSUME Init PROVE TypeInv
  OBVIOUS
<1>1. PICK n \in 1..MaxItems : items \in [1..n -> Item]
  BY DEF Init
<1>2. items \in Seq(Item) /\ Len(items) = n
  BY <1>1, BugWritesAssumption
<1>3. form \in Forms
  BY DEF Init, Forms
<1>4. items[1] \in Item
  BY <1>1, BugWritesAssumption
<1>5. 1 <= Len(Steps(items[1]))
  BY <1>3, <1>4, StepsShape
<1>6. Len(Gates[form]) \in 3..6
  BY <1>3, GatesShape
<1>7. stale \subseteq Bugs
  BY DEF Init
<1>8. thread \in [Places -> Seq(0..MaxItems)]
  BY DEF Init
<1> QED
  BY <1>1, <1>2, <1>3, <1>5, <1>6, <1>7, <1>8, BugWritesAssumption DEF Init, TypeInv, Position, Reports, Holds

-----------------------------------------------------------------------------
(* The kinds of steps. *)

AtAnyGate == ended = "no" /\ gate <= Len(Gates[form])

GateStep ==
  /\ AtAnyGate /\ Gates[form][gate] # "check"
  /\ NextEntry \/ Pass \/ \E how \in Stops : End(how)

CheckStep == Unchanged \/ Collision \/ EarlierCollision

Answers ==
  /\ Writing /\ Acknowledged
  /\ Steps(items[i])[k] = "tags" => found # 0

\* A failed step may be made yet; nothing else changes at the server.
Lingers ==
  /\ late' \subseteq late \cup {<<<<i, k>>, found>>}
  /\ UNCHANGED <<command, gate, changed, thread, applied, tagged, others>>

Fails ==
  /\ Writing /\ ~Returned /\ Lingers
  /\ IF k = 1 THEN NextItem ELSE NextStep
  /\ failed' = failed \cup {<<i, k>>}
  /\ UNCHANGED <<succeeded, ended>>

Returns ==
  /\ Writing /\ Returned /\ Lingers
  /\ ended' = "error" /\ failed' = failed \cup {<<i, k>>}
  /\ UNCHANGED <<i, k, found, succeeded>>

LooksUp ==
  /\ Writing /\ Steps(items[i])[k] = "tags"
  /\ found' = IF form \in Creates THEN 1 ELSE Latest(thread[BugOf(i)])
  /\ UNCHANGED <<command, gate, i, k, succeeded, failed, ended, server>>

LEMMA Kinds ==
  ASSUME TypeInv, Next
  PROVE  \/ GateStep \/ CheckStep \/ Answers \/ Fails \/ Returns \/ LooksUp \/ Report
         \/ Late \/ OtherChanges \/ OtherComments
<1>0. form \in Forms /\ gate \in Nat
  BY GatesShape DEF TypeInv, Position, Reports, Holds
<1>1. ASSUME NEW name, AtGate(name) PROVE AtAnyGate /\ Gates[form][gate] = name
  BY <1>0, <1>1, GatesShape DEF AtGate, AtAnyGate
<1>2. CASE PrepareUpdates
  BY <1>1, <1>2 DEF PrepareUpdates, GateStep, Stops
<1>3. CASE PrepareCreates
  BY <1>1, <1>3 DEF PrepareCreates, GateStep, Stops
<1>4. CASE DryRun
  BY <1>1, <1>4 DEF DryRun, GateStep, Stops
<1>5. CASE Connect
  BY <1>1, <1>5 DEF Connect, GateStep, Stops
<1>6. CASE ValidateStatus
  BY <1>1, <1>6 DEF ValidateStatus, GateStep, Stops
<1>7. CASE ReadSource
  BY <1>1, <1>7 DEF ReadSource, GateStep, Stops
<1>8. CASE Confirm
  BY <1>1, <1>8 DEF Confirm, GateStep, Stops
<1>9. ASSUME Failed, Writing, Lingers PROVE Fails \/ Returns
  BY <1>9 DEF Failed, Fails, Returns
<1>14. Unacknowledged => Failed /\ Lingers
  BY DEF Unacknowledged, Lingers
<1>10. ASSUME NEW name \in {"update", "create", "comment", "attachment"}, Write(name)
       PROVE  Answers \/ Fails \/ Returns
  BY <1>9, <1>10, <1>14 DEF Write, AtStep, Answers
<1>11. CASE FindComment
  <2>1. Writing /\ Steps(items[i])[k] = "tags"
    BY <1>11 DEF FindComment, AtStep
  <2>2. LooksUp \/ (Failed /\ UNCHANGED <<command, gate, server>>)
    BY <1>11, <2>1 DEF FindComment, LooksUp
  <2>3. ASSUME Failed, UNCHANGED <<command, gate, server>> PROVE Fails \/ Returns
    BY <1>9, <2>1, <2>3 DEF Lingers, server
  <2> QED
    BY <2>2, <2>3
<1>12. CASE TagComment
  BY <1>9, <1>12, <1>14 DEF TagComment, AtStep, Answers
<1>13. Write("update") \/ Write("create") \/ Write("comment") \/ Write("attachment")
         => Answers \/ Fails \/ Returns
  BY <1>10
<1> QED
  BY <1>2, <1>3, <1>4, <1>5, <1>6, <1>7, <1>8, <1>11, <1>12, <1>13 DEF Next, Command, CheckStep

-----------------------------------------------------------------------------
(* Every step keeps the types. *)

TypeStep ==
  /\ UNCHANGED command
  /\ stale \subseteq changed' /\ changed' \subseteq Bugs
  /\ Position(gate', i', k', found')
  /\ Reports(succeeded', failed')
  /\ ended' \in {"no", "ok", "failed"} \cup Stops
  /\ Holds(thread', applied', late', tagged')
  /\ others' \in 0..MaxOthers

LEMMA TypeKept == TypeInv /\ TypeStep => TypeInv'
<1> SUFFICES ASSUME TypeInv, TypeStep PROVE TypeInv'
  OBVIOUS
<1>1. form' = form /\ items' = items /\ stale' = stale /\ Planned' = Planned
  BY CommandFixed DEF TypeStep, command
<1>2. Position(gate, i, k, found)'
  BY <1>1 DEF TypeStep, Position, Steps
<1>3. Reports(succeeded, failed)' /\ Holds(thread, applied, late, tagged)'
  BY <1>1 DEF TypeStep, Reports, Holds, Places
<1>4. /\ (form \in Forms)'
      /\ (items \in Seq(Item) /\ Len(items) \in 1..MaxItems)'
      /\ Meaningful(form, items)'
  BY <1>1 DEF TypeInv, Meaningful
<1>5. (stale \subseteq changed /\ changed \subseteq Bugs)'
  BY <1>1 DEF TypeStep
<1>6. (ended \in {"no", "ok", "failed"} \cup Stops /\ others \in 0..MaxOthers)'
  BY DEF TypeStep
<1> QED
  BY <1>2, <1>3, <1>4, <1>5, <1>6 DEF TypeInv

\* Where the work is: at its gates; and, when it writes, after a step or an item.
LEMMA FirstPosition ==
  ASSUME TypeInv, NEW g \in 1..(Len(Gates[form]) + 1)
  PROVE  Position(g, 1, 1, 0)
<1>1. items[1] \in Item
  BY DEF TypeInv
<1>2. 1 <= Len(Steps(items[1]))
  BY <1>1, StepsShape DEF TypeInv
<1> QED
  BY <1>2 DEF TypeInv, Position

LEMMA PassTypes == TypeInv /\ AtAnyGate /\ Pass => TypeInv'
<1> SUFFICES ASSUME TypeInv, AtAnyGate, Pass PROVE TypeStep
  BY TypeKept
<1>1. Len(Gates[form]) \in Nat /\ gate \in Nat /\ gate <= Len(Gates[form]) /\ gate >= 1
  BY GatesShape DEF TypeInv, Position, AtAnyGate
<1>2. gate' \in 1..(Len(Gates[form]) + 1)
  BY <1>1 DEF Pass
<1>3. i' = 1 /\ k' = 1 /\ found' = 0
  BY <1>1 DEF Pass, TypeInv, Position
<1>4. Position(gate', i', k', found')
  BY <1>2, <1>3, FirstPosition
<1> QED
  BY <1>4 DEF Pass, TypeStep, TypeInv, server

LEMMA EndTypes ==
  ASSUME TypeInv, NEW how \in {"no", "ok", "failed"} \cup Stops, End(how)
  PROVE  TypeInv'
<1>1. TypeStep
  BY DEF End, TypeStep, TypeInv, server
<1> QED
  BY <1>1, TypeKept

LEMMA AtCheck ==
  ASSUME TypeInv, AtGate("check")
  PROVE  AtAnyGate /\ form \in Updates /\ gate = CheckAt(form)
         /\ i \in 1..Len(items) /\ k = 1 /\ found = 0
<1>1. form \in Forms /\ gate \in 1..(Len(Gates[form]) + 1)
  BY DEF TypeInv, Position
<1>2. gate \in 1..Len(Gates[form]) /\ Gates[form][gate] = "check" /\ ended = "no"
  BY <1>1, GatesShape DEF AtGate
<1>3. form \in Updates /\ gate = CheckAt(form)
  BY <1>1, <1>2, GatesShape
<1>4. Len(Gates[form]) \in Nat
  BY <1>1, GatesShape
<1> QED
  BY <1>2, <1>3, <1>4 DEF AtAnyGate, TypeInv, Position

LEMMA AtEntry ==
  ASSUME TypeInv, AtAnyGate
  PROVE  i \in 1..Len(items) /\ k = 1 /\ found = 0 /\ Len(items) \in Nat
BY DEF AtAnyGate, TypeInv, Position

LEMMA NextEntryTypes ==
  ASSUME TypeInv, AtAnyGate, NextEntry
  PROVE  TypeInv'
<1>1. CASE i >= Len(items)
  <2>1. Pass
    BY <1>1, AtEntry DEF NextEntry
  <2> QED
    BY <2>1, PassTypes
<1>2. CASE i < Len(items)
  <2>1. i' = i + 1 /\ UNCHANGED <<command, gate, k, found, succeeded, failed, ended, server>>
    BY <1>2 DEF NextEntry
  <2>2. i + 1 \in 1..Len(items) /\ k = 1 /\ found = 0 /\ items[i + 1] \in Item
    BY <1>2, AtEntry DEF TypeInv
  <2>3. 1 <= Len(Steps(items[i + 1]))
    BY <2>2, StepsShape DEF TypeInv
  <2>4. Position(gate', i', k', found')
    BY <2>1, <2>2, <2>3 DEF TypeInv, Position
  <2>5. TypeStep
    BY <2>1, <2>4 DEF TypeStep, TypeInv, server
  <2> QED
    BY <2>5, TypeKept
<1> QED
  BY <1>1, <1>2, AtEntry

LEMMA CollisionTypes ==
  ASSUME TypeInv, Collision
  PROVE  TypeInv'
<1>1. CASE form # "update_json"
  BY <1>1, EndTypes DEF Collision, Stops
<1>2. CASE form = "update_json"
  <2>1. /\ failed' = failed \cup {<<i, 0>>}
        /\ UNCHANGED <<command, gate, k, found, succeeded, server>>
        /\ i < Len(items) => i' = i + 1 /\ ended' = ended
        /\ ~(i < Len(items)) => i' = i /\ ended' = "collision"
    BY <1>2 DEF Collision
  <2>2. i \in 1..Len(items) /\ k = 1 /\ found = 0
    BY AtCheck DEF Collision
  <2>3. i' \in 1..Len(items)
    BY <2>1, <2>2 DEF TypeInv
  <2>4. items[i'] \in Item
    BY <2>3 DEF TypeInv
  <2>5. 1 <= Len(Steps(items[i']))
    BY <2>4, StepsShape DEF TypeInv
  <2>6. Position(gate', i', k', found')
    BY <2>1, <2>2, <2>3, <2>5 DEF TypeInv, Position
  <2>7. Reports(succeeded', failed')
    BY <2>1, <2>2 DEF TypeInv, Reports
  <2>8. TypeStep
    BY <2>1, <2>6, <2>7 DEF TypeStep, TypeInv, server, Stops
  <2> QED
    BY <2>8, TypeKept
<1> QED
  BY <1>1, <1>2

LEMMA CheckTypes == TypeInv /\ CheckStep => TypeInv'
<1> SUFFICES ASSUME TypeInv, CheckStep PROVE TypeInv'
  OBVIOUS
<1>1. CASE Unchanged
  BY <1>1, AtCheck, NextEntryTypes DEF Unchanged
<1>2. CASE Collision
  BY <1>2, CollisionTypes
<1>3. CASE EarlierCollision
  BY <1>3, EndTypes DEF EarlierCollision, Stops
<1> QED
  BY <1>1, <1>2, <1>3 DEF CheckStep

LEMMA PlannedPairs ==
  ASSUME TypeInv
  PROVE  \A w : w \in Planned <=>
           \E n \in 1..Len(items) : \E j \in 1..Len(Steps(items[n])) : w = <<n, j>>
<1>1. DOMAIN items = 1..Len(items) /\ \A n \in 1..Len(items) : items[n] \in Item
  BY DEF TypeInv
<1>2. \A n \in 1..Len(items) : DOMAIN Steps(items[n]) = 1..Len(Steps(items[n]))
  BY <1>1, StepsShape DEF TypeInv
<1> QED
  BY <1>1, <1>2 DEF Planned

LEMMA AtWork ==
  ASSUME TypeInv, Writing
  PROVE  /\ i \in 1..Len(items) /\ items[i] \in Item
         /\ k \in 1..Len(Steps(items[i])) /\ Len(Steps(items[i])) \in Nat
         /\ <<i, k>> \in Planned
         /\ gate > Len(Gates[form]) /\ ended = "no"
<1>1. i \in 1..Len(items) /\ items[i] \in Item
  BY DEF TypeInv, Position, Writing
<1>2. Len(Steps(items[i])) \in Nat
  BY <1>1, StepsShape DEF TypeInv
<1>3. k \in 1..Len(Steps(items[i]))
  BY <1>1, <1>2 DEF TypeInv, Position
<1> QED
  BY <1>1, <1>2, <1>3, PlannedPairs DEF Writing

LEMMA ItemPlaces ==
  ASSUME TypeInv, NEW n \in 1..Len(items)
  PROVE  BugOf(n) \in Places /\ n \in 0..MaxItems /\ n \in DOMAIN items
<1>1. items[n] \in Item /\ n \in 1..MaxItems /\ n \in DOMAIN items
  BY BugWritesAssumption DEF TypeInv
<1> QED
  BY <1>1 DEF BugOf, Places, Item

\* After a step comes the next one, or the next item.
LEMMA NextPlace ==
  ASSUME TypeInv, Writing, NextStep \/ NextItem, gate' = gate
  PROVE  /\ Position(gate', i', k', found')
         /\ found' = 0
         /\ \/ k < Len(Steps(items[i])) /\ i' = i /\ k' = k + 1
            \/ NextItem /\ i' = i + 1 /\ k' = 1
         /\ NextStep => (i' = i + 1 => k = Len(Steps(items[i])))
<1>1. /\ i \in 1..Len(items) /\ k \in 1..Len(Steps(items[i]))
      /\ Len(Steps(items[i])) \in Nat /\ gate > Len(Gates[form])
  BY AtWork
<1>2. gate \in 1..(Len(Gates[form]) + 1) /\ Len(Gates[form]) \in Nat
  BY GatesShape DEF TypeInv, Position
<1>3. CASE NextStep /\ k < Len(Steps(items[i]))
  <2>1. i' = i /\ k' = k + 1 /\ found' = 0
    BY <1>3 DEF NextStep
  <2> QED
    BY <1>1, <1>2, <1>3, <2>1 DEF Position
<1>4. CASE NextItem /\ (NextStep => k = Len(Steps(items[i])))
  <2>1. i' = i + 1 /\ k' = 1 /\ found' = 0
    BY <1>4 DEF NextItem
  <2>2. i' \in 1..(Len(items) + 1)
    BY <1>1, <2>1 DEF TypeInv
  <2>3. ASSUME i' <= Len(items) PROVE 1 <= Len(Steps(items[i']))
    <3>1. items[i'] \in Item
      BY <2>2, <2>3 DEF TypeInv
    <3> QED
      BY <3>1, StepsShape DEF TypeInv
  <2>4. Position(gate', i', k', found')
    BY <1>1, <1>2, <2>1, <2>2, <2>3 DEF Position
  <2> QED
    BY <1>4, <2>1, <2>4
<1>5. NextStep => k < Len(Steps(items[i])) \/ (NextItem /\ k = Len(Steps(items[i])))
  BY <1>1 DEF NextStep
<1> QED
  BY <1>1, <1>3, <1>4, <1>5

LEMMA PerformTypes ==
  ASSUME TypeInv, NEW n \in 1..Len(items), NEW j \in 1..Len(Steps(items[n])), NEW c \in Nat,
         Perform(n, j, c), late' \subseteq Planned \X Nat
  PROVE  Holds(thread', applied', late', tagged')
<1>1. BugOf(n) \in Places /\ n \in 0..MaxItems /\ n \in DOMAIN items
  BY ItemPlaces
<1>2. thread' \in [Places -> Seq(0..MaxItems)]
  BY <1>1 DEF Perform, TypeInv, Holds
<1>3. applied' \subseteq Planned
  BY PlannedPairs DEF Perform, TypeInv, Holds
<1>4. tagged' \subseteq (DOMAIN items) \X Nat
  BY <1>1 DEF Perform, TypeInv, Holds
<1> QED
  BY <1>2, <1>3, <1>4 DEF Holds

LEMMA AnswersTypes == TypeInv /\ Answers => TypeInv'
<1> SUFFICES ASSUME TypeInv, Answers PROVE TypeStep
  BY TypeKept
<1>1. Writing /\ Acknowledged /\ Done /\ NextStep
  BY DEF Answers, Acknowledged, Done
<1>2. Position(gate', i', k', found')
  BY <1>1, NextPlace DEF Acknowledged
<1>3. Reports(succeeded', failed')
  BY <1>1, AtWork, ItemPlaces DEF Done, TypeInv, Reports
<1>4. Holds(thread', applied', late', tagged')
  BY <1>1, AtWork, PerformTypes DEF Acknowledged, TypeInv, Holds, Position
<1> QED
  BY <1>1, <1>2, <1>3, <1>4 DEF TypeStep, Acknowledged, TypeInv

LEMMA LingersTypes ==
  ASSUME TypeInv, Writing, Lingers
  PROVE  Holds(thread', applied', late', tagged')
<1>1. <<i, k>> \in Planned /\ found \in Nat
  BY AtWork DEF TypeInv, Position
<1>2. late \subseteq Planned \X Nat /\ late' \subseteq late \cup {<<<<i, k>>, found>>}
  BY DEF Lingers, TypeInv, Holds
<1>3. late' \subseteq Planned \X Nat
  BY <1>1, <1>2
<1> QED
  BY <1>3 DEF Lingers, TypeInv, Holds

LEMMA FailsTypes == TypeInv /\ Fails => TypeInv'
<1> SUFFICES ASSUME TypeInv, Fails PROVE TypeStep
  BY TypeKept
<1>1. Writing /\ (NextStep \/ NextItem) /\ gate' = gate
  BY DEF Fails, Lingers
<1>2. Position(gate', i', k', found')
  BY <1>1, NextPlace
<1>3. Reports(succeeded', failed')
  BY <1>1, AtWork, ItemPlaces DEF Fails, TypeInv, Reports
<1>4. Holds(thread', applied', late', tagged')
  BY LingersTypes DEF Fails
<1> QED
  BY <1>2, <1>3, <1>4 DEF TypeStep, Fails, Lingers, TypeInv

LEMMA ReturnsTypes == TypeInv /\ Returns => TypeInv'
<1> SUFFICES ASSUME TypeInv, Returns PROVE TypeStep
  BY TypeKept
<1>1. Position(gate', i', k', found')
  BY DEF Returns, Lingers, TypeInv
<1>2. Reports(succeeded', failed')
  BY AtWork, ItemPlaces DEF Returns, TypeInv, Reports
<1>3. Holds(thread', applied', late', tagged')
  BY LingersTypes DEF Returns
<1> QED
  BY <1>1, <1>2, <1>3 DEF TypeStep, Returns, Lingers, TypeInv, Stops

LEMMA LooksUpTypes == TypeInv /\ LooksUp => TypeInv'
<1> SUFFICES ASSUME TypeInv, LooksUp PROVE TypeStep
  BY TypeKept
<1>1. Writing /\ i \in 1..Len(items) /\ gate > Len(Gates[form])
  BY AtWork DEF LooksUp
<1>2. thread[BugOf(i)] \in Seq(0..MaxItems)
  BY <1>1, ItemPlaces DEF TypeInv, Holds
<1>3. found' \in Nat
  BY <1>2 DEF LooksUp, Latest
<1>4. Len(Gates[form]) \in Nat
  BY GatesShape DEF TypeInv
<1>5. Position(gate', i', k', found')
  BY <1>1, <1>3, <1>4 DEF LooksUp, TypeInv, Position
<1> QED
  BY <1>5 DEF TypeStep, LooksUp, TypeInv, server

LEMMA LateTypes == TypeInv /\ Late => TypeInv'
<1> SUFFICES ASSUME TypeInv, Late PROVE TypeStep
  BY TypeKept
<1>1. PICK w \in late : /\ late' = late \ {w} /\ Perform(w[1][1], w[1][2], w[2])
                        /\ UNCHANGED <<command, progress, changed, others>>
  BY DEF Late
<1>2. w[1] \in Planned /\ w[2] \in Nat
  BY DEF TypeInv, Holds
<1>3. w[1][1] \in 1..Len(items) /\ w[1][2] \in 1..Len(Steps(items[w[1][1]]))
  BY <1>2, PlannedPairs
<1>4. late' \subseteq Planned \X Nat
  BY <1>1 DEF TypeInv, Holds
<1>5. Holds(thread', applied', late', tagged')
  BY <1>1, <1>2, <1>3, <1>4, PerformTypes
<1> QED
  BY <1>1, <1>5 DEF TypeStep, TypeInv, progress

LEMMA OthersTypes == TypeInv /\ (OtherChanges \/ OtherComments) => TypeInv'
<1>1. ASSUME TypeInv, OtherChanges PROVE TypeStep
  BY <1>1, BugWritesAssumption DEF OtherChanges, TypeStep, TypeInv, Holds, progress
<1>2. ASSUME TypeInv, OtherComments PROVE TypeStep
  <2>1. thread' \in [Places -> Seq(0..MaxItems)]
    BY <1>2, BugWritesAssumption DEF OtherComments, TypeInv, Holds
  <2> QED
    BY <1>2, <2>1, BugWritesAssumption DEF OtherComments, TypeStep, TypeInv, Holds, progress
<1> QED
  BY <1>1, <1>2, TypeKept

LEMMA NextType == TypeInv /\ [Next]_vars => TypeInv'
<1> SUFFICES ASSUME TypeInv, [Next]_vars PROVE TypeInv'
  OBVIOUS
<1>1. CASE UNCHANGED vars
  <2>1. TypeStep
    BY <1>1 DEF vars, progress, server, TypeStep, TypeInv
  <2> QED
    BY <2>1, TypeKept
<1>2. CASE GateStep
  BY <1>2, NextEntryTypes, PassTypes, EndTypes DEF GateStep
<1>3. CASE Report
  BY <1>3, EndTypes DEF Report
<1> QED
  BY <1>1, <1>2, <1>3, Kinds, CheckTypes, AnswersTypes, FailsTypes, ReturnsTypes, LooksUpTypes,
     LateTypes, OthersTypes

\* Every variable keeps its type, and an item under way has the step it is at.
THEOREM TypeCorrect == Spec => []TypeOK
<1> QED
  BY InitType, NextType, TypeOfInv, PTL DEF Spec

-----------------------------------------------------------------------------
(* Nothing is written before the last gate, and a bug that had changed is met *)
(* at the check.                                                              *)

Clean(n) == items[n].guarded => items[n].bug \notin stale

\* The items up to n have passed, or the command is going to end.
Vetted(n) ==
  \A m \in 1..n : Clean(m) \/ (form = "update_json" /\ failed # {})

BlockInv ==
  /\ gate <= Len(Gates[form]) => applied = {} /\ late = {}
  /\ form \in Updates /\ gate = CheckAt(form) => Vetted(i - 1)
  /\ form \in Updates /\ gate > CheckAt(form) => \A n \in 1..Len(items) : Clean(n)

LEMMA InitBlock == Init => BlockInv
<1> SUFFICES ASSUME Init PROVE BlockInv
  OBVIOUS
<1>1. gate = 1 /\ i = 1 /\ ended = "no" /\ applied = {} /\ late = {}
  BY DEF Init
<1>2. CheckAt(form) \in {4, 5}
  BY DEF CheckAt
<1> QED
  BY <1>1, <1>2 DEF BlockInv

\* What was asked for and what had changed at the start stay.
LEMMA SameItems ==
  ASSUME UNCHANGED command
  PROVE  (\A n : (Clean(n))' <=> Clean(n)) /\ form' = form /\ items' = items /\ stale' = stale
BY DEF command, Clean

\* Steps that change neither gate nor, at the check, place: an end among them.
LEMMA StillBlocked ==
  ASSUME TypeInv, BlockInv, UNCHANGED <<command, gate>>,
         form \in Updates /\ gate = CheckAt(form) => UNCHANGED <<i, failed>>,
         gate <= Len(Gates[form]) => applied' = {} /\ late' = {}
  PROVE  BlockInv'
<1>1. (\A n : (Clean(n))' <=> Clean(n)) /\ form' = form /\ items' = items /\ gate' = gate
  BY SameItems
<1>3. (CheckAt(form))' = CheckAt(form)
  BY <1>1 DEF CheckAt
<1>4. form \in Updates /\ gate = CheckAt(form) => Vetted(i - 1)'
  BY <1>1 DEF BlockInv, Vetted
<1> QED
  BY <1>1, <1>3, <1>4 DEF BlockInv

LEMMA PassBlock ==
  ASSUME TypeInv, BlockInv, AtAnyGate, Pass,
         form \in Updates /\ gate = CheckAt(form) => \A n \in 1..Len(items) : Clean(n)
  PROVE  BlockInv'
<1>1. (\A n : (Clean(n))' <=> Clean(n)) /\ form' = form /\ items' = items
  BY SameItems DEF Pass
<1>2. /\ gate' = gate + 1 /\ i' = 1 /\ gate \in Nat /\ ended = "no" /\ ended' = "no"
      /\ applied' = applied /\ late' = late
  BY DEF Pass, TypeInv, Position, AtAnyGate, server
<1>3. applied = {} /\ late = {}
  BY DEF BlockInv, AtAnyGate
<1>4. (CheckAt(form))' = CheckAt(form) /\ CheckAt(form) \in Nat
  BY <1>1 DEF CheckAt
<1>5. Vetted(i - 1)'
  BY <1>2 DEF Vetted
<1>6. form \in Updates /\ gate' > CheckAt(form) => \A n \in 1..Len(items) : Clean(n)
  <2>1. gate' > CheckAt(form) => gate = CheckAt(form) \/ gate > CheckAt(form)
    BY <1>2, <1>4
  <2> QED
    BY <2>1 DEF BlockInv
<1> QED
  BY <1>1, <1>2, <1>3, <1>4, <1>5, <1>6 DEF BlockInv

LEMMA EndBlock ==
  ASSUME TypeInv, BlockInv, NEW how, End(how)
  PROVE  BlockInv'
<1>1. UNCHANGED <<command, gate, i, failed, applied, late>>
  BY DEF End, server
<1>2. gate <= Len(Gates[form]) => applied' = {} /\ late' = {}
  BY <1>1 DEF BlockInv
<1> QED
  BY <1>1, <1>2, StillBlocked

LEMMA UnchangedBlock == TypeInv /\ BlockInv /\ Unchanged => BlockInv'
<1> SUFFICES ASSUME TypeInv, BlockInv, Unchanged PROVE BlockInv'
  OBVIOUS
<1>1. /\ AtAnyGate /\ form \in Updates /\ gate = CheckAt(form) /\ i \in 1..Len(items)
      /\ Len(items) \in Nat
  BY AtCheck DEF Unchanged, TypeInv
<1>2. Clean(i)
  BY DEF Unchanged, Clean, TypeInv
<1>3. Vetted(i)
  BY <1>1, <1>2 DEF BlockInv, Vetted
<1>4. CASE i < Len(items)
  <2>1. /\ i' = i + 1
        /\ UNCHANGED <<command, gate, k, found, succeeded, failed, ended, server>>
    BY <1>4 DEF Unchanged, NextEntry
  <2>2. (\A n : (Clean(n))' <=> Clean(n)) /\ form' = form /\ items' = items /\ failed' = failed
        /\ gate' = gate /\ (CheckAt(form))' = CheckAt(form) /\ CheckAt(form) \in Nat
    BY <2>1, SameItems DEF CheckAt
  <2>3. i' - 1 = i
    BY <1>1, <2>1
  <2>4. Vetted(i - 1)'
    BY <1>3, <2>2, <2>3 DEF Vetted
  <2>5. applied' = {} /\ late' = {}
    BY <1>1, <2>1 DEF BlockInv, AtAnyGate, server
  <2> QED
    BY <1>1, <2>2, <2>4, <2>5 DEF BlockInv
<1>5. CASE i = Len(items)
  <2>1. \A n \in 1..Len(items) : Clean(n)
    BY <1>3, <1>5 DEF Vetted, Unchanged
  <2>2. Pass
    BY <1>1, <1>5 DEF Unchanged, NextEntry
  <2> QED
    BY <1>1, <2>1, <2>2, PassBlock
<1> QED
  BY <1>1, <1>4, <1>5

LEMMA CollisionBlock == TypeInv /\ BlockInv /\ Collision => BlockInv'
<1> SUFFICES ASSUME TypeInv, BlockInv, Collision PROVE BlockInv'
  OBVIOUS
<1>1. AtAnyGate /\ form \in Updates /\ gate = CheckAt(form)
  BY AtCheck DEF Collision
<1>2. CASE form # "update_json"
  BY <1>1, <1>2, EndBlock DEF Collision
<1>3. CASE form = "update_json"
  <2>1. failed' # {} /\ UNCHANGED <<command, gate, k, found, succeeded, server>>
    BY <1>3 DEF Collision
  <2>2. /\ form' = form /\ items' = items /\ gate' = gate
        /\ (CheckAt(form))' = CheckAt(form) /\ CheckAt(form) \in Nat
    BY <2>1, SameItems DEF CheckAt
  <2>3. applied' = {} /\ late' = {}
    BY <1>1, <2>1 DEF BlockInv, AtAnyGate, server
  <2>4. Vetted(i - 1)'
    BY <1>3, <2>1, <2>2 DEF Vetted
  <2> QED
    BY <1>1, <2>2, <2>3, <2>4 DEF BlockInv
<1> QED
  BY <1>2, <1>3

LEMMA NextBlock == TypeInv /\ BlockInv /\ [Next]_vars => BlockInv'
<1> SUFFICES ASSUME TypeInv, BlockInv, [Next]_vars PROVE BlockInv'
  OBVIOUS
<1>0. gate \in Nat /\ Len(Gates[form]) \in Nat
  BY GatesShape DEF TypeInv, Position
<1>1. CASE UNCHANGED vars
  BY <1>1, StillBlocked DEF vars, progress, server, BlockInv
<1>2. CASE GateStep
  <2>1. ~(form \in Updates /\ gate = CheckAt(form))
    BY <1>0, <1>2, GatesShape DEF GateStep, AtAnyGate, TypeInv, Position
  <2>2. CASE NextEntry /\ i < Len(items)
    BY <2>1, <2>2, StillBlocked DEF NextEntry, BlockInv, server
  <2>3. NextEntry => i < Len(items) \/ Pass
    BY DEF NextEntry
  <2> QED
    BY <1>2, <2>1, <2>2, <2>3, PassBlock, EndBlock DEF GateStep
<1>3. CASE CheckStep
  <2>1. CASE EarlierCollision
    BY <2>1, AtCheck, EndBlock DEF EarlierCollision
  <2> QED
    BY <1>3, <2>1, UnchangedBlock, CollisionBlock DEF CheckStep
<1>4. CASE Answers \/ Fails \/ Returns \/ LooksUp
  <2>1. Writing /\ UNCHANGED <<command, gate>>
    BY <1>4 DEF Answers, Acknowledged, Fails, Returns, Lingers, LooksUp
  <2>2. ~(gate <= Len(Gates[form])) /\ (form \in Updates => CheckAt(form) <= Len(Gates[form]))
    BY <1>0, <2>1, AtWork, GatesShape DEF TypeInv
  <2> QED
    BY <2>1, <2>2, StillBlocked
<1>5. CASE Report
  BY <1>5, EndBlock DEF Report
<1>6. CASE Late
  <2>1. late # {} /\ UNCHANGED <<command, progress>>
    BY <1>6 DEF Late
  <2> QED
    BY <2>1, StillBlocked DEF progress, BlockInv
<1>7. CASE OtherChanges \/ OtherComments
  BY <1>7, StillBlocked DEF OtherChanges, OtherComments, progress, BlockInv
<1> QED
  BY <1>1, <1>2, <1>3, <1>4, <1>5, <1>6, <1>7, Kinds

\* A command that writes ends with its report, or with an error about its only
\* bug: then only the step in error may linger, or that and an update before it.
SingleInv ==
  gate > Len(Gates[form]) =>
    /\ ended \in Stops =>
         /\ Single /\ ended = "error"
         /\ \A w \in Sent : w \in failed \/ (form \in Updates /\ <<w[1], 2>> \in failed)
    /\ ended = "no" /\ Returned /\ i = 1 => \A w \in Sent : w[1] = 1 /\ w[2] < k

LEMMA SentPlanned ==
  ASSUME TypeInv
  PROVE  Sent \subseteq Planned
BY DEF TypeInv, Holds, Sent

\* The steps that leave the command, its place and its failures alone.
LEMMA StillSingle ==
  ASSUME SingleInv, UNCHANGED <<command, gate, i, k, failed, ended>>, Sent' = Sent
  PROVE  SingleInv'
<1>1. form' = form /\ items' = items
  BY DEF command
<1>2. (Single' <=> Single) /\ (Returned' <=> Returned)
  BY <1>1 DEF Single, Returned
<1> QED
  BY <1>1, <1>2 DEF SingleInv

\* Nothing has been sent when the last gate is passed.
LEMMA GatesSingle ==
  ASSUME TypeInv, BlockInv, AtAnyGate, UNCHANGED <<command, server>>,
         gate' > Len(Gates[form]) => ended' = "no"
  PROVE  SingleInv'
<1>1. form' = form /\ Sent = {} /\ Sent' = {}
  BY DEF command, server, AtAnyGate, BlockInv, Sent
<1> QED
  BY <1>1 DEF SingleInv, Stops

LEMMA AnswersSingle == TypeInv /\ SingleInv /\ Answers => SingleInv'
<1> SUFFICES ASSUME TypeInv, SingleInv, Answers PROVE SingleInv'
  OBVIOUS
<1>1. /\ i \in 1..Len(items) /\ k \in Nat \ {0} /\ gate > Len(Gates[form]) /\ ended = "no"
  BY AtWork DEF Answers, TypeInv, Position
<1>2. /\ UNCHANGED <<command, gate, ended, late>> /\ applied' = applied \cup {<<i, k>>}
      /\ (i' = i /\ k' = k + 1) \/ (i' = i + 1 /\ k' = 1)
  <2>1. Writing /\ NextStep /\ UNCHANGED <<command, gate, ended, late>>
    BY DEF Answers, Acknowledged, Done
  <2>2. Perform(i, k, found)
    BY DEF Answers, Acknowledged
  <2>3. (i' = i /\ k' = k + 1) \/ (i' = i + 1 /\ k' = 1)
    BY <2>1, NextPlace
  <2> QED
    BY <2>1, <2>2, <2>3 DEF Perform
<1>3. form' = form /\ items' = items /\ gate' = gate /\ ended' = "no"
  BY <1>1, <1>2 DEF command
<1>4. Sent' = Sent \cup {<<i, k>>}
  BY <1>2 DEF Sent
<1>5. ASSUME Returned', i' = 1 PROVE \A w \in Sent' : w[1] = 1 /\ w[2] < k'
  <2>1. i = 1 /\ k' = k + 1
    BY <1>1, <1>2, <1>5 DEF TypeInv
  <2>2. Returned
    BY <1>1, <1>3, <1>5, <2>1 DEF Returned, Single
  <2>3. \A w \in Sent : w[1] = 1 /\ w[2] < k
    BY <1>1, <2>1, <2>2 DEF SingleInv
  <2>4. Sent \subseteq Planned
    BY SentPlanned
  <2>5. \A w \in Sent : w[2] \in Nat
    <3>1. \A n \in 1..Len(items) : Len(Steps(items[n])) \in Nat
      BY StepsShape DEF TypeInv
    <3> QED
      BY <2>4, <3>1, PlannedPairs
  <2> QED
    BY <1>1, <1>4, <2>1, <2>3, <2>5
<1> QED
  BY <1>3, <1>5 DEF SingleInv, Stops

LEMMA FailsSingle == TypeInv /\ SingleInv /\ Fails => SingleInv'
<1> SUFFICES ASSUME TypeInv, SingleInv, Fails PROVE SingleInv'
  OBVIOUS
<1>1. i \in 1..Len(items) /\ k \in Nat \ {0} /\ ended' = "no"
  BY AtWork DEF Fails, TypeInv, Position
<1>2. UNCHANGED <<command, gate>> /\ ~Returned /\ ((i' = i /\ k' = k + 1) \/ i' = i + 1)
  <2>1. Writing /\ (NextItem \/ NextStep) /\ gate' = gate
    BY DEF Fails, Lingers
  <2>2. (i' = i /\ k' = k + 1) \/ (i' = i + 1)
    BY <2>1, NextPlace
  <2> QED
    BY <2>2 DEF Fails, Lingers
<1>3. form' = form /\ items' = items
  BY <1>2 DEF Fails, Lingers, command
<1>4. ~(Returned' /\ i' = 1)
  BY <1>1, <1>2, <1>3 DEF Fails, Returned, Single, TypeInv
<1> QED
  BY <1>1, <1>4 DEF SingleInv, Stops

LEMMA ReturnsSingle == TypeInv /\ SingleInv /\ Returns => SingleInv'
<1> SUFFICES ASSUME TypeInv, SingleInv, Returns PROVE SingleInv'
  OBVIOUS
<1>1. /\ i \in 1..Len(items) /\ items[i] \in Item /\ k \in 1..Len(Steps(items[i]))
      /\ gate > Len(Gates[form]) /\ ended = "no"
  BY AtWork DEF Returns
<1>2. /\ Single /\ (form \in Updates \/ k = 1) /\ UNCHANGED <<command, gate>> /\ ended' = "error"
      /\ failed' = failed \cup {<<i, k>>} /\ Sent' \subseteq Sent \cup {<<i, k>>}
  BY DEF Returns, Returned, Lingers, Sent
<1>3. form' = form /\ items' = items /\ Single'
  BY <1>2 DEF command, Single
<1>4. i = 1
  BY <1>1, <1>2 DEF Single, TypeInv, Meaningful
<1>5. \A w \in Sent : w[1] = 1 /\ w[2] < k /\ w \in Planned
  BY <1>1, <1>4, SentPlanned DEF SingleInv, Returns
<1>6. \A w \in Sent : w[2] \in Nat \ {0}
  <2>1. \A n \in 1..Len(items) : Len(Steps(items[n])) \in Nat
    BY StepsShape DEF TypeInv
  <2> QED
    BY <1>5, <2>1, PlannedPairs
<1>7. k = 1 \/ (form \in Updates /\ k = 2)
  <2>1. form \in Updates => Len(Steps(items[i])) <= 2
    BY <1>1, StepsShape DEF TypeInv
  <2>2. Len(Steps(items[i])) \in Nat
    BY <1>1, StepsShape DEF TypeInv
  <2> QED
    BY <1>1, <1>2, <2>1, <2>2
<1>8. \A w \in Sent' : w \in failed' \/ (form \in Updates /\ <<w[1], 2>> \in failed')
  <2> SUFFICES ASSUME NEW w \in Sent
               PROVE  w \in failed' \/ (form \in Updates /\ <<w[1], 2>> \in failed')
    BY <1>2
  <2>1. k = 2 /\ form \in Updates /\ w[1] = i
    BY <1>4, <1>5, <1>6, <1>7
  <2> QED
    BY <1>2, <2>1
<1> QED
  BY <1>2, <1>3, <1>8 DEF SingleInv

LEMMA NextSingle == TypeInv /\ BlockInv /\ SingleInv /\ [Next]_vars => SingleInv'
<1> SUFFICES ASSUME TypeInv, BlockInv, SingleInv, [Next]_vars PROVE SingleInv'
  OBVIOUS
<1>0. gate \in Nat /\ Len(Gates[form]) \in Nat
  BY GatesShape DEF TypeInv, Position
<1>1. CASE UNCHANGED vars
  BY <1>1, StillSingle DEF vars, progress, server, Sent
<1>2. ASSUME AtAnyGate, NextEntry \/ Pass PROVE SingleInv'
  BY <1>2, GatesSingle DEF NextEntry, Pass, AtAnyGate
<1>3. ASSUME AtAnyGate, NEW how, End(how) PROVE SingleInv'
  BY <1>0, <1>3, GatesSingle DEF End, AtAnyGate
<1>4. CASE GateStep
  BY <1>2, <1>3, <1>4 DEF GateStep
<1>5. CASE CheckStep
  <2>1. AtAnyGate
    BY <1>5, AtCheck DEF CheckStep, Unchanged, Collision, EarlierCollision
  <2>2. CASE Collision /\ form = "update_json"
    <3>1. UNCHANGED <<command, gate, server>>
      BY <2>2 DEF Collision
    <3> QED
      BY <1>0, <2>1, <3>1, GatesSingle DEF AtAnyGate
  <2> QED
    BY <1>2, <1>3, <1>5, <2>1, <2>2 DEF CheckStep, Unchanged, Collision, EarlierCollision
<1>6. CASE LooksUp
  BY <1>6, StillSingle DEF LooksUp, server, Sent
<1>7. CASE Report
  BY <1>7 DEF Report, End, SingleInv, Stops
<1>8. CASE Late
  <2>1. PICK w \in late : /\ late' = late \ {w} /\ Perform(w[1][1], w[1][2], w[2])
                          /\ UNCHANGED <<command, progress, changed, others>>
    BY <1>8 DEF Late
  <2>2. w[1] = <<w[1][1], w[1][2]>>
    <3>1. w[1] \in Planned
      BY DEF TypeInv, Holds
    <3> QED
      BY <3>1, PlannedPairs
  <2>3. applied' = applied \cup {w[1]}
    BY <2>1, <2>2 DEF Perform
  <2>4. Sent' = Sent
    BY <2>1, <2>3 DEF Sent
  <2> QED
    BY <2>1, <2>4, StillSingle DEF progress
<1>9. CASE OtherChanges \/ OtherComments
  BY <1>9, StillSingle DEF OtherChanges, OtherComments, progress, Sent
<1> QED
  BY <1>1, <1>4, <1>5, <1>6, <1>7, <1>8, <1>9, Kinds, AnswersSingle, FailsSingle, ReturnsSingle

\* A command that ends without its report, at any gate and in any form, has sent
\* nothing, unless it worked on a single bug and ended with an error about a step
\* of it: then it has sent that step at most, and an update whose comment it could
\* not tag (update_single, create_with_sub_steps, clone's `?` on creation; preview,
\* refused input, "Aborted; no changes made", collision).
THEOREM StopsAccountedFor == Spec => []NothingUnreported
<1>1. TypeInv /\ BlockInv /\ SingleInv => NothingUnreported
  <2> SUFFICES ASSUME TypeInv, BlockInv, SingleInv, ended \in Stops
               PROVE  /\ Sent # {} => Single /\ ended = "error"
                      /\ \A w \in Sent : w \in failed \/ (form \in Updates /\ <<w[1], 2>> \in failed)
    BY DEF NothingUnreported, Stops
  <2>1. gate \in Nat /\ Len(Gates[form]) \in Nat
    BY GatesShape DEF TypeInv, Position
  <2>2. CASE gate <= Len(Gates[form])
    BY <2>2 DEF BlockInv, Sent
  <2>3. CASE gate > Len(Gates[form])
    BY <2>3 DEF SingleInv
  <2> QED
    BY <2>1, <2>2, <2>3
<1>2. Init => SingleInv
  <2>1. Init => Sent = {} /\ ended = "no"
    BY DEF Init, Sent
  <2> QED
    BY <2>1 DEF SingleInv, Stops
<1> QED
  BY <1>1, <1>2, InitType, NextType, InitBlock, NextBlock, NextSingle, PTL DEF Spec

\* If one bug of a batch had changed before the command began, none is written,
\* however large the batch is and whatever else changes while it is checked
\* (ensure_unchanged_since, preflight_expect_unchanged_since).
THEOREM CollisionBlocks == Spec => []CollisionBlocksBatch
<1>1. TypeInv /\ BlockInv => CollisionBlocksBatch
  <2> SUFFICES ASSUME TypeInv, BlockInv,
                      NEW n \in DOMAIN items, items[n].guarded, items[n].bug \in stale
               PROVE  Sent = {}
    BY DEF CollisionBlocksBatch
  <2>1. n \in 1..Len(items)
    BY DEF TypeInv
  <2>2. form \in Updates
    BY DEF TypeInv, Meaningful, Forms
  <2>3. ~(gate > CheckAt(form))
    BY <2>1, <2>2 DEF BlockInv, Clean
  <2>4. gate <= Len(Gates[form])
    <3>1. /\ gate \in Nat /\ Len(Gates[form]) \in Nat /\ CheckAt(form) \in Nat
          /\ CheckAt(form) <= Len(Gates[form])
      BY <2>2, GatesShape DEF TypeInv, Position, CheckAt
    <3> QED
      BY <2>3, <3>1
  <2> QED
    BY <2>4 DEF BlockInv, Sent
<1> QED
  BY <1>1, InitType, NextType, InitBlock, NextBlock, PTL DEF Spec

-----------------------------------------------------------------------------
(* The report. *)

\* Step j of item n has been tried, given where the work is.
Tried(n, j) == n < i \/ (n = i /\ j < k)

\* It was made, or the report names it or its bug.
Told(n, j) == <<n, j>> \in applied \/ <<n, j>> \in failed \/ <<n, 1>> \in failed

Named(n) == n \in succeeded \/ \E j \in Nat : <<n, j>> \in failed

NoneAtGates ==
  gate <= Len(Gates[form]) =>
    succeeded = {} /\ (failed = {} \/ (form = "update_json" /\ gate = CheckAt(form)))

SucceededMade == \A n \in succeeded : <<n, 1>> \in applied

TriedTold ==
  gate > Len(Gates[form]) =>
    \A n \in 1..Len(items) : \A j \in 1..Len(Steps(items[n])) : Tried(n, j) => Told(n, j)

FirstMade ==
  gate > Len(Gates[form]) /\ i <= Len(items) /\ k > 1 => <<i, 1>> \in applied

\* A created bug is named as soon as it is made, an update when it is over.
TriedNamed ==
  gate > Len(Gates[form]) =>
    \A n \in 1..Len(items) : n < i \/ (n = i /\ k > 1 /\ form \in Creates) => Named(n)

OneSide ==
  gate > Len(Gates[form]) /\ form \in Updates =>
    /\ \A n \in succeeded : n < i
    /\ \A n \in 1..Len(items) : \A j \in Nat : <<n, j>> \in failed => n < i /\ n \notin succeeded

EndsAll ==
  /\ ended \in {"ok", "failed"} => gate > Len(Gates[form]) /\ i > Len(items)
  /\ ended = "ok" => failed = {}

Accounted ==
  NoneAtGates /\ SucceededMade /\ TriedTold /\ FirstMade /\ TriedNamed /\ OneSide /\ EndsAll

\* A command that ends without a report has none to give.
ReportInv == ended \in Stops \/ Accounted

LEMMA InitReport == Init => Accounted
<1> SUFFICES ASSUME Init PROVE Accounted
  OBVIOUS
<1>1. gate <= Len(Gates[form]) /\ Len(Gates[form]) \in Nat
  <2> DEFINE n == Len(Gates[form])
  <2>1. form \in Forms /\ gate = 1
    BY DEF Init, Forms
  <2>2. n \in 3..6
    BY <2>1, GatesShape
  <2> HIDE DEF n
  <2>3. gate <= n /\ n \in Nat
    BY <2>1, <2>2
  <2> QED
    BY <2>3 DEF n
<1>2. NoneAtGates /\ SucceededMade /\ EndsAll
  BY DEF Init, NoneAtGates, SucceededMade, EndsAll
<1>3. TriedTold /\ FirstMade /\ TriedNamed /\ OneSide
  BY <1>1 DEF Init, TriedTold, FirstMade, TriedNamed, OneSide
<1> QED
  BY <1>2, <1>3 DEF Accounted

\* What is made grows; the rest of the report stays.
LEMMA StillReported ==
  ASSUME TypeInv, Accounted, UNCHANGED <<command, gate, i, k, succeeded, failed>>,
         applied \subseteq applied', EndsAll'
  PROVE  Accounted'
<1>1. form' = form /\ items' = items /\ gate' = gate /\ i' = i /\ k' = k
      /\ succeeded' = succeeded /\ failed' = failed
  BY DEF command
<1>2. \A n, j : (Tried(n, j)' <=> Tried(n, j)) /\ (Told(n, j) => Told(n, j)')
  BY <1>1 DEF Tried, Told
<1>3. \A n : Named(n)' <=> Named(n)
  BY <1>1 DEF Named
<1>4. TriedTold'
  BY <1>1, <1>2 DEF Accounted, TriedTold, Steps
<1>5. TriedNamed'
  BY <1>1, <1>3 DEF Accounted, TriedNamed
<1>6. NoneAtGates' /\ SucceededMade' /\ FirstMade' /\ OneSide'
  BY <1>1 DEF Accounted, NoneAtGates, SucceededMade, FirstMade, OneSide, CheckAt
<1> QED
  BY <1>4, <1>5, <1>6 DEF Accounted

\* At the gates there is nothing to report but collisions.
LEMMA GateReport ==
  ASSUME TypeInv, UNCHANGED <<command, gate>>, gate <= Len(Gates[form]),
         succeeded' = {}, failed' = {} \/ (form = "update_json" /\ gate = CheckAt(form)),
         ended' \notin {"ok", "failed"}
  PROVE  Accounted'
<1>1. form' = form /\ gate' = gate /\ (CheckAt(form))' = CheckAt(form) /\ gate \in Nat
      /\ Len(Gates[form]) \in Nat
  BY GatesShape DEF command, CheckAt, TypeInv, Position
<1>2. ~(gate > Len(Gates[form]))'
  BY <1>1
<1>3. NoneAtGates' /\ SucceededMade' /\ EndsAll'
  BY <1>1 DEF NoneAtGates, SucceededMade, EndsAll
<1>4. TriedTold' /\ FirstMade' /\ TriedNamed' /\ OneSide'
  BY <1>2 DEF TriedTold, FirstMade, TriedNamed, OneSide
<1> QED
  BY <1>3, <1>4 DEF Accounted

LEMMA PassReport ==
  ASSUME TypeInv, Accounted, AtAnyGate, Pass, failed = {}
  PROVE  Accounted'
<1>1. /\ form' = form /\ items' = items /\ i' = 1 /\ k' = 1 /\ ended' = "no" /\ failed' = {}
      /\ succeeded' = succeeded
  BY DEF Pass, command, TypeInv, Position, AtAnyGate
<1>2. succeeded = {}
  BY DEF Accounted, NoneAtGates, AtAnyGate
<1>3. NoneAtGates' /\ SucceededMade' /\ EndsAll'
  BY <1>1, <1>2 DEF NoneAtGates, SucceededMade, EndsAll
<1>4. \A n \in 1..Len(items) : ~(n < i') /\ \A j \in Nat \ {0} : ~(j < k')
  BY <1>1 DEF TypeInv
<1>5. TriedTold'
  BY <1>1, <1>4 DEF TriedTold, Tried
<1>6. FirstMade' /\ TriedNamed' /\ OneSide'
  BY <1>1, <1>2, <1>4 DEF FirstMade, TriedNamed, OneSide
<1> QED
  BY <1>3, <1>5, <1>6 DEF Accounted

LEMMA EndReport ==
  ASSUME TypeInv, Accounted, NEW how \in Stops, End(how)
  PROVE  Accounted'
<1>1. EndsAll'
  BY DEF End, EndsAll, Stops
<1> QED
  BY <1>1, StillReported DEF End, server

LEMMA CheckReport == TypeInv /\ Accounted /\ CheckStep => Accounted'
<1> SUFFICES ASSUME TypeInv, Accounted, CheckStep PROVE Accounted'
  OBVIOUS
<1>1. /\ AtAnyGate /\ form \in Updates /\ gate = CheckAt(form) /\ i \in 1..Len(items)
      /\ Len(items) \in Nat
  BY AtCheck DEF CheckStep, Unchanged, Collision, EarlierCollision, TypeInv
<1>2. succeeded = {} /\ (failed = {} \/ form = "update_json") /\ gate <= Len(Gates[form])
  BY <1>1 DEF AtAnyGate, Accounted, NoneAtGates
<1>3. CASE Unchanged
  <2>1. CASE i < Len(items)
    <3>1. UNCHANGED <<command, gate, succeeded, failed, ended>>
      BY <1>3, <2>1 DEF Unchanged, NextEntry
    <3> QED
      BY <1>1, <1>2, <3>1, GateReport DEF AtAnyGate
  <2>2. CASE i = Len(items)
    <3>1. failed = {} /\ Pass
      BY <1>1, <1>2, <1>3, <2>2 DEF Unchanged, NextEntry
    <3> QED
      BY <1>1, <3>1, PassReport
  <2> QED
    BY <1>1, <2>1, <2>2
<1>4. CASE Collision /\ form = "update_json"
  <2>1. UNCHANGED <<command, gate, succeeded>> /\ ended' \in {"no", "collision"}
    BY <1>1, <1>4 DEF Collision, AtAnyGate
  <2> QED
    BY <1>1, <1>2, <1>4, <2>1, GateReport
<1>5. CASE Collision /\ form # "update_json"
  BY <1>5, EndReport DEF Collision, Stops
<1>6. CASE EarlierCollision
  BY <1>6, EndReport DEF EarlierCollision, Stops
<1> QED
  BY <1>3, <1>4, <1>5, <1>6 DEF CheckStep

LEMMA AnswersReport == TypeInv /\ Accounted /\ Answers => Accounted'
<1> SUFFICES ASSUME TypeInv, Accounted, Answers PROVE Accounted'
  OBVIOUS
<1> DEFINE last == Len(Steps(items[i]))
<1>1. /\ i \in 1..Len(items) /\ k \in 1..last /\ last \in Nat /\ gate > Len(Gates[form])
      /\ ended = "no"
  BY AtWork DEF Answers
<1>2. /\ Done /\ UNCHANGED <<command, gate, ended>> /\ failed' = failed
      /\ applied' = applied \cup {<<i, k>>}
  BY DEF Answers, Acknowledged, Done, Perform
<1>3. \/ k < last /\ i' = i /\ k' = k + 1
      \/ k = last /\ i' = i + 1 /\ k' = 1
  <2>1. Writing /\ NextStep
    BY DEF Answers, Acknowledged, Done
  <2> QED
    BY <1>2, <2>1, NextPlace
<1>4. succeeded' = IF (form \in Creates /\ k = 1) \/ (form \in Updates /\ k = last)
                     THEN succeeded \cup {i} ELSE succeeded
  BY <1>2 DEF Done
<1> HIDE DEF last
<1>5. form' = form /\ items' = items /\ gate' = gate /\ ended' = "no" /\ form \in Updates \cup Creates
  BY <1>1, <1>2 DEF command, TypeInv, Forms
<1>6. k > 1 => <<i, 1>> \in applied
  BY <1>1 DEF Accounted, FirstMade, TypeInv
<1>7. NoneAtGates' /\ EndsAll'
  <2>1. ~(gate' <= Len(Gates[form]))
    BY <1>1, <1>5, GatesShape DEF TypeInv, Position
  <2> QED
    BY <1>5, <2>1 DEF NoneAtGates, EndsAll
<1>8. SucceededMade'
  <2>1. \A n \in succeeded : <<n, 1>> \in applied'
    BY <1>2 DEF SucceededMade, Accounted
  <2>2. <<i, 1>> \in applied'
    BY <1>1, <1>2, <1>6
  <2> QED
    BY <1>4, <2>1, <2>2 DEF SucceededMade
<1>9. TriedTold'
  <2> SUFFICES ASSUME NEW n \in 1..Len(items), NEW j \in 1..Len(Steps(items[n])), Tried(n, j)'
               PROVE  Told(n, j)'
    BY <1>5 DEF TriedTold, Steps
  <2>1. Len(Steps(items[n])) \in Nat
    BY StepsShape DEF TypeInv
  <2>2. Tried(n, j) \/ (n = i /\ j = k)
    BY <1>1, <1>3, <2>1 DEF Tried, last, TypeInv
  <2> QED
    BY <1>1, <1>2, <2>2 DEF Told, Accounted, TriedTold
<1>10. FirstMade'
  <2>1. i' <= Len(items) /\ k' > 1 => i' = i /\ <<i, 1>> \in applied'
    BY <1>1, <1>2, <1>3, <1>6
  <2> QED
    BY <1>5, <2>1 DEF FirstMade
<1>11. TriedNamed'
  <2> SUFFICES ASSUME NEW n \in 1..Len(items), n < i' \/ (n = i' /\ k' > 1 /\ form \in Creates)
               PROVE  Named(n)'
    BY <1>5 DEF TriedNamed
  <2>1. n < i \/ n = i
    BY <1>1, <1>3 DEF TypeInv
  <2>2. CASE n < i
    BY <1>1, <1>2, <1>4, <2>2 DEF Accounted, TriedNamed, Named
  <2>3. CASE n = i /\ form \in Creates
    BY <1>1, <1>2, <1>4, <2>3 DEF Accounted, TriedNamed, Named
  <2>4. CASE n = i /\ form \in Updates /\ form \notin Creates
    BY <1>1, <1>3, <1>4, <2>4 DEF Named
  <2> QED
    BY <1>5, <2>1, <2>2, <2>3, <2>4
<1>12. OneSide'
  <2> SUFFICES ASSUME form \in Updates
               PROVE  /\ \A n \in succeeded' : n < i'
                      /\ \A n \in 1..Len(items) : \A j \in Nat :
                           <<n, j>> \in failed' => n < i' /\ n \notin succeeded'
    BY <1>5 DEF OneSide
  <2>1. /\ \A n \in succeeded : n < i
        /\ \A n \in 1..Len(items) : \A j \in Nat : <<n, j>> \in failed => n < i /\ n \notin succeeded
    BY <1>1 DEF Accounted, OneSide
  <2>2. form \notin Creates
    BY DEF Updates, Creates
  <2>3. \A n \in succeeded : n \in Nat
    BY DEF TypeInv, Reports
  <2> QED
    BY <1>1, <1>2, <1>3, <1>4, <2>1, <2>2, <2>3 DEF TypeInv
<1> QED
  BY <1>7, <1>8, <1>9, <1>10, <1>11, <1>12 DEF Accounted

LEMMA FailsReport == TypeInv /\ Accounted /\ Fails => Accounted'
<1> SUFFICES ASSUME TypeInv, Accounted, Fails PROVE Accounted'
  OBVIOUS
<1> DEFINE last == Len(Steps(items[i]))
<1>1. /\ i \in 1..Len(items) /\ k \in 1..last /\ last \in Nat /\ gate > Len(Gates[form])
      /\ ended = "no"
  BY AtWork DEF Fails
<1>2. /\ UNCHANGED <<command, gate, ended, applied, succeeded>> /\ failed' = failed \cup {<<i, k>>}
      /\ IF k = 1 THEN NextItem ELSE NextStep
  BY DEF Fails, Lingers
<1>3. \/ k > 1 /\ k < last /\ i' = i /\ k' = k + 1
      \/ (k = 1 \/ k = last) /\ i' = i + 1 /\ k' = 1
  <2>1. CASE k = 1
    BY <1>2, <2>1 DEF NextItem
  <2>2. CASE k # 1
    <3>1. Writing /\ NextStep /\ gate' = gate
      BY <1>2, <2>2 DEF Fails, Lingers
    <3> QED
      BY <1>1, <2>2, <3>1, NextPlace
  <2> QED
    BY <2>1, <2>2
<1>4. form \in Updates => last <= 2
  BY AtWork, StepsShape DEF Fails, TypeInv
<1> HIDE DEF last
<1>5. form' = form /\ items' = items /\ gate' = gate /\ ended' = "no" /\ applied' = applied
      /\ succeeded' = succeeded
  BY <1>1, <1>2 DEF command
<1>6. k > 1 => <<i, 1>> \in applied
  BY <1>1 DEF Accounted, FirstMade, TypeInv
<1>7. NoneAtGates' /\ EndsAll'
  <2>1. ~(gate' <= Len(Gates[form]))
    BY <1>1, <1>5, GatesShape DEF TypeInv, Position
  <2> QED
    BY <1>5, <2>1 DEF NoneAtGates, EndsAll
<1>8. SucceededMade'
  BY <1>5 DEF SucceededMade, Accounted
<1>9. TriedTold'
  <2> SUFFICES ASSUME NEW n \in 1..Len(items), NEW j \in 1..Len(Steps(items[n])), Tried(n, j)'
               PROVE  Told(n, j)'
    BY <1>5 DEF TriedTold, Steps
  <2>1. Len(Steps(items[n])) \in Nat
    BY StepsShape DEF TypeInv
  <2>2. Tried(n, j) \/ (n = i /\ (j = k \/ k = 1))
    BY <1>1, <1>3, <2>1 DEF Tried, last, TypeInv
  <2> QED
    BY <1>1, <1>2, <1>5, <2>2 DEF Told, Accounted, TriedTold
<1>10. FirstMade'
  BY <1>1, <1>3, <1>5, <1>6 DEF FirstMade
<1>11. TriedNamed'
  <2> SUFFICES ASSUME NEW n \in 1..Len(items), n < i' \/ (n = i' /\ k' > 1 /\ form \in Creates)
               PROVE  Named(n)'
    BY <1>5 DEF TriedNamed
  <2>1. n < i \/ n = i
    BY <1>1, <1>3 DEF TypeInv
  <2>2. CASE n < i
    BY <1>1, <1>2, <1>5, <2>2 DEF Accounted, TriedNamed, Named
  <2>3. CASE n = i
    BY <1>1, <1>2, <2>3 DEF Named
  <2> QED
    BY <2>1, <2>2, <2>3
<1>12. OneSide'
  <2> SUFFICES ASSUME form \in Updates
               PROVE  /\ \A n \in succeeded' : n < i'
                      /\ \A n \in 1..Len(items) : \A j \in Nat :
                           <<n, j>> \in failed' => n < i' /\ n \notin succeeded'
    BY <1>5 DEF OneSide
  <2>1. /\ \A n \in succeeded : n < i
        /\ \A n \in 1..Len(items) : \A j \in Nat : <<n, j>> \in failed => n < i /\ n \notin succeeded
    BY <1>1 DEF Accounted, OneSide
  <2>2. i' = i + 1
    BY <1>1, <1>3, <1>4
  <2>3. \A n \in succeeded : n \in Nat
    BY DEF TypeInv, Reports
  <2> QED
    BY <1>1, <1>2, <1>5, <2>1, <2>2, <2>3 DEF TypeInv
<1> QED
  BY <1>7, <1>8, <1>9, <1>10, <1>11, <1>12 DEF Accounted

LEMMA NextAccounted == TypeInv /\ Accounted /\ [Next]_vars /\ ~Returns => Accounted'
<1> SUFFICES ASSUME TypeInv, Accounted, [Next]_vars, ~Returns PROVE Accounted'
  OBVIOUS
<1>1. CASE UNCHANGED vars
  BY <1>1, StillReported DEF vars, command, progress, server, Accounted, EndsAll
<1>2. CASE GateStep
  <2>1. failed = {}
    <3>1. ~(form \in Updates /\ gate = CheckAt(form))
      BY <1>2, GatesShape DEF GateStep, AtAnyGate, TypeInv, Position
    <3> QED
      BY <1>2, <3>1 DEF GateStep, AtAnyGate, Accounted, NoneAtGates, Updates
  <2>2. CASE NextEntry /\ i < Len(items)
    <3>1. /\ UNCHANGED <<command, gate, succeeded, failed, ended>> /\ AtAnyGate
          /\ succeeded = {}
      BY <1>2, <2>2 DEF NextEntry, GateStep, AtAnyGate, Accounted, NoneAtGates
    <3> QED
      BY <2>1, <3>1, GateReport DEF AtAnyGate
  <2>3. NextEntry => i < Len(items) \/ Pass
    BY DEF NextEntry
  <2> QED
    BY <1>2, <2>1, <2>2, <2>3, PassReport, EndReport DEF GateStep
<1>3. CASE Report
  <2>1. EndsAll'
    BY <1>3 DEF Report, End, EndsAll, command
  <2> QED
    BY <1>3, <2>1, StillReported DEF Report, End, server
<1>4. CASE LooksUp
  <2>1. EndsAll'
    BY <1>4 DEF LooksUp, EndsAll, Accounted, command
  <2> QED
    BY <1>4, <2>1, StillReported DEF LooksUp, server
<1>5. CASE Late
  <2>1. UNCHANGED <<command, progress>> /\ applied \subseteq applied'
    BY <1>5 DEF Late, Perform
  <2>2. EndsAll'
    BY <2>1 DEF EndsAll, Accounted, command, progress
  <2> QED
    BY <2>1, <2>2, StillReported DEF progress
<1>6. CASE OtherChanges \/ OtherComments
  <2>1. UNCHANGED <<command, progress, applied>>
    BY <1>6 DEF OtherChanges, OtherComments
  <2>2. EndsAll'
    BY <2>1 DEF EndsAll, Accounted, command, progress
  <2> QED
    BY <2>1, <2>2, StillReported DEF progress
<1> QED
  BY <1>1, <1>2, <1>3, <1>4, <1>5, <1>6, Kinds, CheckReport, AnswersReport, FailsReport

LEMMA NextReport == TypeInv /\ ReportInv /\ [Next]_vars => ReportInv'
<1> SUFFICES ASSUME TypeInv, ReportInv, [Next]_vars PROVE ReportInv'
  OBVIOUS
<1>1. CASE Returns
  BY <1>1 DEF Returns, ReportInv, Stops
<1>2. CASE Accounted /\ ~Returns
  BY <1>2, NextAccounted DEF ReportInv
<1>3. CASE ended \in Stops
  <2>1. ended # "no"
    BY <1>3 DEF Stops
  <2>2. ~GateStep /\ ~CheckStep /\ ~Answers /\ ~Fails /\ ~LooksUp /\ ~Report
    BY <2>1, AtCheck DEF GateStep, AtAnyGate, CheckStep, Unchanged, Collision, EarlierCollision,
                         Answers, Fails, LooksUp, Writing, Report
  <2>3. UNCHANGED vars \/ Late \/ OtherChanges \/ OtherComments \/ Returns
    BY <2>2, Kinds
  <2>4. ended' = ended \/ Returns
    BY <2>3 DEF Late, OtherChanges, OtherComments, progress, vars
  <2> QED
    BY <1>1, <1>3, <2>4 DEF ReportInv
<1> QED
  BY <1>1, <1>2, <1>3 DEF ReportInv

\* Whatever is refused or lost, in batches of any size with any number of steps:
\* success is said only when all was done, what is named as written is written,
\* what was not done is named, and no bug is forgotten (execute_updates,
\* compound.rs).
THEOREM ReportsTrue == Spec => []ReportTrue
<1>1. TypeInv /\ ReportInv => ReportTrue
  <2> SUFFICES ASSUME TypeInv, Accounted, ended \in {"ok", "failed"} PROVE ReportTrue
    BY DEF ReportTrue, ReportInv, Stops
  <2>1. gate > Len(Gates[form]) /\ i > Len(items) /\ (ended = "ok" => failed = {})
    BY DEF Accounted, EndsAll
  <2>2. DOMAIN items = 1..Len(items) /\ Len(items) \in Nat /\ i \in Nat
    BY DEF TypeInv, Position
  <2>3. \A n \in 1..Len(items) : n < i
    BY <2>1, <2>2
  <2>4. \A w \in Planned : w \in applied \/ w \in failed \/ <<w[1], 1>> \in failed
    <3> SUFFICES ASSUME NEW w \in Planned
                 PROVE  w \in applied \/ w \in failed \/ <<w[1], 1>> \in failed
      OBVIOUS
    <3>1. PICK n \in 1..Len(items) : \E j \in 1..Len(Steps(items[n])) : w = <<n, j>>
      BY PlannedPairs
    <3>2. PICK j \in 1..Len(Steps(items[n])) : w = <<n, j>>
      BY <3>1
    <3>3. Told(n, j)
      BY <2>1, <2>3 DEF Accounted, TriedTold, Tried
    <3> QED
      BY <3>2, <3>3 DEF Told
  <2>5. ended = "ok" => applied = Planned
    BY <2>1, <2>4 DEF TypeInv, Holds
  <2>6. \A n \in DOMAIN items : n \in succeeded \/ \E f \in failed : f[1] = n
    <3>1. \A n \in 1..Len(items) : Named(n)
      BY <2>1, <2>3 DEF Accounted, TriedNamed
    <3>2. \A n, j : <<n, j>> \in failed => \E f \in failed : f[1] = n
      OBVIOUS
    <3> QED
      BY <2>2, <3>1, <3>2 DEF Named
  <2>7. form \in Updates => \A n \in succeeded : \A f \in failed : f[1] # n
    BY <2>1, <2>2 DEF Accounted, OneSide, TypeInv, Reports
  <2> QED
    BY <2>4, <2>5, <2>6, <2>7 DEF ReportTrue, Accounted, SucceededMade
<1>2. Init => ReportInv
  BY InitReport DEF ReportInv
<1> QED
  BY <1>1, <1>2, InitType, NextType, NextReport, PTL DEF Spec

-----------------------------------------------------------------------------
(* The comment that is tagged. *)

Comments(n) == thread[BugOf(n)]

\* Item n has a comment at c or before it; of a new bug c is the description.
Fine(n, c) ==
  /\ \E m \in 1..c : m <= Len(Comments(n)) /\ Comments(n)[m] = n
  /\ form \in Creates => c = 1

\* Past its first step an item has posted its comment, if it has one.
PostedFirst ==
  i <= Len(items) /\ k > 1 /\ (form \in Creates \/ items[i].comment) =>
    \E m \in 1..Len(Comments(i)) : Comments(i)[m] = i

\* The first comment of a new bug is its description.
DescriptionFirst ==
  form \in Creates => \A n \in 1..Len(items) : Comments(n) # <<>> => Comments(n)[1] = n

TagInv ==
  /\ PostedFirst /\ DescriptionFirst
  /\ found # 0 => Fine(i, found)
  /\ \A w \in late : w[2] # 0 => Fine(w[1][1], w[2])
  /\ \A t \in tagged : Fine(t[1], t[2])

LEMMA InitTag == Init => TagInv
<1> SUFFICES ASSUME Init PROVE TagInv
  OBVIOUS
<1>1. \A n \in 1..Len(items) : BugOf(n) \in Places
  <2>1. PICK n \in 1..MaxItems : items \in [1..n -> Item]
    BY DEF Init
  <2>2. Len(items) = n
    BY <2>1, BugWritesAssumption
  <2> QED
    BY <2>1, <2>2, BugWritesAssumption DEF BugOf, Places, Item
<1>2. DescriptionFirst
  BY <1>1 DEF Init, DescriptionFirst, Comments
<1>3. PostedFirst
  BY DEF Init, PostedFirst
<1> QED
  BY <1>2, <1>3 DEF Init, TagInv

\* No comment is ever removed or moved.
Grown ==
  \A b \in Places :
    /\ Len(thread[b]) <= Len(thread'[b])
    /\ \A m \in 1..Len(thread[b]) : thread'[b][m] = thread[b][m]

\* Fine after the step.
FineThen(n, c) ==
  /\ \E m \in 1..c : m <= Len(thread'[BugOf(n)]) /\ thread'[BugOf(n)][m] = n
  /\ form \in Creates => c = 1

LEMMA FineStays ==
  ASSUME TypeInv, TypeInv', UNCHANGED command, Grown,
         NEW n \in 1..Len(items), NEW c \in Nat, Fine(n, c)
  PROVE  FineThen(n, c)
<1>1. BugOf(n) \in Places /\ form' = form /\ (BugOf(n))' = BugOf(n)
  BY ItemPlaces, CommandFixed DEF command
<1>2. Comments(n) = thread[BugOf(n)] /\ (Comments(n))' = thread'[BugOf(n)]
  BY <1>1 DEF Comments
<1>3. PICK m \in 1..c : m <= Len(Comments(n)) /\ Comments(n)[m] = n
  BY DEF Fine
<1>4. Len(Comments(n)) \in Nat /\ Len((Comments(n))') \in Nat
  <2>1. thread \in [Places -> Seq(0..MaxItems)] /\ thread' \in [Places -> Seq(0..MaxItems)]
    BY DEF TypeInv, Holds, Places
  <2> QED
    BY <1>1, <1>2, <2>1
<1>5. m <= Len((Comments(n))') /\ (Comments(n))'[m] = n
  BY <1>1, <1>2, <1>3, <1>4 DEF Grown
<1> QED
  BY <1>1, <1>2, <1>3, <1>5 DEF Fine, FineThen

LEMMA NothingGrown == UNCHANGED thread => Grown
BY DEF Grown

\* A comment is added at the end of one thread.
LEMMA AppendGrows ==
  ASSUME TypeInv, NEW b \in Places, NEW x \in 0..MaxItems,
         thread' = [thread EXCEPT ![b] = Append(@, x)]
  PROVE  /\ Grown
         /\ Len(thread'[b]) = Len(thread[b]) + 1 /\ thread'[b][Len(thread'[b])] = x
         /\ Len(thread[b]) \in Nat
         /\ \A c \in Places : c # b => thread'[c] = thread[c]
<1>1. \A c \in Places : thread[c] \in Seq(0..MaxItems) /\ Len(thread[c]) \in Nat
  BY DEF TypeInv, Holds
<1>2. thread \in [Places -> Seq(0..MaxItems)]
  BY DEF TypeInv, Holds
<1>3. thread'[b] = Append(thread[b], x) /\ \A c \in Places : c # b => thread'[c] = thread[c]
  BY <1>2
<1>4. /\ Len(Append(thread[b], x)) = Len(thread[b]) + 1
      /\ Append(thread[b], x)[Len(thread[b]) + 1] = x
      /\ \A m \in 1..Len(thread[b]) : Append(thread[b], x)[m] = thread[b][m]
  BY <1>1
<1>5. Grown
  BY <1>1, <1>3, <1>4 DEF Grown
<1> QED
  BY <1>1, <1>3, <1>4, <1>5

LEMMA PerformGrows ==
  ASSUME TypeInv, TagInv, UNCHANGED command,
         NEW n \in 1..Len(items), NEW j, NEW c, Perform(n, j, c)
  PROVE  /\ Grown /\ DescriptionFirst'
         /\ Posts(n, j) => \E m \in 1..Len(thread'[BugOf(n)]) : thread'[BugOf(n)][m] = n
<1>0. /\ form' = form /\ items' = items
      /\ \A m : (BugOf(m))' = BugOf(m) /\ (Comments(m))' = thread'[BugOf(m)]
  BY CommandFixed DEF command, Comments
<1>1. BugOf(n) \in Places /\ n \in 0..MaxItems
  BY ItemPlaces
<1>2. CASE Posts(n, j)
  <2>1. thread' = [thread EXCEPT ![BugOf(n)] = Append(@, n)]
    BY <1>2 DEF Perform
  <2>2. /\ Grown /\ Len(thread'[BugOf(n)]) = Len(thread[BugOf(n)]) + 1
        /\ thread'[BugOf(n)][Len(thread'[BugOf(n)])] = n
        /\ Len(thread[BugOf(n)]) \in Nat
        /\ \A b \in Places : b # BugOf(n) => thread'[b] = thread[b]
    BY <1>1, <2>1, AppendGrows
  <2>3. \E m \in 1..Len(thread'[BugOf(n)]) : thread'[BugOf(n)][m] = n
    BY <2>2
  <2>4. DescriptionFirst'
    <3> SUFFICES ASSUME form \in Creates, NEW o \in 1..Len(items), (Comments(o))' # <<>>
                 PROVE  (Comments(o))'[1] = o
      BY <1>0 DEF DescriptionFirst
    <3>1. BugOf(o) = o /\ BugOf(n) = n /\ o \in Places
      BY ItemPlaces DEF BugOf, Updates, Creates
    <3>2. Comments(o) = thread[o] /\ (Comments(o))' = thread'[o]
      BY <1>0, <3>1 DEF Comments
    <3>3. thread[o] \in Seq(0..MaxItems)
      BY <3>1 DEF TypeInv, Holds
    <3>4. CASE o # n
      BY <2>2, <3>1, <3>2, <3>4 DEF TagInv, DescriptionFirst
    <3>5. CASE o = n /\ thread[o] = <<>>
      BY <2>2, <3>1, <3>2, <3>5
    <3>6. CASE o = n /\ thread[o] # <<>>
      <4>1. thread[o][1] = o /\ 1 \in 1..Len(thread[o])
        BY <3>2, <3>3, <3>6 DEF TagInv, DescriptionFirst
      <4> QED
        BY <2>2, <3>1, <3>2, <4>1 DEF Grown
    <3> QED
      BY <3>4, <3>5, <3>6
  <2> QED
    BY <2>2, <2>3, <2>4
<1>3. CASE ~Posts(n, j)
  <2>1. thread' = thread
    BY <1>3 DEF Perform
  <2>2. DescriptionFirst'
    BY <1>0, <2>1 DEF TagInv, DescriptionFirst, Comments
  <2> QED
    BY <1>3, <2>1, <2>2, NothingGrown
<1> QED
  BY <1>2, <1>3

\* What a step must show, when comments are only added.
LEMMA TagKept ==
  ASSUME TypeInv, TypeInv', TagInv, UNCHANGED command, Grown, PostedFirst', DescriptionFirst',
         found' # 0 => i' = i /\ Fine(i, found'),
         \A w \in late' : w \in late \/ w = <<<<i, k>>, found>>,
         \A t \in tagged' : \/ t \in tagged
                            \/ found # 0 /\ t = <<i, found>>
                            \/ \E w \in late : w[2] # 0 /\ t = <<w[1][1], w[2]>>
  PROVE  TagInv'
<1>1. found # 0 => i \in 1..Len(items) /\ Fine(i, found)
  BY DEF TypeInv, Position, TagInv
<1>2. found \in Nat /\ found' \in Nat /\ (found' # 0 => i \in 1..Len(items))
  <2>1. items' = items
    BY DEF command
  <2> QED
    BY <2>1 DEF TypeInv, Position
<1>3. \A w \in late : /\ w[1][1] \in 1..Len(items) /\ w[2] \in Nat
                      /\ w[2] # 0 => Fine(w[1][1], w[2])
  <2> SUFFICES ASSUME NEW w \in late
               PROVE  w[1][1] \in 1..Len(items) /\ w[2] \in Nat /\ (w[2] # 0 => Fine(w[1][1], w[2]))
    OBVIOUS
  <2>1. w[1] \in Planned /\ w[2] \in Nat
    BY DEF TypeInv, Holds
  <2>2. w[1][1] \in 1..Len(items)
    BY <2>1, PlannedPairs
  <2> QED
    BY <2>1, <2>2 DEF TagInv
<1>4. \A t \in tagged : t[1] \in 1..Len(items) /\ t[2] \in Nat /\ Fine(t[1], t[2])
  BY DEF TypeInv, Holds, TagInv
<1>5. \A n \in 1..Len(items) : \A c \in Nat : Fine(n, c) => FineThen(n, c)
  BY FineStays
<1>6. found' # 0 => FineThen(i', found')
  BY <1>2, <1>5
<1>7. \A w \in late' : w[2] # 0 => FineThen(w[1][1], w[2])
  <2> SUFFICES ASSUME NEW w \in late', w[2] # 0 PROVE FineThen(w[1][1], w[2])
    OBVIOUS
  <2>1. CASE w \in late
    BY <1>3, <1>5, <2>1
  <2>2. CASE w = <<<<i, k>>, found>>
    <3>1. w[1][1] = i /\ w[2] = found
      BY <2>2
    <3> QED
      BY <1>1, <1>2, <1>5, <3>1
  <2> QED
    BY <2>1, <2>2
<1>8. \A t \in tagged' : FineThen(t[1], t[2])
  <2> SUFFICES ASSUME NEW t \in tagged' PROVE FineThen(t[1], t[2])
    OBVIOUS
  <2>1. CASE t \in tagged
    BY <1>4, <1>5, <2>1
  <2>2. CASE found # 0 /\ t = <<i, found>>
    BY <1>1, <1>2, <1>5, <2>2
  <2>3. CASE \E w \in late : w[2] # 0 /\ t = <<w[1][1], w[2]>>
    <3>1. PICK w \in late : w[2] # 0 /\ t = <<w[1][1], w[2]>>
      BY <2>3
    <3>2. t[1] = w[1][1] /\ t[2] = w[2]
      BY <3>1
    <3> QED
      BY <1>3, <1>5, <3>1, <3>2
  <2> QED
    BY <2>1, <2>2, <2>3
<1>9. form' = form /\ items' = items
  BY DEF command
<1>10. (found # 0 => Fine(i, found))'
  BY <1>6, <1>9 DEF Fine, FineThen, Comments, BugOf
<1>11. (\A w \in late : w[2] # 0 => Fine(w[1][1], w[2]))'
  BY <1>7, <1>9 DEF Fine, FineThen, Comments, BugOf
<1>12. (\A t \in tagged : Fine(t[1], t[2]))'
  BY <1>8, <1>9 DEF Fine, FineThen, Comments, BugOf
<1> QED
  BY <1>10, <1>11, <1>12 DEF TagInv

\* Steps that leave the server's comments and tags alone.
LEMMA TagStill ==
  ASSUME TypeInv, TypeInv', TagInv, UNCHANGED <<command, thread, late, tagged>>,
         k' = 1 \/ UNCHANGED <<i, k>>, found' = 0 \/ UNCHANGED <<i, found>>
  PROVE  TagInv'
<1>1. form' = form /\ items' = items /\ thread' = thread
  BY DEF command
<1>2. PostedFirst'
  BY <1>1 DEF TagInv, PostedFirst, Comments, BugOf
<1>3. DescriptionFirst'
  BY <1>1 DEF TagInv, DescriptionFirst, Comments, BugOf
<1>4. found' # 0 => i' = i /\ Fine(i, found')
  BY DEF TagInv
<1> QED
  BY <1>1, <1>2, <1>3, <1>4, NothingGrown, TagKept

\* Where the next step is of the same item, its first step has posted.
LEMMA AnswersTag == TypeInv /\ TypeInv' /\ TagInv /\ Answers => TagInv'
<1> SUFFICES ASSUME TypeInv, TypeInv', TagInv, Answers PROVE TagInv'
  OBVIOUS
<1>1. /\ i \in 1..Len(items) /\ items[i] \in Item /\ k \in 1..Len(Steps(items[i]))
  BY AtWork DEF Answers
<1>2. UNCHANGED <<command, gate, late>> /\ NextStep /\ Perform(i, k, found) /\ Writing
  BY DEF Answers, Acknowledged, Done
<1>3. found' = 0 /\ ((i' = i /\ k' = k + 1) \/ k' = 1)
  BY <1>2, NextPlace
<1>4. /\ Grown /\ DescriptionFirst'
      /\ Posts(i, k) => \E m \in 1..Len(thread'[BugOf(i)]) : thread'[BugOf(i)][m] = i
  BY <1>1, <1>2, PerformGrows
<1>5. PostedFirst'
  <2> SUFFICES ASSUME i' = i, form \in Creates \/ items[i].comment
               PROVE  \E m \in 1..Len(thread'[BugOf(i)]) : thread'[BugOf(i)][m] = i
    BY <1>2, <1>3 DEF PostedFirst, Comments, BugOf, command
  <2>2. CASE k = 1
    <3>1. Steps(items[i])[1] = IF form \in Updates THEN "update" ELSE "create"
      BY <1>1, StepsShape DEF TypeInv
    <3>2. Posts(i, k)
      BY <2>2, <3>1 DEF Posts, Updates, Creates
    <3> QED
      BY <1>4, <3>2
  <2>3. CASE k > 1
    <3>1. PICK m \in 1..Len(thread[BugOf(i)]) : thread[BugOf(i)][m] = i
      BY <1>1, <2>3 DEF TagInv, PostedFirst, Comments, TypeInv
    <3>2. BugOf(i) \in Places
      BY <1>1, ItemPlaces
    <3>3. thread'[BugOf(i)][m] = i /\ Len(thread[BugOf(i)]) <= Len(thread'[BugOf(i)])
      BY <1>4, <3>1, <3>2 DEF Grown
    <3>4. Len(thread[BugOf(i)]) \in Nat /\ Len(thread'[BugOf(i)]) \in Nat
      <4>1. thread \in [Places -> Seq(0..MaxItems)] /\ thread' \in [Places -> Seq(0..MaxItems)]
        BY DEF TypeInv, Holds, Places
      <4> QED
        BY <3>2, <4>1
    <3> QED
      BY <3>1, <3>3, <3>4
  <2>4. k = 1 \/ k > 1
    BY <1>1 DEF TypeInv, Position
  <2> QED
    BY <2>2, <2>3, <2>4
<1>6. \A t \in tagged' : t \in tagged \/ (found # 0 /\ t = <<i, found>>)
  BY <1>2 DEF Perform
<1> QED
  BY <1>2, <1>3, <1>4, <1>5, <1>6, TagKept

LEMMA FailsTag == TypeInv /\ TypeInv' /\ TagInv /\ Fails => TagInv'
<1> SUFFICES ASSUME TypeInv, TypeInv', TagInv, Fails PROVE TagInv'
  OBVIOUS
<1>1. UNCHANGED <<command, thread, tagged, gate>> /\ Writing /\ (IF k = 1 THEN NextItem ELSE NextStep)
  BY DEF Fails, Lingers
<1>2. found' = 0 /\ ((i' = i /\ k' = k + 1 /\ k # 1) \/ k' = 1)
  BY <1>1, NextPlace DEF NextItem
<1>3. form' = form /\ items' = items /\ thread' = thread
  BY <1>1 DEF command
<1>4. PostedFirst'
  <2>1. k \in Nat \ {0}
    BY DEF TypeInv, Position
  <2> QED
    BY <1>2, <1>3, <2>1 DEF TagInv, PostedFirst, Comments, BugOf
<1>5. DescriptionFirst'
  BY <1>3 DEF TagInv, DescriptionFirst, Comments, BugOf
<1>6. \A w \in late' : w \in late \/ w = <<<<i, k>>, found>>
  BY DEF Fails, Lingers
<1> QED
  BY <1>1, <1>2, <1>4, <1>5, <1>6, NothingGrown, TagKept

LEMMA ReturnsTag == TypeInv /\ TypeInv' /\ TagInv /\ Returns => TagInv'
<1> SUFFICES ASSUME TypeInv, TypeInv', TagInv, Returns PROVE TagInv'
  OBVIOUS
<1>1. UNCHANGED <<command, thread, tagged, i, k, found>>
  BY DEF Returns, Lingers
<1>2. form' = form /\ items' = items /\ thread' = thread
  BY <1>1 DEF command
<1>3. PostedFirst' /\ DescriptionFirst'
  BY <1>1, <1>2 DEF TagInv, PostedFirst, DescriptionFirst, Comments, BugOf
<1>4. found' # 0 => i' = i /\ Fine(i, found')
  BY <1>1 DEF TagInv
<1>5. \A w \in late' : w \in late \/ w = <<<<i, k>>, found>>
  BY DEF Returns, Lingers
<1> QED
  BY <1>1, <1>3, <1>4, <1>5, NothingGrown, TagKept

\* The comment that is looked up is the item's own or a later one.
LEMMA LooksUpTag == TypeInv /\ TypeInv' /\ TagInv /\ LooksUp => TagInv'
<1> SUFFICES ASSUME TypeInv, TypeInv', TagInv, LooksUp PROVE TagInv'
  OBVIOUS
<1>1. i \in 1..Len(items) /\ items[i] \in Item /\ k \in 1..Len(Steps(items[i]))
  BY AtWork DEF LooksUp
<1>2. Steps(items[i])[k] = "tags" /\ UNCHANGED <<command, i, k, server>>
  BY DEF LooksUp
<1>3. items[i].tags /\ k = 2
  BY <1>1, <1>2, StepsShape DEF TypeInv
<1>4. form \in Creates \/ items[i].comment
  BY <1>1, <1>3 DEF TypeInv, Meaningful, Forms
<1>5. PICK m \in 1..Len(Comments(i)) : Comments(i)[m] = i
  BY <1>1, <1>3, <1>4 DEF TagInv, PostedFirst, TypeInv
<1>6. Comments(i) \in Seq(0..MaxItems)
  BY <1>1, ItemPlaces DEF TypeInv, Holds, Comments
<1>7. Fine(i, found')
  <2>1. CASE form \in Creates
    <3>1. found' = 1 /\ Comments(i) # <<>> /\ 1 <= Len(Comments(i))
      BY <1>5, <1>6, <2>1 DEF LooksUp
    <3>2. Comments(i)[1] = i
      BY <1>1, <2>1, <3>1 DEF TagInv, DescriptionFirst
    <3> QED
      BY <3>1, <3>2 DEF Fine
  <2>2. CASE form \notin Creates
    <3>1. found' = Len(Comments(i))
      BY <2>2 DEF LooksUp, Latest, Comments
    <3> QED
      BY <1>5, <1>6, <2>2, <3>1 DEF Fine
  <2> QED
    BY <2>1, <2>2
<1>8. form' = form /\ items' = items /\ thread' = thread
  BY <1>2 DEF command, server
<1>9. PostedFirst'
  BY <1>2, <1>8 DEF TagInv, PostedFirst, Comments, BugOf
<1>10. DescriptionFirst'
  BY <1>8 DEF TagInv, DescriptionFirst, Comments, BugOf
<1> QED
  BY <1>2, <1>7, <1>8, <1>9, <1>10, NothingGrown, TagKept DEF server

\* Whatever only adds comments keeps what was posted.
LEMMA PostedStays ==
  ASSUME TypeInv, TypeInv', TagInv, UNCHANGED <<command, i, k>>, Grown
  PROVE  PostedFirst'
<1>1. form' = form /\ items' = items /\ i' = i /\ k' = k
  BY DEF command
<1> SUFFICES ASSUME i <= Len(items), k > 1, form \in Creates \/ items[i].comment
             PROVE  \E m \in 1..Len(thread'[BugOf(i)]) : thread'[BugOf(i)][m] = i
  BY <1>1 DEF PostedFirst, Comments, BugOf
<1>2. PICK m \in 1..Len(thread[BugOf(i)]) : thread[BugOf(i)][m] = i
  BY DEF TagInv, PostedFirst, Comments
<1>3. BugOf(i) \in Places
  BY ItemPlaces DEF TypeInv, Position
<1>4. Len(thread[BugOf(i)]) \in Nat /\ Len(thread'[BugOf(i)]) \in Nat
  <2>1. thread \in [Places -> Seq(0..MaxItems)] /\ thread' \in [Places -> Seq(0..MaxItems)]
    BY DEF TypeInv, Holds, Places
  <2> QED
    BY <1>3, <2>1
<1>5. m \in 1..Len(thread'[BugOf(i)]) /\ thread'[BugOf(i)][m] = i
  BY <1>2, <1>3, <1>4 DEF Grown
<1> QED
  BY <1>5

LEMMA LateTag == TypeInv /\ TypeInv' /\ TagInv /\ Late => TagInv'
<1> SUFFICES ASSUME TypeInv, TypeInv', TagInv, Late PROVE TagInv'
  OBVIOUS
<1>1. PICK w \in late : /\ late' = late \ {w} /\ Perform(w[1][1], w[1][2], w[2])
                        /\ UNCHANGED <<command, progress, changed, others>>
  BY DEF Late
<1>2. w[1] \in Planned
  BY DEF TypeInv, Holds
<1>3. w[1][1] \in 1..Len(items)
  BY <1>2, PlannedPairs
<1>4. Grown /\ DescriptionFirst'
  BY <1>1, <1>3, PerformGrows
<1>5. PostedFirst'
  BY <1>1, <1>4, PostedStays DEF progress
<1>6. found' # 0 => i' = i /\ Fine(i, found')
  BY <1>1 DEF progress, TagInv
<1>7. \A t \in tagged' : t \in tagged \/ (w[2] # 0 /\ t = <<w[1][1], w[2]>>)
  BY <1>1 DEF Perform
<1> QED
  BY <1>1, <1>4, <1>5, <1>6, <1>7, TagKept

LEMMA OtherCommentsTag == TypeInv /\ TypeInv' /\ TagInv /\ OtherComments => TagInv'
<1> SUFFICES ASSUME TypeInv, TypeInv', TagInv, OtherComments PROVE TagInv'
  OBVIOUS
<1>1. UNCHANGED <<command, progress, late, tagged>>
  BY DEF OtherComments
<1>2. PICK b \in Places : /\ form \in Creates => thread[b] # <<>>
                          /\ thread' = [thread EXCEPT ![b] = Append(@, 0)]
  BY DEF OtherComments
<1>3. 0 \in 0..MaxItems
  BY BugWritesAssumption
<1>4. Grown /\ \A c \in Places : c # b => thread'[c] = thread[c]
  BY <1>2, <1>3, AppendGrows
<1>5. DescriptionFirst'
  <2>1. form' = form /\ items' = items
    BY <1>1 DEF command
  <2> SUFFICES ASSUME form \in Creates, NEW n \in 1..Len(items), thread'[BugOf(n)] # <<>>
               PROVE  thread'[BugOf(n)][1] = n
    BY <2>1 DEF DescriptionFirst, Comments, BugOf
  <2>2. BugOf(n) \in Places /\ thread[BugOf(n)] \in Seq(0..MaxItems)
    BY ItemPlaces DEF TypeInv, Holds
  <2>3. thread[BugOf(n)] # <<>>
    BY <1>2, <1>4, <2>2
  <2>4. thread[BugOf(n)][1] = n /\ 1 \in 1..Len(thread[BugOf(n)])
    BY <2>2, <2>3 DEF TagInv, DescriptionFirst, Comments
  <2> QED
    BY <1>4, <2>2, <2>4 DEF Grown
<1>6. PostedFirst'
  BY <1>1, <1>4, PostedStays DEF progress
<1>7. found' # 0 => i' = i /\ Fine(i, found')
  BY <1>1 DEF progress, TagInv
<1> QED
  BY <1>1, <1>4, <1>5, <1>6, <1>7, TagKept

LEMMA NextTag == TypeInv /\ TypeInv' /\ TagInv /\ [Next]_vars => TagInv'
<1> SUFFICES ASSUME TypeInv, TypeInv', TagInv, [Next]_vars PROVE TagInv'
  OBVIOUS
<1>1. CASE UNCHANGED vars
  BY <1>1, TagStill DEF vars, progress, server
<1>2. CASE GateStep \/ CheckStep
  <2>1. k = 1 /\ found = 0
    BY <1>2, AtCheck DEF GateStep, AtAnyGate, CheckStep, Unchanged, Collision, EarlierCollision,
                         TypeInv, Position
  <2>2. UNCHANGED <<command, k, found, server>>
    BY <1>2 DEF GateStep, CheckStep, Unchanged, NextEntry, Collision, EarlierCollision, Pass, End
  <2> QED
    BY <2>1, <2>2, TagStill DEF server
<1>3. CASE Report \/ OtherChanges
  BY <1>3, TagStill DEF Report, End, OtherChanges, progress, server
<1> QED
  BY <1>1, <1>2, <1>3, Kinds, AnswersTag, FailsTag, ReturnsTag, LooksUpTag, LateTag,
     OtherCommentsTag

\* Tags never land on a comment older than the item's own, nor in a new bug on
\* anything but its description, though other users comment at any time and a
\* write whose answer was lost is made late (find_latest_comment_id,
\* tag_description_comment).
THEOREM TagsLand == Spec => []TagsNotOlder
<1>1. TypeInv /\ TagInv => TagsNotOlder
  BY DEF TagInv, TagsNotOlder, Fine, Comments
<1> QED
  BY <1>1, InitType, NextType, InitTag, NextTag, PTL DEF Spec


\* A template that is about to be saved has been looked at; the processes are
\* records with a stage.
SavesUsable ==
  \A m \in Makers :
    maker[m].stage = "store" /\ maker[m].order.kind = "save" => Usable(maker[m].order.given)
Staged == DOMAIN maker = Makers /\ \A m \in Makers : "stage" \in DOMAIN maker[m]

IInv == TemplatesUsable /\ SavesUsable /\ Staged

LEMMA InitUsable == NewBugInit => IInv
<1> SUFFICES ASSUME NewBugInit PROVE IInv
  OBVIOUS
<1>1. TemplatesUsable
  BY NewBugAssumption DEF NewBugInit, TemplatesUsable
<1>2. SavesUsable /\ Staged
  BY DEF NewBugInit, SavesUsable, Staged, Taken, NoOrder
<1> QED
  BY <1>1, <1>2 DEF IInv

\* A step of a process that leaves the file alone, to a stage that is not "store".
LEMMA StepUsable ==
  ASSUME IInv, NEW m \in Makers, NEW w, "stage" \in DOMAIN w, w.stage # "store", Step(m, w)
  PROVE  IInv'
<1>1. TemplatesUsable'
  BY DEF IInv, TemplatesUsable, Step
<1>2. maker' = [maker EXCEPT ![m] = w]
  BY DEF Step
<1>3. SavesUsable' /\ Staged'
  BY <1>2 DEF IInv, SavesUsable, Staged
<1> QED
  BY <1>1, <1>3 DEF IInv

\* So does a process that gives up.
LEMMA RefuseUsable ==
  ASSUME IInv, NEW m \in Makers, Refuse(m)
  PROVE  IInv'
<1> DEFINE w == [maker[m] EXCEPT !.stage = "failed"]
<1>1. "stage" \in DOMAIN w /\ w.stage # "store"
  BY DEF IInv, Staged
<1>2. Step(m, w)
  BY DEF Refuse
<1> QED
  BY <1>1, <1>2, StepUsable

LEMMA BeginUsable ==
  ASSUME IInv, NEW m \in Makers, BeginOrder(m)
  PROVE  IInv'
<1>1. PICK o \in Orders : maker' = [maker EXCEPT ![m] = Taken(o, FirstStage(o))]
  BY DEF BeginOrder
<1>3. Taken(o, FirstStage(o)).stage = FirstStage(o) /\ Taken(o, FirstStage(o)).order = o
      /\ "stage" \in DOMAIN Taken(o, FirstStage(o))
  BY DEF Taken
<1>4. FirstStage(o) = "store" /\ o.kind = "save" => Usable(o.given)
  BY DEF FirstStage, Refused
<1>5. SavesUsable' /\ Staged'
  BY <1>1, <1>3, <1>4 DEF IInv, SavesUsable, Staged
<1>6. TemplatesUsable'
  BY DEF BeginOrder, IInv, TemplatesUsable
<1> QED
  BY <1>5, <1>6 DEF IInv

\* A write of the file ends its command.
LEMMA StoreUsable ==
  ASSUME IInv, NEW m \in Makers, NEW new, Store(m, new), \A t \in DOMAIN new : Usable(new[t])
  PROVE  IInv'
<1>1. TemplatesUsable'
  BY DEF Store, TemplatesUsable
<1>2. maker' = [maker EXCEPT ![m] = [maker[m] EXCEPT !.stage = "done"]]
  BY DEF Store
<1>3. [maker[m] EXCEPT !.stage = "done"].stage = "done"
      /\ "stage" \in DOMAIN [maker[m] EXCEPT !.stage = "done"]
  BY DEF IInv, Staged
<1>4. SavesUsable' /\ Staged'
  BY <1>2, <1>3 DEF IInv, SavesUsable, Staged
<1> QED
  BY <1>1, <1>4 DEF IInv

LEMMA SaveUsable ==
  ASSUME IInv, NEW m \in Makers, SaveTemplate(m)
  PROVE  IInv'
<1> DEFINE o == maker[m].order
           new == [t \in DOMAIN templates \cup {o.name} |-> IF t = o.name THEN o.given ELSE templates[t]]
<1>1. Usable(o.given)
  BY DEF SaveTemplate, At, IInv, SavesUsable
<1>2. \A t \in DOMAIN new : new[t] = o.given \/ (t \in DOMAIN templates /\ new[t] = templates[t])
  OBVIOUS
<1>3. \A t \in DOMAIN new : Usable(new[t])
  BY <1>1, <1>2 DEF IInv, TemplatesUsable
<1>4. Store(m, new)
  BY DEF SaveTemplate
<1> QED
  BY <1>3, <1>4, StoreUsable

LEMMA UpdateUsable ==
  ASSUME IInv, NEW m \in Makers, UpdateTemplate(m)
  PROVE  IInv'
<1> DEFINE o == maker[m].order
           new == [templates EXCEPT ![o.name] = Changed(templates[o.name], o)]
<1>1. CASE Refuse(m)
  BY <1>1, RefuseUsable
<1>2. CASE ~ChangeRefused(templates[o.name], o) /\ Store(m, new)
  <2>1. Usable(Changed(templates[o.name], o))
    BY <1>2 DEF ChangeRefused
  <2>2. \A t \in DOMAIN new : Usable(new[t])
    BY <2>1 DEF IInv, TemplatesUsable
  <2> QED
    BY <1>2, <2>2, StoreUsable
<1> QED
  BY <1>1, <1>2 DEF UpdateTemplate

LEMMA DeleteUsable ==
  ASSUME IInv, NEW m \in Makers, DeleteTemplate(m)
  PROVE  IInv'
<1> DEFINE new == Only(templates, DOMAIN templates \ {maker[m].order.name})
<1>1. CASE Refuse(m)
  BY <1>1, RefuseUsable
<1>2. CASE Store(m, new)
  <2>1. \A t \in DOMAIN new : t \in DOMAIN templates /\ new[t] = templates[t]
    BY DEF Only
  <2>2. \A t \in DOMAIN new : Usable(new[t])
    BY <2>1 DEF IInv, TemplatesUsable
  <2> QED
    BY <1>2, <2>2, StoreUsable
<1> QED
  BY <1>1, <1>2 DEF DeleteTemplate

-----------------------------------------------------------------------------
(* The steps of `bug create` read the file and never write it. *)

\* A command that goes on with what it has read of a source.
LEMMA ReadKeeps ==
  ASSUME IInv, NEW m \in Makers, NEW source
  PROVE  "stage" \in DOMAIN After(maker[m], source)
BY DEF IInv, Staged, After

LEMMA ResolveUsable ==
  ASSUME IInv, NEW m \in Makers, ResolveDescription(m)
  PROVE  IInv'
<1> DEFINE w == maker[m]
           source == IF w.order.description.from # "none" THEN w.order.description
                     ELSE IF w.order.tty THEN NoSource ELSE Stdin
           open == [w EXCEPT !.stage = "template"]
           described == [After(w, source) EXCEPT !.stage = "template",
                                                 !.description = <<Read(w, source).lines>>]
<1>1. Refuse(m) \/ Step(m, open) \/ Step(m, described)
  BY DEF ResolveDescription
<1>2. "stage" \in DOMAIN open /\ open.stage # "store"
  BY DEF IInv, Staged
<1>3. "stage" \in DOMAIN described /\ described.stage # "store"
  BY ReadKeeps
<1> HIDE DEF open, described
<1> QED
  BY <1>1, <1>2, <1>3, RefuseUsable, StepUsable

LEMMA LoadUsable ==
  ASSUME IInv, NEW m \in Makers, LoadTemplate(m)
  PROVE  IInv'
<1>1. Refuse(m) \/ \E t : Step(m, [maker[m] EXCEPT !.stage = "compose", !.template = t])
  BY DEF LoadTemplate
<1>2. ASSUME NEW t
      PROVE  LET w == [maker[m] EXCEPT !.stage = "compose", !.template = t]
             IN  "stage" \in DOMAIN w /\ w.stage # "store"
  BY DEF IInv, Staged
<1> QED
  BY <1>1, <1>2, RefuseUsable, StepUsable

LEMMA ComposeUsable ==
  ASSUME IInv, NEW m \in Makers, Compose(m)
  PROVE  IInv'
<1>1. Refuse(m) \/ \E summary, description : Step(m, Composed(maker[m], summary, description))
  BY DEF Compose, Parsed
<1>2. ASSUME NEW summary, NEW description
      PROVE  /\ "stage" \in DOMAIN Composed(maker[m], summary, description)
             /\ Composed(maker[m], summary, description).stage # "store"
  BY DEF IInv, Staged, Composed
<1> QED
  BY <1>1, <1>2, RefuseUsable, StepUsable

LEMMA ExtraUsable ==
  ASSUME IInv, NEW m \in Makers, ParseExtra(m)
  PROVE  IInv'
<1> DEFINE parsed(stage, extra) ==
             [After(maker[m], maker[m].order.fieldJson) EXCEPT !.stage = stage, !.extra = extra]
<1>1. Refuse(m) \/ \E extra : Step(m, parsed("check", extra)) \/ Step(m, parsed("json", extra))
  BY DEF ParseExtra
<1>2. ASSUME NEW stage, stage # "store", NEW extra
      PROVE  "stage" \in DOMAIN parsed(stage, extra) /\ parsed(stage, extra).stage # "store"
  BY <1>2, ReadKeeps
<1> HIDE DEF parsed
<1> QED
  BY <1>1, <1>2, RefuseUsable, StepUsable

LEMMA CheckUsable ==
  ASSUME IInv, NEW m \in Makers, CheckFlags(m)
  PROVE  IInv'
<1> DEFINE checked(ready) == [maker[m] EXCEPT !.stage = "send", !.ready = ready]
<1>1. Refuse(m) \/ \E ready : Step(m, checked(ready))
  BY DEF CheckFlags
<1>2. ASSUME NEW ready
      PROVE  "stage" \in DOMAIN checked(ready) /\ checked(ready).stage # "store"
  BY DEF IInv, Staged
<1> HIDE DEF checked
<1> QED
  BY <1>1, <1>2, RefuseUsable, StepUsable

LEMMA JsonUsable ==
  ASSUME IInv, NEW m \in Makers, ReadJson(m)
  PROVE  IInv'
<1> DEFINE read(elements) ==
             [After(maker[m], maker[m].order.json) EXCEPT !.stage = "overlay", !.elements = elements]
<1>1. Refuse(m) \/ \E elements : Step(m, read(elements))
  BY DEF ReadJson
<1>2. ASSUME NEW elements
      PROVE  "stage" \in DOMAIN read(elements) /\ read(elements).stage # "store"
  BY ReadKeeps
<1> HIDE DEF read
<1> QED
  BY <1>1, <1>2, RefuseUsable, StepUsable

LEMMA OverlayUsable ==
  ASSUME IInv, NEW m \in Makers, OverlayElement(m)
  PROVE  IInv'
<1> DEFINE w == maker[m]
           laid(payload) ==
             [After(w, w.order.description) EXCEPT
                !.elements = Tail(@), !.ready = Append(@, payload),
                !.stage = IF Len(w.elements) = 1 THEN "send" ELSE "overlay"]
<1>1. Refuse(m) \/ \E payload : Step(m, laid(payload))
  BY DEF OverlayElement
<1>2. ASSUME NEW payload
      PROVE  "stage" \in DOMAIN laid(payload) /\ laid(payload).stage # "store"
  BY ReadKeeps
<1> HIDE DEF laid
<1> QED
  BY <1>1, <1>2, RefuseUsable, StepUsable

LEMMA PreflightUsable ==
  ASSUME IInv, NEW m \in Makers, Preflight(m)
  PROVE  IInv'
<1> DEFINE goes(stage) == [maker[m] EXCEPT !.stage = stage]
<1>1. Refuse(m) \/ Step(m, goes("done")) \/ Step(m, goes("file"))
  BY DEF Preflight
<1>2. ASSUME NEW stage, stage # "store"
      PROVE  "stage" \in DOMAIN goes(stage) /\ goes(stage).stage # "store"
  BY <1>2 DEF IInv, Staged
<1> HIDE DEF goes
<1> QED
  BY <1>1, <1>2, RefuseUsable, StepUsable

LEMMA FileUsable ==
  ASSUME IInv, NEW m \in Makers, File(m)
  PROVE  IInv'
<1> DEFINE w == maker[m]
           next == [w EXCEPT !.ready = Tail(@), !.stage = IF Len(w.ready) = 1 THEN "done" ELSE "file"]
           filed == [next EXCEPT !.filed = Append(@, Head(w.ready))]
<1>1. Step(m, next) \/ Step(m, filed)
  BY DEF File
<1>2. "stage" \in DOMAIN next /\ next.stage # "store"
  BY DEF IInv, Staged
<1>3. "stage" \in DOMAIN filed /\ filed.stage # "store"
  BY DEF IInv, Staged
<1> HIDE DEF next, filed
<1> QED
  BY <1>1, <1>2, <1>3, StepUsable

-----------------------------------------------------------------------------
LEMMA NextUsable == IInv /\ [NewBugNext]_makerVars => IInv'
<1> SUFFICES ASSUME IInv, [NewBugNext]_makerVars PROVE IInv'
  OBVIOUS
<1>1. CASE UNCHANGED makerVars
  BY <1>1 DEF makerVars, IInv, TemplatesUsable, SavesUsable, Staged
<1>2. ASSUME NEW m \in Makers,
             \/ BeginOrder(m) \/ SaveTemplate(m) \/ UpdateTemplate(m) \/ DeleteTemplate(m)
             \/ ResolveDescription(m) \/ LoadTemplate(m) \/ Compose(m) \/ ParseExtra(m)
             \/ CheckFlags(m) \/ ReadJson(m) \/ OverlayElement(m) \/ Preflight(m) \/ File(m)
      PROVE  IInv'
  BY <1>2, BeginUsable, SaveUsable, UpdateUsable, DeleteUsable, ResolveUsable, LoadUsable,
     ComposeUsable, ExtraUsable, CheckUsable, JsonUsable, OverlayUsable, PreflightUsable, FileUsable
<1> QED
  BY <1>1, <1>2 DEF NewBugNext

\* A template that is stored sets something, and `bug create` takes its deadline
\* and its flags, however many commands save, update and delete templates and
\* whatever they give (template update, save and delete).
THEOREM TemplatesAlwaysUsable == NewBugSpec => []TemplatesUsable
<1>1. IInv => TemplatesUsable
  BY DEF IInv
<1> QED
  BY <1>1, InitUsable, NextUsable, PTL DEF NewBugSpec

-----------------------------------------------------------------------------
(* What `bug create` files: the whole of standard input, and all that was asked *)

\* A template of the fields that a template has, each with a value.
Fits(t) == Valued(t, TemplateFields)
TemplatesFit == \A t \in DOMAIN templates : Fits(templates[t])

IsSeq(s) == \E S : s \in Seq(S)

LEMMA SeqAppend ==
  ASSUME NEW s, NEW x, IsSeq(s)
  PROVE  /\ IsSeq(Append(s, x)) /\ Append(s, x) # <<>>
         /\ \A n \in DOMAIN Append(s, x) :
              Append(s, x)[n] = x \/ (n \in DOMAIN s /\ Append(s, x)[n] = s[n])
<1>1. PICK S : s \in Seq(S)
  BY DEF IsSeq
<1>2. Append(s, x) \in Seq(S \cup {x})
  BY <1>1
<1>3. QED
  BY <1>1, <1>2 DEF IsSeq

LEMMA SeqTail ==
  ASSUME NEW s, IsSeq(s), s # <<>>
  PROVE  /\ IsSeq(Tail(s))
         /\ Len(s) # 1 => Tail(s) # <<>>
         /\ \A n \in DOMAIN Tail(s) : \E j \in DOMAIN s : Tail(s)[n] = s[j]
         /\ \E j \in DOMAIN s : Head(s) = s[j]
<1>1. PICK S : s \in Seq(S)
  BY DEF IsSeq
<1>2. Tail(s) \in Seq(S) /\ Len(Tail(s)) = Len(s) - 1
      /\ \A n \in DOMAIN Tail(s) : n + 1 \in DOMAIN s /\ Tail(s)[n] = s[n + 1]
  BY <1>1
<1>3. 1 \in DOMAIN s /\ Head(s) = s[1]
  BY <1>1
<1>4. IsSeq(Tail(s)) /\ (Len(s) # 1 => Tail(s) # <<>>)
  <2>1. Len(s) \in Nat /\ Len(<<>>) = 0
    BY <1>1
  <2>2. Tail(s) = <<>> => Len(s) = 1
    BY <1>2, <2>1
  <2>3. IsSeq(Tail(s))
    BY <1>2 DEF IsSeq
  <2>4. QED
    BY <2>2, <2>3
<1>5. QED
  BY <1>2, <1>3, <1>4

LEMMA SeqOne == \A x : IsSeq(<<x>>) /\ <<x>> # <<>> /\ \A n \in DOMAIN <<x>> : <<x>>[n] = x
<1> TAKE x
<1>1. <<x>> \in Seq({x})
  OBVIOUS
<1>2. IsSeq(<<x>>)
  BY <1>1 DEF IsSeq
<1>3. <<x>> # <<>> /\ \A n \in DOMAIN <<x>> : <<x>>[n] = x
  OBVIOUS
<1>4. QED
  BY <1>2, <1>3

LEMMA SeqNone == IsSeq(<<>>) /\ DOMAIN <<>> = {}
<1>1. <<>> \in Seq({})
  OBVIOUS
<1>2. QED
  BY <1>1 DEF IsSeq

-----------------------------------------------------------------------------
(* The bugs that commands put together *)

\* What a command names of a bug, and a bug that has it.
Requested(o) == Over(Only(o.given, Typed \ {"summary", "description"}), FromPairs(o))
Has(bug, key, value) ==
  \/ key \in DOMAIN bug.typed /\ bug.typed[key] = value
  \/ key \in DOMAIN bug.extra /\ bug.extra[key] = value

IsAsked(o, template, bug) ==
  /\ DOMAIN bug.typed \cap DOMAIN bug.extra = {}
  /\ \A key \in DOMAIN Requested(o) : Has(bug, key, Requested(o)[key])
  /\ o.json = NoSource =>
       \A key \in DOMAIN template \ (DOMAIN Requested(o) \cup {"description"}) : Has(bug, key, template[key])

\* Whose description, or whose fields, come from standard input.
DescribedByStdin(o) ==
  o.description = Stdin \/ (o.description = NoSource /\ ~o.tty /\ o.json = NoSource)
FieldsOfStdin(o, extra) ==
  o.fieldJson = Stdin =>
    /\ IsObject(o.stdin)
    /\ \A key \in DOMAIN o.stdin.objects[1] : Of(extra, key) = o.stdin.objects[1][key]
IsWhole(o, bug) ==
  o.json = NoSource =>
    /\ DescribedByStdin(o) => bug.typed["description"] = o.stdin.lines
    /\ FieldsOfStdin(o, bug.extra)

Good(w, bugs) ==
  /\ IsSeq(bugs)
  /\ \A n \in DOMAIN bugs : IsAsked(w.order, w.template, bugs[n]) /\ IsWhole(w.order, bugs[n])

\* What a command has read of standard input when it is at a stage.
StdinSound(w) ==
  w.order.json = NoSource =>
    /\ w.stage \notin {"json", "overlay"}
    /\ w.stage = "describe" => w.stdin = w.order.stdin
    /\ w.stage \in {"template", "compose", "extra"} => w.stdin \in {w.order.stdin, Blank}
    /\ w.stage \in {"template", "compose", "extra", "check"} =>
         (DescribedByStdin(w.order) => w.description = <<w.order.stdin.lines>>)
    /\ w.stage = "check" => FieldsOfStdin(w.order, w.extra)

\* The extra fields are those that --field names, and others.
PairsIn(o, extra) == \A key \in Pairs(o) : key \in DOMAIN extra /\ extra[key] = FromPairs(o)[key]

MakerFields ==
  {"stage", "order", "stdin", "description", "summary", "template", "extra", "elements",
   "ready", "filed"}

Sound(w) ==
  /\ DOMAIN w = MakerFields
  /\ w.stage # "idle" => w.order \in Orders
  /\ Fits(w.template)
  /\ Good(w, w.ready) /\ Good(w, w.filed)
  /\ w.stage \in {"describe", "template"} => w.ready = <<>> /\ w.filed = <<>>
  /\ w.stage \in {"send", "file"} => w.ready # <<>>
  /\ w.stage \in {"check", "json", "overlay"} => PairsIn(w.order, w.extra)
  /\ StdinSound(w)

FilesInv == TemplatesFit /\ DOMAIN maker = Makers /\ \A m \in Makers : Sound(maker[m])

LEMMA Merged ==
  /\ \A f, g : DOMAIN Over(f, g) = DOMAIN f \cup DOMAIN g
  /\ \A f, g : \A key \in DOMAIN f : Over(f, g)[key] = f[key]
  /\ \A f, g : \A key \in DOMAIN g \ DOMAIN f : Over(f, g)[key] = g[key]
  BY DEF Over

LEMMA MergedTwo ==
  ASSUME NEW f, NEW g
  PROVE  /\ \A key \in DOMAIN f : key \in DOMAIN Over(f, g) /\ Over(f, g)[key] = f[key]
         /\ \A key \in DOMAIN g \ DOMAIN f : key \in DOMAIN Over(f, g) /\ Over(f, g)[key] = g[key]
         /\ DOMAIN Over(f, g) = DOMAIN f \cup DOMAIN g
  BY DEF Over

\* What goes before is what is kept.
LEMMA MergedFour ==
  ASSUME NEW a, NEW b, NEW c, NEW d, NEW set, set = Over(a, Over(b, Over(c, d)))
  PROVE  /\ \A key \in DOMAIN a : key \in DOMAIN set /\ set[key] = a[key]
         /\ \A key \in DOMAIN b \ DOMAIN a : key \in DOMAIN set /\ set[key] = b[key]
         /\ \A key \in DOMAIN c \ (DOMAIN a \cup DOMAIN b) : key \in DOMAIN set /\ set[key] = c[key]
  BY DEF Over

LEMMA OnlySome ==
  ASSUME NEW f, NEW keys
  PROVE  /\ DOMAIN Only(f, keys) = DOMAIN f \cap keys
         /\ \A key \in DOMAIN Only(f, keys) : key \in keys /\ key \in DOMAIN f /\ Only(f, keys)[key] = f[key]
  BY DEF Only

LEMMA WiredHas ==
  ASSUME NEW set, NEW key \in Typed \cap DOMAIN set, set[key] # <<>> \/ key = "description"
  PROVE  key \in DOMAIN OnWire(set) /\ OnWire(set)[key] = set[key]
  BY DEF OnWire, Of, Only

LEMMA OrderValued ==
  ASSUME NEW o \in Orders
  PROVE  \A key \in DOMAIN o.given \ {"description"} : o.given[key] # <<>>
  BY NewBugAssumption DEF Valued

LEMMA PairsNamed == \A o : DOMAIN FromPairs(o) = Pairs(o)
  BY DEF FromPairs

LEMMA FlagsNamed ==
  ASSUME NEW o
  PROVE  DOMAIN o.given \cap (Typed \ {"summary", "description"}) \subseteq DOMAIN Requested(o)
<1> DEFINE flags == Only(o.given, Typed \ {"summary", "description"})
<1>1. DOMAIN flags = DOMAIN o.given \cap (Typed \ {"summary", "description"})
  BY DEF Only
<1>2. Requested(o) = Over(flags, FromPairs(o))
  BY DEF Requested
<1> HIDE DEF flags
<1>3. QED
  BY <1>1, <1>2, MergedTwo

\* A payload has all that was named: by flags in what is typed, and by --field.
LEMMA PayloadNamed ==
  ASSUME NEW w, NEW set, w.order \in Orders, PairsIn(w.order, w.extra),
         \A key \in DOMAIN w.order.given \cap (Typed \ {"summary", "description"}) :
           key \in DOMAIN set /\ set[key] = w.order.given[key]
  PROVE  \A key \in DOMAIN Requested(w.order) :
           Has(Payload(w, OnWire(set), set), key, Requested(w.order)[key])
<1> DEFINE o == w.order
           typed == OnWire(set)
           flags == Only(o.given, Typed \ {"summary", "description"})
           bug == Payload(w, typed, set)
<1>1. bug.typed = typed /\ bug.extra = w.extra
  BY DEF Payload
<1>2. DOMAIN flags = DOMAIN o.given \cap (Typed \ {"summary", "description"})
      /\ \A key \in DOMAIN flags : flags[key] = o.given[key]
  BY DEF Only
<1>a. Requested(o) = Over(flags, FromPairs(o))
  BY DEF Requested
<1> HIDE DEF flags
<1>3. ASSUME NEW key \in DOMAIN flags
      PROVE  Has(bug, key, Requested(o)[key])
  <2>1. Requested(o)[key] = flags[key]
    BY <1>3, <1>a, Merged
  <2>2. key \in DOMAIN typed /\ typed[key] = set[key]
    BY <1>2, <1>3, OrderValued, WiredHas
  <2>3. set[key] = flags[key]
    BY <1>2, <1>3
  <2>4. QED
    BY <1>1, <2>1, <2>2, <2>3 DEF Has
<1>4. ASSUME NEW key \in Pairs(o) \ DOMAIN flags
      PROVE  Has(bug, key, Requested(o)[key])
  <2>1. Requested(o)[key] = FromPairs(o)[key]
    BY <1>4, <1>a, Merged, PairsNamed
  <2>2. key \in DOMAIN w.extra /\ w.extra[key] = FromPairs(o)[key]
    BY <1>4 DEF PairsIn
  <2>3. QED
    BY <1>1, <2>1, <2>2 DEF Has
<1>5. DOMAIN Requested(o) = DOMAIN flags \cup Pairs(o)
  BY <1>a, Merged, PairsNamed
<1>6. QED
  BY <1>3, <1>4, <1>5

\* What a command reads of a source: where it read standard input nothing is left.
LEMMA ReadStdin ==
  ASSUME NEW w, NEW source, DOMAIN w = MakerFields
  PROVE  /\ source.from = "stdin" => Read(w, source) = w.stdin /\ After(w, source).stdin = Blank
         /\ source.from # "stdin" => Read(w, source) = source.doc /\ After(w, source) = w
         /\ DOMAIN After(w, source) = MakerFields
         /\ \A f \in MakerFields \ {"stdin"} : After(w, source)[f] = w[f]
  BY DEF Read, After, MakerFields

LEMMA Sources ==
  /\ Stdin.from = "stdin" /\ NoSource.from = "none" /\ ~IsObject(Blank)
  BY DEF Stdin, NoSource, Blank, IsObject

\* The step of one command leaves the others as they were.
MovesOn(m) == \E v : maker' = [maker EXCEPT ![m] = v] /\ Sound(v)

LEMMA NoBugs == \A w : Good([w EXCEPT !.ready = <<>>], <<>>) /\ Good(w, <<>>)
  BY SeqNone DEF Good

LEMMA InitFiles == NewBugInit => FilesInv
<1> SUFFICES ASSUME NewBugInit PROVE FilesInv
  OBVIOUS
<1>1. TemplatesFit
  BY NewBugAssumption DEF NewBugInit, TemplatesFit, Fits
<1>2. Sound(Taken(NoOrder, "idle"))
  <2> DEFINE w == Taken(NoOrder, "idle")
  <2>1. DOMAIN w = MakerFields /\ w.stage = "idle" /\ w.template = <<>> /\ w.ready = <<>> /\ w.filed = <<>>
    BY DEF Taken, MakerFields, Unset
  <2> HIDE DEF w
  <2>2. Fits(w.template)
    BY <2>1 DEF Fits, Valued
  <2>3. StdinSound(w)
    BY <2>1 DEF StdinSound
  <2>4. QED
    BY <2>1, <2>2, <2>3, NoBugs DEF Sound, w
<1>3. QED
  BY <1>1, <1>2 DEF NewBugInit, FilesInv

LEMMA BeginSteps ==
  ASSUME FilesInv, NEW m \in Makers, BeginOrder(m)
  PROVE  MovesOn(m)
<1>1. PICK o \in Orders : maker' = [maker EXCEPT ![m] = Taken(o, FirstStage(o))]
  BY DEF BeginOrder
<1> DEFINE w == Taken(o, FirstStage(o))
<1>2. /\ DOMAIN w = MakerFields /\ w.stage = FirstStage(o) /\ w.template = <<>> /\ w.ready = <<>>
      /\ w.filed = <<>> /\ w.order = o /\ w.stdin = o.stdin
  BY DEF Taken, MakerFields, Unset
<1>3. FirstStage(o) \in {"failed", "store", "describe", "extra"}
      /\ (FirstStage(o) = "extra" => o.json.from # "none")
  BY DEF FirstStage
<1> HIDE DEF w
<1>4. Fits(w.template)
  BY <1>2 DEF Fits, Valued
<1>5. StdinSound(w)
  BY <1>2, <1>3, Sources DEF StdinSound
<1>6. Sound(w)
  BY <1>2, <1>3, <1>4, <1>5, NoBugs DEF Sound
<1>7. QED
  BY <1>1, <1>6 DEF MovesOn, w

\* To give up, or to end, asks for nothing more.
LEMMA EndSteps ==
  ASSUME FilesInv, NEW m \in Makers, maker[m].stage # "idle", NEW stage \in {"failed", "done"},
         maker' = [maker EXCEPT ![m] = [maker[m] EXCEPT !.stage = stage]]
  PROVE  MovesOn(m)
<1> DEFINE w == maker[m]
           v == [w EXCEPT !.stage = stage]
<1>1. Sound(w)
  BY DEF FilesInv
<1>2. /\ DOMAIN v = MakerFields /\ v.stage = stage /\ v.template = w.template /\ v.ready = w.ready
      /\ v.filed = w.filed /\ v.order = w.order
  BY <1>1 DEF Sound, MakerFields
<1> HIDE DEF v
<1>3. Good(v, v.ready) /\ Good(v, v.filed)
  BY <1>1, <1>2 DEF Sound, Good
<1>4. StdinSound(v)
  BY <1>2 DEF StdinSound
<1>5. Sound(v)
  BY <1>1, <1>2, <1>3, <1>4 DEF Sound
<1>6. QED
  BY <1>5 DEF MovesOn, v

LEMMA RefuseSteps ==
  ASSUME FilesInv, NEW m \in Makers, maker[m].stage # "idle", Refuse(m)
  PROVE  MovesOn(m)
<1>1. maker' = [maker EXCEPT ![m] = [maker[m] EXCEPT !.stage = "failed"]]
  BY DEF Refuse, Step
<1>2. QED
  BY <1>1, EndSteps

LEMMA StoreSteps ==
  ASSUME FilesInv, NEW m \in Makers, maker[m].stage # "idle", NEW new, Store(m, new)
  PROVE  MovesOn(m)
<1>1. maker' = [maker EXCEPT ![m] = [maker[m] EXCEPT !.stage = "done"]]
  BY DEF Store, FilesInv
<1>2. QED
  BY <1>1, EndSteps

\* The same command, with what it was asked, its template and its bugs, at another stage.
Follows(v, w, stage) ==
  /\ DOMAIN v = MakerFields /\ v.stage = stage
  /\ v.order = w.order /\ v.template = w.template /\ v.ready = w.ready /\ v.filed = w.filed

LEMMA FollowsSound ==
  ASSUME NEW w, NEW v, NEW stage, Sound(w), w.stage # "idle", Follows(v, w, stage), StdinSound(v),
         stage \in {"describe", "template"} => w.stage \in {"describe", "template"},
         stage \in {"send", "file"} => w.ready # <<>>,
         stage \in {"check", "json", "overlay"} => PairsIn(w.order, v.extra)
  PROVE  Sound(v)
<1>1. Good(v, v.ready) /\ Good(v, v.filed)
  BY DEF Follows, Sound, Good
<1>2. QED
  BY <1>1 DEF Follows, Sound

LEMMA ChangedFits ==
  ASSUME NEW template, NEW o, Fits(template), Fits(o.given)
  PROVE  Fits(Changed(template, o))
<1> DEFINE merged == Over(o.given, template)
           kept == Only(merged, DOMAIN merged \ o.clear)
<1>1. DOMAIN merged = DOMAIN o.given \cup DOMAIN template
  BY Merged
<1>2. /\ \A key \in DOMAIN o.given : merged[key] = o.given[key]
      /\ \A key \in DOMAIN template \ DOMAIN o.given : merged[key] = template[key]
  BY Merged
<1>3. Changed(template, o) = kept
  BY DEF Changed
<1> HIDE DEF merged
<1>4. DOMAIN kept \subseteq DOMAIN merged /\ \A key \in DOMAIN kept : kept[key] = merged[key]
  BY DEF Only
<1> HIDE DEF kept
<1>5. /\ DOMAIN kept \subseteq TemplateFields
      /\ \A key \in DOMAIN kept \ {"description"} : kept[key] # <<>>
  BY <1>1, <1>2, <1>4 DEF Fits, Valued
<1>6. QED
  BY <1>3, <1>5 DEF Fits, Valued

LEMMA TemplateSteps ==
  ASSUME FilesInv, NEW m \in Makers,
         SaveTemplate(m) \/ UpdateTemplate(m) \/ DeleteTemplate(m)
  PROVE  TemplatesFit' /\ MovesOn(m)
<1> DEFINE o == maker[m].order
<1>1. maker[m].stage = "store" /\ o \in Orders
  BY DEF FilesInv, Sound, SaveTemplate, UpdateTemplate, DeleteTemplate, At
<1>2. Refuse(m) => TemplatesFit'
  BY DEF Refuse, Step, FilesInv, TemplatesFit
<1>3. o.kind # "create" => Fits(o.given)
  BY <1>1, NewBugAssumption DEF Fits
<1>4. CASE SaveTemplate(m)
  <2>1. Store(m, [t \in DOMAIN templates \cup {o.name} |-> IF t = o.name THEN o.given ELSE templates[t]])
    BY <1>4 DEF SaveTemplate
  <2>2. Fits(o.given)
    BY <1>3, <1>4 DEF SaveTemplate
  <2>3. TemplatesFit'
    BY <2>1, <2>2 DEF Store, TemplatesFit, FilesInv
  <2>4. QED
    BY <1>1, <2>1, <2>3, StoreSteps
<1>5. CASE UpdateTemplate(m)
  <2>1. CASE Refuse(m)
    BY <1>1, <1>2, <2>1, RefuseSteps
  <2>2. CASE ~Refuse(m)
    <3> DEFINE old == templates[o.name]
               new == Changed(old, o)
    <3>1. o.name \in DOMAIN templates /\ Store(m, [templates EXCEPT ![o.name] = new])
      BY <1>5, <2>2 DEF UpdateTemplate
    <3>2. Fits(old) /\ Fits(o.given)
      BY <1>3, <1>5, <3>1 DEF FilesInv, TemplatesFit, UpdateTemplate
    <3>3. Fits(new)
      BY <3>2, ChangedFits
    <3>4. TemplatesFit'
      BY <3>1, <3>3 DEF Store, TemplatesFit, FilesInv
    <3>5. QED
      BY <1>1, <3>1, <3>4, StoreSteps
  <2>3. QED
    BY <2>1, <2>2
<1>6. CASE DeleteTemplate(m)
  <2>1. CASE Refuse(m)
    BY <1>1, <1>2, <2>1, RefuseSteps
  <2>2. CASE ~Refuse(m)
    <3>1. Store(m, Only(templates, DOMAIN templates \ {o.name}))
      BY <1>6, <2>2 DEF DeleteTemplate
    <3>2. TemplatesFit'
      BY <3>1 DEF Store, TemplatesFit, FilesInv, Only
    <3>3. QED
      BY <1>1, <3>1, <3>2, StoreSteps
  <2>3. QED
    BY <2>1, <2>2
<1>7. QED
  BY <1>4, <1>5, <1>6

LEMMA DescribeSteps ==
  ASSUME FilesInv, NEW m \in Makers, ResolveDescription(m)
  PROVE  MovesOn(m)
<1> DEFINE w == maker[m]
           named == w.order.description
           source == IF named.from # "none" THEN named ELSE IF w.order.tty THEN NoSource ELSE Stdin
<1>1. Sound(w) /\ w.stage = "describe"
  BY DEF FilesInv, ResolveDescription, At
<1>2. DOMAIN w = MakerFields /\ StdinSound(w)
  BY <1>1 DEF Sound
<1>3. CASE source.from = "none"
  <2> DEFINE v == [w EXCEPT !.stage = "template"]
  <2>1. maker' = [maker EXCEPT ![m] = v]
    BY <1>3 DEF ResolveDescription, Step
  <2>2. Follows(v, w, "template") /\ v.stdin = w.stdin /\ v.order = w.order /\ v.stage = "template"
    BY <1>2 DEF Follows, MakerFields
  <2> HIDE DEF v
  <2>3. named.from = "none" /\ w.order.tty
    BY <1>3, Sources
  <2>4. ~DescribedByStdin(w.order)
    BY <2>3, Sources DEF DescribedByStdin
  <2>5. StdinSound(v)
    BY <1>1, <1>2, <2>2, <2>4 DEF StdinSound
  <2>6. Sound(v)
    BY <1>1, <2>2, <2>5, FollowsSound
  <2>7. QED
    BY <2>1, <2>6 DEF MovesOn
<1>4. CASE Refuse(m)
  BY <1>1, <1>4, RefuseSteps
<1>5. CASE source.from # "none" /\ ~Refuse(m)
  <2> DEFINE lines == Read(w, source).lines
             v == [After(w, source) EXCEPT !.stage = "template", !.description = <<lines>>]
  <2>1. maker' = [maker EXCEPT ![m] = v]
    BY <1>5 DEF ResolveDescription, Step
  <2>2. /\ Follows(v, w, "template") /\ v.stdin = After(w, source).stdin /\ v.order = w.order
        /\ v.stage = "template" /\ v.description = <<lines>>
    BY <1>2, ReadStdin DEF Follows, MakerFields
  <2> HIDE DEF v
  <2>3. v.stdin \in {w.stdin, Blank}
    BY <1>2, <2>2, ReadStdin
  <2>4. w.order.json = NoSource /\ DescribedByStdin(w.order) => v.description = <<w.order.stdin.lines>>
    <3> SUFFICES ASSUME w.order.json = NoSource, DescribedByStdin(w.order)
                 PROVE  lines = w.order.stdin.lines
      BY <2>2
    <3>1. w.stdin = w.order.stdin
      BY <1>1, <1>2 DEF StdinSound
    <3>2. source.from = "stdin"
      BY <1>5, Sources DEF DescribedByStdin
    <3>3. QED
      BY <1>2, <3>1, <3>2, ReadStdin
  <2>5. StdinSound(v)
    BY <1>1, <1>2, <2>2, <2>3, <2>4 DEF StdinSound
  <2>6. Sound(v)
    BY <1>1, <2>2, <2>5, FollowsSound
  <2>7. QED
    BY <2>1, <2>6 DEF MovesOn
<1>6. QED
  BY <1>3, <1>4, <1>5

LEMMA LoadSteps ==
  ASSUME FilesInv, NEW m \in Makers, LoadTemplate(m)
  PROVE  MovesOn(m)
<1> DEFINE w == maker[m]
           o == w.order
           template == IF o.template = <<>> THEN Unset ELSE Of(templates, o.template[1])
           v == [w EXCEPT !.stage = "compose", !.template = template]
<1>1. Sound(w) /\ w.stage = "template"
  BY DEF FilesInv, LoadTemplate, At
<1>2. CASE Refuse(m)
  BY <1>1, <1>2, RefuseSteps
<1>3. CASE ~Refuse(m)
  <2>1. maker' = [maker EXCEPT ![m] = v]
    BY <1>3 DEF LoadTemplate, Step
  <2>2. Fits(template)
    <3>1. Fits(<<>>)
      BY DEF Fits, Valued
    <3>2. QED
      BY <3>1 DEF Of, Unset, FilesInv, TemplatesFit
  <2>3. /\ DOMAIN v = MakerFields /\ v.stage = "compose" /\ v.order = o /\ v.template = template
        /\ v.ready = w.ready /\ v.filed = w.filed /\ v.stdin = w.stdin
        /\ v.description = w.description
    BY <1>1 DEF Sound, MakerFields
  <2> HIDE DEF v, template
  <2>4. StdinSound(v)
    BY <1>1, <2>3 DEF Sound, StdinSound
  <2>5. v.ready = <<>> /\ v.filed = <<>> /\ o \in Orders
    BY <1>1, <2>3 DEF Sound
  <2>6. Sound(v)
    BY <2>2, <2>3, <2>4, <2>5, NoBugs DEF Sound
  <2>7. QED
    BY <2>1, <2>6 DEF MovesOn
<1>4. QED
  BY <1>2, <1>3

LEMMA ComposeSteps ==
  ASSUME FilesInv, NEW m \in Makers, Compose(m)
  PROVE  MovesOn(m)
<1> DEFINE w == maker[m]
<1>1. Sound(w) /\ w.stage = "compose"
  BY DEF FilesInv, Compose, At
<1>2. CASE Refuse(m)
  BY <1>1, <1>2, RefuseSteps
<1>3. ASSUME NEW summary, NEW description,
             DescribedByStdin(w.order) /\ w.order.json = NoSource => <<description>> = w.description,
             maker' = [maker EXCEPT ![m] = Composed(w, summary, description)]
      PROVE  MovesOn(m)
  <2> DEFINE v == Composed(w, summary, description)
  <2>1. /\ Follows(v, w, "extra") /\ v.stdin = w.stdin /\ v.description = <<description>>
        /\ v.order = w.order /\ v.stage = "extra"
    BY <1>1 DEF Follows, Composed, Sound, MakerFields
  <2> HIDE DEF v
  <2>2. StdinSound(v)
    BY <1>1, <1>3, <2>1 DEF Sound, StdinSound
  <2>3. Sound(v)
    BY <1>1, <2>1, <2>2, FollowsSound
  <2>4. QED
    BY <1>3, <2>3 DEF MovesOn, v
<1>4. DescribedByStdin(w.order) /\ w.order.json = NoSource => w.description = <<w.order.stdin.lines>>
  BY <1>1 DEF Sound, StdinSound
<1>5. CASE w.description # <<>> /\ ~Refuse(m)
  <2>1. maker' = [maker EXCEPT ![m] = Composed(w, w.order.given["summary"], w.description[1])]
    BY <1>5 DEF Compose, Step
  <2>2. DescribedByStdin(w.order) /\ w.order.json = NoSource => <<w.description[1]>> = w.description
    BY <1>4
  <2>3. QED
    BY <1>3, <2>1, <2>2
<1>6. CASE w.description = <<>> /\ ~Refuse(m)
  <2>1. PICK buffer : maker' = [maker EXCEPT ![m] = Composed(w, <<buffer[1]>>, Tail(buffer))]
    BY <1>6 DEF Compose, Step, Parsed
  <2>2. ~(DescribedByStdin(w.order) /\ w.order.json = NoSource)
    BY <1>4, <1>6
  <2>3. QED
    BY <1>3, <2>1, <2>2
<1>7. QED
  BY <1>2, <1>5, <1>6

LEMMA ExtraMerged ==
  ASSUME NEW o, NEW given, NEW extra, extra = Over(FromPairs(o), given)
  PROVE  /\ \A key \in Pairs(o) : key \in DOMAIN extra /\ extra[key] = FromPairs(o)[key]
         /\ \A key \in DOMAIN given \ Pairs(o) : key \in DOMAIN extra /\ extra[key] = given[key]
<1> DEFINE pairs == FromPairs(o)
<1>1. DOMAIN pairs = Pairs(o)
  BY PairsNamed
<1>2. extra = Over(pairs, given)
  OBVIOUS
<1> HIDE DEF pairs
<1>3. \A key \in DOMAIN pairs : key \in DOMAIN extra /\ extra[key] = pairs[key]
  BY <1>2 DEF Over
<1>4. \A key \in DOMAIN given \ DOMAIN pairs : key \in DOMAIN extra /\ extra[key] = given[key]
  BY <1>2 DEF Over
<1>5. QED
  BY <1>1, <1>3, <1>4 DEF pairs

LEMMA ExtraSteps ==
  ASSUME FilesInv, NEW m \in Makers, ParseExtra(m)
  PROVE  MovesOn(m)
<1> DEFINE w == maker[m]
           o == w.order
           doc == Read(w, o.fieldJson)
           given == IF IsObject(doc) THEN doc.objects[1] ELSE <<>>
           extra == Over(FromPairs(o), given)
           stage == IF o.json.from = "none" THEN "check" ELSE "json"
           v == [After(w, o.fieldJson) EXCEPT !.stage = stage, !.extra = extra]
<1>1. Sound(w) /\ w.stage = "extra"
  BY DEF FilesInv, ParseExtra, At
<1>2. DOMAIN w = MakerFields /\ StdinSound(w)
  BY <1>1 DEF Sound
<1>3. CASE Refuse(m)
  BY <1>1, <1>3, RefuseSteps
<1>4. CASE ~Refuse(m)
  <2>1. maker' = [maker EXCEPT ![m] = v] /\ ~ExtraRefused(o, doc)
    BY <1>4 DEF ParseExtra, Step
  <2>2. Follows(v, w, stage) /\ v.order = o /\ v.stage = stage /\ v.extra = extra
        /\ v.description = w.description
    BY <1>2, ReadStdin DEF Follows, MakerFields
  <2>3. stage \in {"check", "json"} /\ (o.json = NoSource => stage = "check")
    BY Sources
  <2>4. /\ \A key \in Pairs(o) : key \in DOMAIN extra /\ extra[key] = FromPairs(o)[key]
        /\ \A key \in DOMAIN given \ Pairs(o) : key \in DOMAIN extra /\ extra[key] = given[key]
    BY ExtraMerged
  <2> HIDE DEF v, extra, given
  <2>5. PairsIn(o, v.extra)
    BY <2>2, <2>4 DEF PairsIn
  <2>6. o.json = NoSource => FieldsOfStdin(o, v.extra)
    <3> SUFFICES ASSUME o.json = NoSource, o.fieldJson = Stdin
                 PROVE  IsObject(o.stdin) /\ \A key \in DOMAIN o.stdin.objects[1] :
                                               Of(extra, key) = o.stdin.objects[1][key]
      BY <2>2 DEF FieldsOfStdin
    <3>1. doc = w.stdin /\ w.stdin \in {o.stdin, Blank}
      BY <1>1, <1>2, ReadStdin, Sources DEF StdinSound
    <3>2. IsObject(doc) /\ DOMAIN doc.objects[1] \cap Pairs(o) = {}
      BY <2>1, Sources DEF ExtraRefused
    <3>3. doc = o.stdin /\ given = o.stdin.objects[1]
      BY <3>1, <3>2, Sources DEF given
    <3> HIDE DEF doc
    <3>4. QED
      BY <2>4, <3>2, <3>3 DEF Of
  <2>7. StdinSound(v)
    BY <1>1, <1>2, <2>2, <2>3, <2>6 DEF StdinSound
  <2>8. Sound(v)
    BY <1>1, <2>2, <2>3, <2>5, <2>7, FollowsSound
  <2>9. QED
    BY <2>1, <2>8 DEF MovesOn
<1>5. QED
  BY <1>3, <1>4

\* A bug that is ready is good: what is typed, what is extra, and nothing in both.
LEMMA CheckSteps ==
  ASSUME FilesInv, NEW m \in Makers, CheckFlags(m)
  PROVE  MovesOn(m)
<1> DEFINE w == maker[m]
           o == w.order
           own == [summary |-> w.summary, description |-> w.description[1]]
           rest == Only(w.template, DOMAIN w.template \ {"description"})
           set == Over(own, Over(o.given, Over(rest, Unspecified)))
           typed == OnWire(set)
           bug == Payload(w, typed, set)
           v == [w EXCEPT !.stage = "send", !.ready = <<bug>>]
<1>1. Sound(w) /\ w.stage = "check"
  BY DEF FilesInv, CheckFlags, At
<1>2. CASE Refuse(m)
  BY <1>1, <1>2, RefuseSteps
<1>3. CASE ~Refuse(m)
  <2>1. maker' = [maker EXCEPT ![m] = v] /\ ~Shadowed(w, typed)
    BY <1>3 DEF CheckFlags, Step
  <2>2. DOMAIN own = {"summary", "description"} /\ own["description"] = w.description[1]
    OBVIOUS
  <2>3. DOMAIN rest = DOMAIN w.template \ {"description"} /\ \A key \in DOMAIN rest : rest[key] = w.template[key]
    BY DEF Only
  <2> HIDE DEF own, rest
  <2>4. \A key \in DOMAIN own : key \in DOMAIN set /\ set[key] = own[key]
    BY MergedFour
  <2>5. \A key \in DOMAIN o.given \ DOMAIN own : key \in DOMAIN set /\ set[key] = o.given[key]
    BY MergedFour
  <2>6. \A key \in DOMAIN rest \ (DOMAIN o.given \cup DOMAIN own) : key \in DOMAIN set /\ set[key] = rest[key]
    BY MergedFour
  <2> HIDE DEF set
  <2>7. bug.typed = typed /\ bug.extra = w.extra
    BY DEF Payload
  <2>8. DOMAIN bug.typed \cap DOMAIN bug.extra = {}
    BY <2>1, <2>7 DEF Shadowed
  <2>9. o \in Orders /\ PairsIn(o, w.extra) /\ Fits(w.template)
    BY <1>1 DEF Sound
  <2>10. \A key \in DOMAIN Requested(o) : Has(bug, key, Requested(o)[key])
    BY <2>2, <2>5, <2>9, PayloadNamed
  <2>11. \A key \in DOMAIN w.template \ (DOMAIN Requested(o) \cup {"description"}) : Has(bug, key, w.template[key])
    <3> TAKE key \in DOMAIN w.template \ (DOMAIN Requested(o) \cup {"description"})
    <3>1. key \in Typed \ {"summary", "description"} /\ w.template[key] # <<>>
      BY <2>9 DEF Fits, Valued, TemplateFields, Scalars, Lists, JsonFields, Typed, Unset
    <3>2. key \notin DOMAIN o.given
      BY <3>1, FlagsNamed
    <3>3. key \in DOMAIN set /\ set[key] = w.template[key]
      BY <2>2, <2>3, <2>6, <3>1, <3>2
    <3>4. key \in DOMAIN typed /\ typed[key] = set[key]
      BY <3>1, <3>3, WiredHas
    <3>5. QED
      BY <2>7, <3>3, <3>4 DEF Has
  <2>12. IsAsked(o, w.template, bug)
    BY <2>8, <2>10, <2>11 DEF IsAsked
  <2>13. "description" \in DOMAIN typed /\ typed["description"] = w.description[1]
    <3>1. "description" \in DOMAIN set /\ set["description"] = w.description[1]
      BY <2>2, <2>4
    <3>2. "description" \in Typed
      BY DEF Typed, JsonFields, TemplateFields
    <3>3. QED
      BY <3>1, <3>2, WiredHas
  <2>14. IsWhole(o, bug)
    BY <1>1, <2>7, <2>13 DEF Sound, StdinSound, IsWhole
  <2> HIDE DEF bug
  <2>15. /\ DOMAIN v = MakerFields /\ v.stage = "send" /\ v.order = o /\ v.template = w.template
         /\ v.ready = <<bug>> /\ v.filed = w.filed
    BY <1>1 DEF Sound, MakerFields
  <2> HIDE DEF v
  <2>16. Good(v, v.ready) /\ v.ready # <<>>
    BY <2>12, <2>14, <2>15, SeqOne DEF Good
  <2>17. Good(v, v.filed) /\ StdinSound(v)
    BY <1>1, <2>15 DEF Sound, Good, StdinSound
  <2>18. Sound(v)
    BY <2>9, <2>15, <2>16, <2>17 DEF Sound
  <2>19. QED
    BY <2>1, <2>18 DEF MovesOn
<1>4. QED
  BY <1>2, <1>3

LEMMA ReadSteps ==
  ASSUME FilesInv, NEW m \in Makers, ReadJson(m)
  PROVE  MovesOn(m)
<1> DEFINE w == maker[m]
           o == w.order
           elements == Read(w, o.json).objects
           v == [After(w, o.json) EXCEPT !.stage = "overlay", !.elements = elements]
<1>1. Sound(w) /\ w.stage = "json"
  BY DEF FilesInv, ReadJson, At
<1>2. DOMAIN w = MakerFields /\ o.json # NoSource /\ PairsIn(o, w.extra)
  BY <1>1 DEF Sound, StdinSound
<1>3. CASE Refuse(m)
  BY <1>1, <1>3, RefuseSteps
<1>4. CASE ~Refuse(m)
  <2>1. maker' = [maker EXCEPT ![m] = v]
    BY <1>4 DEF ReadJson, Step
  <2>2. Follows(v, w, "overlay") /\ v.extra = w.extra /\ v.order = o
    BY <1>2, ReadStdin DEF Follows, MakerFields
  <2> HIDE DEF v
  <2>3. StdinSound(v)
    BY <1>2, <2>2 DEF StdinSound
  <2>4. Sound(v)
    BY <1>1, <1>2, <2>2, <2>3, FollowsSound
  <2>5. QED
    BY <2>1, <2>4 DEF MovesOn
<1>5. QED
  BY <1>3, <1>4

LEMMA OverlaySteps ==
  ASSUME FilesInv, NEW m \in Makers, OverlayElement(m)
  PROVE  MovesOn(m)
<1> DEFINE w == maker[m]
           o == w.order
           set == Overlaid(w)
           typed == OnWire(set)
           bug == Payload(w, typed, set)
           stage == IF Len(w.elements) = 1 THEN "send" ELSE "overlay"
           read == After(w, o.description)
           v == [read EXCEPT !.elements = Tail(@), !.ready = Append(@, bug), !.stage = stage]
<1>1. Sound(w) /\ w.stage = "overlay"
  BY DEF FilesInv, OverlayElement, At
<1>2. /\ DOMAIN w = MakerFields /\ o.json # NoSource /\ PairsIn(o, w.extra) /\ o \in Orders
      /\ Good(w, w.ready) /\ Good(w, w.filed) /\ Fits(w.template)
  BY <1>1 DEF Sound, StdinSound
<1>3. CASE Refuse(m)
  BY <1>1, <1>3, RefuseSteps
<1>4. CASE ~Refuse(m)
  <2>1. maker' = [maker EXCEPT ![m] = v] /\ ElementFits(w, set)
    BY <1>4 DEF OverlayElement, Step
  <2>2. ~Shadowed(w, typed)
    BY <2>1 DEF ElementFits
  <2>3. \A key \in DOMAIN o.given \ {"description"} : key \in DOMAIN set /\ set[key] = o.given[key]
    <3> DEFINE named == IF o.description.from = "none" THEN <<>>
                        ELSE [description |-> Read(w, o.description).lines]
    <3>1. DOMAIN named \subseteq {"description"}
      OBVIOUS
    <3>2. set = Over(named, Over(o.given, Over(Head(w.elements), Unspecified)))
      BY DEF Overlaid
    <3> HIDE DEF named, set
    <3>3. QED
      BY <3>1, <3>2, MergedFour
  <2> HIDE DEF set
  <2>4. bug.typed = typed /\ bug.extra = w.extra
    BY DEF Payload
  <2>5. \A key \in DOMAIN Requested(o) : Has(bug, key, Requested(o)[key])
    BY <1>2, <2>3, PayloadNamed
  <2>6. IsAsked(o, w.template, bug) /\ IsWhole(o, bug)
    BY <1>2, <2>2, <2>4, <2>5 DEF IsAsked, IsWhole, Shadowed
  <2> HIDE DEF bug
  <2>7. DOMAIN read = MakerFields /\ \A f \in MakerFields \ {"stdin"} : read[f] = w[f]
    BY <1>2, ReadStdin
  <2> HIDE DEF read
  <2>8. /\ DOMAIN v = MakerFields /\ v.stage = stage /\ v.order = o /\ v.template = w.template
        /\ v.ready = Append(w.ready, bug) /\ v.filed = w.filed /\ v.extra = w.extra
    BY <2>7 DEF MakerFields
  <2> HIDE DEF v
  <2>9. Good(v, v.ready) /\ v.ready # <<>>
    <3>1. IsSeq(w.ready)
      BY <1>2 DEF Good
    <3>2. /\ IsSeq(Append(w.ready, bug)) /\ Append(w.ready, bug) # <<>>
          /\ \A n \in DOMAIN Append(w.ready, bug) :
               \/ Append(w.ready, bug)[n] = bug
               \/ n \in DOMAIN w.ready /\ Append(w.ready, bug)[n] = w.ready[n]
      BY <3>1, SeqAppend
    <3>3. \A n \in DOMAIN w.ready : IsAsked(o, w.template, w.ready[n]) /\ IsWhole(o, w.ready[n])
      BY <1>2 DEF Good
    <3>4. \A n \in DOMAIN Append(w.ready, bug) :
            /\ IsAsked(o, w.template, Append(w.ready, bug)[n])
            /\ IsWhole(o, Append(w.ready, bug)[n])
      BY <2>6, <3>2, <3>3
    <3>5. QED
      BY <2>8, <3>2, <3>4 DEF Good
  <2>10. Good(v, v.filed) /\ StdinSound(v)
    BY <1>2, <2>8 DEF Good, StdinSound
  <2>11. Sound(v)
    BY <1>2, <2>8, <2>9, <2>10 DEF Sound
  <2>12. QED
    BY <2>1, <2>11 DEF MovesOn
<1>5. QED
  BY <1>3, <1>4

LEMMA PreflightSteps ==
  ASSUME FilesInv, NEW m \in Makers, Preflight(m)
  PROVE  MovesOn(m)
<1> DEFINE w == maker[m]
           v == [w EXCEPT !.stage = "file"]
<1>1. Sound(w) /\ w.stage = "send"
  BY DEF FilesInv, Preflight, At
<1>2. CASE Refuse(m)
  BY <1>1, <1>2, RefuseSteps
<1>3. CASE maker' = [maker EXCEPT ![m] = [w EXCEPT !.stage = "done"]]
  BY <1>1, <1>3, EndSteps
<1>4. CASE maker' = [maker EXCEPT ![m] = v]
  <2>1. Follows(v, w, "file")
    BY <1>1 DEF Follows, Sound, MakerFields
  <2> HIDE DEF v
  <2>2. StdinSound(v) /\ w.ready # <<>>
    BY <1>1, <2>1 DEF Sound, StdinSound, Follows
  <2>3. Sound(v)
    BY <1>1, <2>1, <2>2, FollowsSound
  <2>4. QED
    BY <1>4, <2>3 DEF MovesOn
<1>5. QED
  BY <1>2, <1>3, <1>4 DEF Preflight, Step

LEMMA FileSteps ==
  ASSUME FilesInv, NEW m \in Makers, File(m)
  PROVE  MovesOn(m)
<1> DEFINE w == maker[m]
           stage == IF Len(w.ready) = 1 THEN "done" ELSE "file"
           next == [w EXCEPT !.ready = Tail(@), !.stage = stage]
           head == Head(w.ready)
           more == [next EXCEPT !.filed = Append(@, head)]
<1>1. Sound(w) /\ w.stage = "file"
  BY DEF FilesInv, File, At
<1>2. DOMAIN w = MakerFields /\ w.ready # <<>> /\ Good(w, w.ready) /\ Good(w, w.filed)
      /\ w.order \in Orders /\ Fits(w.template)
  BY <1>1 DEF Sound
<1>3. IsSeq(w.ready) /\ IsSeq(w.filed)
  BY <1>2 DEF Good
<1>4. Good(w, Tail(w.ready)) /\ (stage = "file" => Tail(w.ready) # <<>>)
  BY <1>2, <1>3, SeqTail DEF Good
<1>5. IsAsked(w.order, w.template, head) /\ IsWhole(w.order, head)
  BY <1>2, <1>3, SeqTail DEF Good
<1> HIDE DEF head
<1>6. Good(w, Append(w.filed, head))
  BY <1>2, <1>3, <1>5, SeqAppend DEF Good
<1>7. ASSUME NEW v, NEW filed, Good(w, filed),
             DOMAIN v = MakerFields, v.stage = stage, v.order = w.order, v.template = w.template,
             v.ready = Tail(w.ready), v.filed = filed
      PROVE  Sound(v)
  <2>1. Good(v, v.ready) /\ Good(v, v.filed)
    BY <1>4, <1>7 DEF Good
  <2>2. StdinSound(v)
    BY <1>7 DEF StdinSound
  <2>3. QED
    BY <1>2, <1>4, <1>7, <2>1, <2>2 DEF Sound
<1>8. /\ DOMAIN next = MakerFields /\ next.stage = stage /\ next.order = w.order
      /\ next.template = w.template /\ next.ready = Tail(w.ready) /\ next.filed = w.filed
  BY <1>2 DEF MakerFields
<1> HIDE DEF next
<1>9. /\ DOMAIN more = MakerFields /\ more.stage = stage /\ more.order = w.order
      /\ more.template = w.template /\ more.ready = Tail(w.ready)
      /\ more.filed = Append(w.filed, head)
  BY <1>8 DEF MakerFields
<1> HIDE DEF more
<1>10. Sound(next)
  BY <1>2, <1>7, <1>8
<1>11. Sound(more)
  BY <1>6, <1>7, <1>9
<1>12. maker' = [maker EXCEPT ![m] = next] \/ maker' = [maker EXCEPT ![m] = more]
  BY DEF File, Step, next, more, head
<1>13. QED
  BY <1>10, <1>11, <1>12 DEF MovesOn

LEMMA FilesStep ==
  ASSUME FilesInv, [NewBugNext]_makerVars
  PROVE  FilesInv'
<1>1. ASSUME NEW m \in Makers, MovesOn(m), TemplatesFit'
      PROVE  FilesInv'
  <2>1. PICK v : maker' = [maker EXCEPT ![m] = v] /\ Sound(v)
    BY <1>1 DEF MovesOn
  <2>2. DOMAIN maker = Makers /\ \A n \in Makers : Sound(maker[n])
    BY DEF FilesInv
  <2>3. DOMAIN maker' = Makers /\ \A n \in Makers : Sound(maker'[n])
    BY <2>1, <2>2
  <2>4. QED
    BY <1>1, <2>3 DEF FilesInv
<1>2. UNCHANGED templates => TemplatesFit'
  BY DEF FilesInv, TemplatesFit
<1>3. ASSUME NEW m \in Makers, BeginOrder(m)
      PROVE  FilesInv'
  BY <1>1, <1>2, <1>3, BeginSteps DEF BeginOrder
<1>4. ASSUME NEW m \in Makers, SaveTemplate(m) \/ UpdateTemplate(m) \/ DeleteTemplate(m)
      PROVE  FilesInv'
  BY <1>1, <1>4, TemplateSteps
<1>5. ASSUME NEW m \in Makers, ResolveDescription(m)
      PROVE  FilesInv'
  <2>1. UNCHANGED templates
    BY <1>5 DEF ResolveDescription, Step, Refuse
  <2>2. QED
    BY <1>1, <1>2, <1>5, <2>1, DescribeSteps
<1>6. ASSUME NEW m \in Makers, LoadTemplate(m)
      PROVE  FilesInv'
  <2>1. UNCHANGED templates
    BY <1>6 DEF LoadTemplate, Step, Refuse
  <2>2. QED
    BY <1>1, <1>2, <1>6, <2>1, LoadSteps
<1>7. ASSUME NEW m \in Makers, Compose(m)
      PROVE  FilesInv'
  <2>1. UNCHANGED templates
    BY <1>7 DEF Compose, Step, Refuse
  <2>2. QED
    BY <1>1, <1>2, <1>7, <2>1, ComposeSteps
<1>8. ASSUME NEW m \in Makers, ParseExtra(m)
      PROVE  FilesInv'
  <2>1. UNCHANGED templates
    BY <1>8 DEF ParseExtra, Step, Refuse
  <2>2. QED
    BY <1>1, <1>2, <1>8, <2>1, ExtraSteps
<1>9. ASSUME NEW m \in Makers, CheckFlags(m)
      PROVE  FilesInv'
  <2>1. UNCHANGED templates
    BY <1>9 DEF CheckFlags, Step, Refuse
  <2>2. QED
    BY <1>1, <1>2, <1>9, <2>1, CheckSteps
<1>10. ASSUME NEW m \in Makers, ReadJson(m)
       PROVE  FilesInv'
  <2>1. UNCHANGED templates
    BY <1>10 DEF ReadJson, Step, Refuse
  <2>2. QED
    BY <1>1, <1>2, <1>10, <2>1, ReadSteps
<1>11. ASSUME NEW m \in Makers, OverlayElement(m)
       PROVE  FilesInv'
  <2>1. UNCHANGED templates
    BY <1>11 DEF OverlayElement, Step, Refuse
  <2>2. QED
    BY <1>1, <1>2, <1>11, <2>1, OverlaySteps
<1>12. ASSUME NEW m \in Makers, Preflight(m)
       PROVE  FilesInv'
  <2>1. UNCHANGED templates
    BY <1>12 DEF Preflight, Step, Refuse
  <2>2. QED
    BY <1>1, <1>2, <1>12, <2>1, PreflightSteps
<1>13. ASSUME NEW m \in Makers, File(m)
       PROVE  FilesInv'
  <2>1. UNCHANGED templates
    BY <1>13 DEF File, Step
  <2>2. QED
    BY <1>1, <1>2, <1>13, <2>1, FileSteps
<1>14. CASE UNCHANGED makerVars
  BY <1>14 DEF makerVars, FilesInv, TemplatesFit
<1>15. QED
  BY <1>3, <1>4, <1>5, <1>6, <1>7, <1>8, <1>9, <1>10, <1>11, <1>12, <1>13, <1>14 DEF NewBugNext

LEMMA FilesHold == NewBugSpec => []FilesInv
<1>1. QED
  BY InitFiles, FilesStep, PTL DEF NewBugSpec

\* A bug that `bug create` files has the whole of what standard input was to give it,
\* however many of its parts might have read it.
THEOREM StdinReadWhole == NewBugSpec => []StdinWhole
<1>1. FilesInv => StdinWhole
  <2> SUFFICES ASSUME FilesInv, NEW m \in Makers, NEW n \in DOMAIN maker[m].filed,
                      maker[m].order.json = NoSource
               PROVE  FromStdin(m, n)
    BY DEF StdinWhole
  <2>1. IsWhole(maker[m].order, maker[m].filed[n])
    BY DEF FilesInv, Sound, Good
  <2>2. QED
    BY <2>1 DEF IsWhole, DescribedByStdin, FieldsOfStdin, FromStdin
<1>2. QED
  BY <1>1, FilesHold, PTL

\* A bug is filed with every field that its command, or its template, named, once.
THEOREM EveryBugAsAsked == NewBugSpec => []FiledAsAsked
<1>1. FilesInv => FiledAsAsked
  <2> SUFFICES ASSUME FilesInv, NEW m \in Makers, NEW n \in DOMAIN maker[m].filed
               PROVE  LET w == maker[m]
                          bug == w.filed[n]
                          named == Requested(w.order)
                          request == {<<key, bug.typed[key]>> : key \in DOMAIN bug.typed}
                                       \cup {<<key, bug.extra[key]>> : key \in DOMAIN bug.extra}
                      IN  /\ \A p, q \in request : p[1] = q[1] => p = q
                          /\ \A key \in DOMAIN named : <<key, named[key]>> \in request
                          /\ w.order.json = NoSource =>
                               \A key \in DOMAIN w.template \ (DOMAIN named \cup {"description"}) :
                                 <<key, w.template[key]>> \in request
    BY DEF FiledAsAsked, Requested
  <2> DEFINE w == maker[m]
             bug == w.filed[n]
             typed == {<<key, bug.typed[key]>> : key \in DOMAIN bug.typed}
             extra == {<<key, bug.extra[key]>> : key \in DOMAIN bug.extra}
  <2>1. IsAsked(w.order, w.template, bug)
    BY DEF FilesInv, Sound, Good
  <2>2. \A key, value : Has(bug, key, value) => <<key, value>> \in typed \cup extra
    BY DEF Has
  <2>3. DOMAIN bug.typed \cap DOMAIN bug.extra = {}
    BY <2>1 DEF IsAsked
  <2>4. ASSUME NEW p \in typed \cup extra, NEW q \in typed \cup extra, p[1] = q[1]
        PROVE  p = q
    BY <2>3, <2>4
  <2> HIDE DEF typed, extra, bug
  <2>5. QED
    BY <2>1, <2>2, <2>4 DEF IsAsked, typed, extra, bug
<1>2. QED
  BY <1>1, FilesHold, PTL
=============================================================================
