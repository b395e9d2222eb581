------------------------------- MODULE NewBug -------------------------------
(***************************************************************************)
(* What `bug create` sends (commands/bug/create.rs and create_json.rs,     *)
(* commands/runtime/input) and the templates it may start from             *)
(* (commands/template, types/template.rs).  BugWrites has what happens to  *)
(* it at the server.                                                       *)
(*                                                                         *)
(* A command reads its parts one after the other: the description, the     *)
(* template, the editor, the extra fields; or the extra fields and a JSON  *)
(* document.  Standard input can be any of them, and can be read only once.*)
(* Templates are written in one step each, under the lock of ConfigStore.  *)
(***************************************************************************)
EXTENDS Integers, Sequences, FiniteSets

CONSTANTS
  Makers,         \* the processes
  Orders,         \* their command lines
  TemplateNames,
  FirstTemplates, \* the templates there may be at first
  Buffers,        \* what a user may leave in the editor: the lines that are not blank
  Declared,       \* the fields the server has
  Invalid,        \* the values no deadline and no flag has
  MaxOrders       \* bound: the commands run

Unset == <<>>

\* The value of k, none if it is not there.
Of(f, k) == IF k \in DOMAIN f THEN f[k] ELSE <<>>
Only(f, keys) == [k \in DOMAIN f \cap keys |-> f[k]]

\* What is new goes before what is old.
Over(new, old) ==
  [k \in DOMAIN new \cup DOMAIN old |-> IF k \in DOMAIN new THEN new[k] ELSE old[k]]

\* parse_flags and parse_optional_date_only
Parses(set) ==
  \A k \in {"deadline", "flags"} : \A n \in DOMAIN Of(set, k) : Of(set, k)[n] \notin Invalid

Usable(template) == template # Unset /\ Parses(template)

VARIABLES
  templates, \* the templates of the config file, each from fields to values
  maker,     \* the command of each process, what it has read and filed
  ordered    \* how many have begun

makerVars == <<templates, maker, ordered>>

\* A value is a sequence, of one word or of those of a list.
Scalars ==
  {"product", "component", "version", "priority", "severity", "assigned_to", "op_sys",
   "platform", "url", "whiteboard", "target_milestone", "deadline"}
Lists == {"cc", "keywords", "groups", "flags"}
TemplateFields == Scalars \cup Lists \cup {"description"}
JsonFields ==
  TemplateFields \cup {"summary", "alias", "blocks", "depends_on", "comment_tags", "comment",
                       "attachments"}
Typed == JsonFields \ {"comment_tags", "comment", "attachments"}

\* What is given has a value; only a text may have no lines.
Valued(set, fields) ==
  DOMAIN set \subseteq fields /\ \A k \in DOMAIN set \ {"description"} : set[k] # <<>>

\* The templates the file begins with were saved by these commands, whose flags
\* are the fields of a template.
ASSUME NewBugAssumption ==
  /\ \A t \in FirstTemplates : Usable(t) /\ Valued(t, TemplateFields)
  /\ \A o \in Orders :
       Valued(o.given, IF o.kind = "create" THEN JsonFields ELSE TemplateFields)
  /\ MaxOrders \in Nat

\* Where a text comes from, and what is in it: its lines and, if it is JSON, its
\* objects, in an array or one alone.
Blank == [lines |-> <<>>, objects |-> <<>>, array |-> FALSE]
IsObject(doc) == doc.objects # <<>> /\ ~doc.array
NoSource == [from |-> "none", doc |-> Blank]
Stdin == [from |-> "stdin", doc |-> Blank]

-----------------------------------------------------------------------------
NoOrder == [kind |-> "none", stdin |-> Blank]

\* description: <<>> or <<its lines>>; ready: the payloads, each with its plan.
Taken(o, stage) ==
  [stage |-> stage, order |-> o, stdin |-> o.stdin, description |-> <<>>, summary |-> <<>>,
   template |-> Unset, extra |-> <<>>, elements |-> <<>>, ready |-> <<>>, filed |-> <<>>]

NewBugInit ==
  /\ templates \in UNION {[names -> FirstTemplates] : names \in SUBSET TemplateNames}
  /\ maker = [m \in Makers |-> Taken(NoOrder, "idle")]
  /\ ordered = 0

Step(m, w) == maker' = [maker EXCEPT ![m] = w] /\ UNCHANGED <<templates, ordered>>
Refuse(m) == Step(m, [maker[m] EXCEPT !.stage = "failed"])
At(m, stage) == maker[m].stage = stage

\* reject_stdin_conflict; the input of a template is validated at once.
Refused(o) ==
  IF o.kind = "create"
    THEN o.fieldJson.from = "stdin" /\ "stdin" \in {o.json.from, o.description.from}
  ELSE \/ o.kind = "save" /\ ~Usable(o.given)
       \/ o.kind = "update" /\ o.given = Unset /\ o.clear = {}

FirstStage(o) ==
  IF Refused(o) THEN "failed" ELSE IF o.kind # "create" THEN "store"
  ELSE IF o.json.from = "none" THEN "describe" ELSE "extra"

BeginOrder(m) ==
  /\ maker[m].stage \in {"idle", "done", "failed"} /\ ordered < MaxOrders
  /\ ordered' = ordered + 1
  /\ \E o \in Orders : maker' = [maker EXCEPT ![m] = Taken(o, FirstStage(o))]
  /\ UNCHANGED templates

-----------------------------------------------------------------------------
(* Templates *)

Store(m, new) ==
  /\ templates' = new
  /\ maker' = [maker EXCEPT ![m].stage = "done"]
  /\ UNCHANGED ordered

SaveTemplate(m) ==
  LET o == maker[m].order IN
  /\ At(m, "store") /\ o.kind = "save"
  /\ Store(m, [t \in DOMAIN templates \cup {o.name} |->
                 IF t = o.name THEN o.given ELSE templates[t]])

\* merge_from and clear_field: what is cleared goes, given or not.
Changed(template, o) ==
  LET merged == Over(o.given, template) IN Only(merged, DOMAIN merged \ o.clear)

ChangeRefused(template, o) ==
  ~(o.clear \subseteq TemplateFields) \/ ~Usable(Changed(template, o))

UpdateTemplate(m) ==
  LET o == maker[m].order IN
  /\ At(m, "store") /\ o.kind = "update"
  /\ IF o.name \notin DOMAIN templates THEN Refuse(m)
     ELSE IF ChangeRefused(templates[o.name], o) THEN Refuse(m)
     ELSE Store(m, [templates EXCEPT ![o.name] = Changed(@, o)])

DeleteTemplate(m) ==
  LET o == maker[m].order IN
  /\ At(m, "store") /\ o.kind = "delete"
  /\ IF o.name \in DOMAIN templates THEN Store(m, Only(templates, DOMAIN templates \ {o.name}))
     ELSE Refuse(m)

-----------------------------------------------------------------------------
(* Reading: what is left of standard input is nothing. *)

Read(w, source) == IF source.from = "stdin" THEN w.stdin ELSE source.doc
After(w, source) == IF source.from = "stdin" THEN [w EXCEPT !.stdin = Blank] ELSE w

\* The description that is named, or else what is piped in; a person at a terminal
\* will be given the editor.
ResolveDescription(m) ==
  LET w == maker[m]
      named == w.order.description
      source == IF named.from # "none" THEN named ELSE IF w.order.tty THEN NoSource ELSE Stdin
  IN
  /\ At(m, "describe")
  /\ IF source.from = "none" THEN Step(m, [w EXCEPT !.stage = "template"])
     ELSE IF named.from = "none" /\ Read(w, source).lines = <<>> THEN Refuse(m)
     ELSE Step(m, [After(w, source) EXCEPT !.stage = "template",
                                           !.description = <<Read(w, source).lines>>])

\* The template as it is now; the flags go before it.
LoadTemplate(m) ==
  LET w == maker[m]
      o == w.order
      template == IF o.template = <<>> THEN Unset ELSE Of(templates, o.template[1])
      merged == Over(o.given, template)
  IN
  /\ At(m, "template")
  /\ IF /\ o.template # <<>> => o.template[1] \in DOMAIN templates
        /\ {"product", "component"} \subseteq DOMAIN merged
        /\ Parses(merged)
       THEN Step(m, [w EXCEPT !.stage = "compose", !.template = template]) ELSE Refuse(m)

TagsFit(tags, described) == tags # <<>> => described /\ \A n \in DOMAIN tags : tags[n] # ""

\* The editor opens with the summary and the template's description; the first
\* line that is left is the summary, the others are the description.
EditorBuffer(w) == Of(w.order.given, "summary") \o Of(w.template, "description")
Edited(w) == Buffers \cup {EditorBuffer(w)}
Composed(w, summary, description) ==
  [w EXCEPT !.stage = "extra", !.summary = summary, !.description = <<description>>]
Parsed(w, buffer) == Composed(w, <<buffer[1]>>, Tail(buffer))

Compose(m) ==
  LET w == maker[m]
      tags == Of(w.order.given, "comment_tags")
  IN
  /\ At(m, "compose")
  /\ IF w.description # <<>>
       THEN IF TagsFit(tags, TRUE) /\ "summary" \in DOMAIN w.order.given
              THEN Step(m, Composed(w, w.order.given["summary"], w.description[1])) ELSE Refuse(m)
       ELSE \/ Refuse(m)
            \/ \E buffer \in Edited(w) :
                 buffer # <<>> /\ TagsFit(tags, TRUE) /\ Step(m, Parsed(w, buffer))

\* --field and --field-json: each name once; a source that is named holds an object.
Pairs(o) == {o.fields[n][1] : n \in DOMAIN o.fields}
FromPairs(o) == [k \in Pairs(o) |-> (CHOOSE p \in {o.fields[n] : n \in DOMAIN o.fields} : p[1] = k)[2]]

\* Mutant of ExtraRefused: an empty source is taken for an object without fields.
ExtraRefusedUnlessEmpty(o, doc) ==
  \/ o.fieldJson.from # "none" /\ doc # Blank /\ ~IsObject(doc)
  \/ Cardinality(Pairs(o)) # Len(o.fields) \/ "" \in Pairs(o)
  \/ IsObject(doc) /\ (DOMAIN doc.objects[1] \cap Pairs(o) # {} \/ "" \in DOMAIN doc.objects[1])

ExtraRefused(o, doc) ==
  \/ o.fieldJson.from # "none" /\ ~IsObject(doc)
  \/ Cardinality(Pairs(o)) # Len(o.fields) \/ "" \in Pairs(o)
  \/ IsObject(doc) /\ (DOMAIN doc.objects[1] \cap Pairs(o) # {} \/ "" \in DOMAIN doc.objects[1])

ParseExtra(m) ==
  LET w == maker[m]
      o == w.order
      doc == Read(w, o.fieldJson)
  IN
  /\ At(m, "extra")
  /\ IF ExtraRefused(o, doc) THEN Refuse(m)
     ELSE Step(m, [After(w, o.fieldJson) EXCEPT
            !.stage = IF o.json.from = "none" THEN "check" ELSE "json",
            !.extra = Over(FromPairs(o), IF IsObject(doc) THEN doc.objects[1] ELSE <<>>)])

-----------------------------------------------------------------------------
(* The payload and the plan of what follows it *)

\* What goes on the wire: no empty list, but for the groups of a JSON document.
OnWire(set) == Only(set, {k \in Typed : Of(set, k) # <<>> \/ k \in {"groups", "description"}})

\* Mutant of Shadowed: it knows the fields of the command line only.
ShadowedByFlag(w, typed) == DOMAIN w.extra \cap DOMAIN OnWire(w.order.given) # {}

\* check_against: a field both typed and extra.
Shadowed(w, typed) == DOMAIN w.extra \cap DOMAIN typed # {}

Payload(w, typed, set) ==
  [typed |-> typed, extra |-> w.extra,
   plan |-> Only(set, {"comment", "attachments", "comment_tags"})]

\* A first comment has text; a file to attach may not be readable.
PlanFits(set) == "comment" \in DOMAIN set => set["comment"] # <<"">>

Unspecified == [version |-> <<"unspecified">>]

CheckFlags(m) ==
  LET w == maker[m]
      o == w.order
      template == Only(w.template, DOMAIN w.template \ {"description"})
      set == Over([summary |-> w.summary, description |-> w.description[1]],
                  Over(o.given, Over(template, Unspecified)))
      typed == OnWire(set)
  IN
  /\ At(m, "check")
  /\ \/ /\ ~Shadowed(w, typed) /\ PlanFits(set)
        /\ o.captions <= Len(Of(set, "attachments"))
        /\ Step(m, [w EXCEPT !.stage = "send", !.ready = <<Payload(w, typed, set)>>])
     \/ /\ \/ Shadowed(w, typed) \/ ~PlanFits(set) \/ o.captions > Len(Of(set, "attachments"))
           \/ Of(set, "attachments") # <<>>
        /\ Refuse(m)

\* The document, of a bug or of several, with no other keys than these.
ReadJson(m) ==
  LET w == maker[m]
      doc == Read(w, w.order.json)
  IN
  /\ At(m, "json")
  /\ IF doc.objects # <<>> /\ \A n \in DOMAIN doc.objects : DOMAIN doc.objects[n] \subseteq JsonFields
       THEN Step(m, [After(w, w.order.json) EXCEPT !.stage = "overlay", !.elements = doc.objects])
       ELSE Refuse(m)

\* The flags go before what an element says; a description that is named is read
\* for every element.
Overlaid(w) ==
  LET o == w.order
      description == IF o.description.from = "none" THEN <<>>
                     ELSE [description |-> Read(w, o.description).lines]
  IN  Over(description, Over(o.given, Over(Head(w.elements), Unspecified)))

ElementFits(w, set) ==
  /\ {"product", "component", "summary"} \subseteq DOMAIN set
  /\ Parses(set) /\ PlanFits(set) /\ ~Shadowed(w, OnWire(set))
  /\ TagsFit(Of(set, "comment_tags"), "description" \in DOMAIN set)

OverlayElement(m) ==
  LET w == maker[m]
      set == Overlaid(w)
  IN
  /\ At(m, "overlay")
  /\ \/ /\ ElementFits(w, set)
        /\ Step(m, [After(w, w.order.description) EXCEPT
                      !.elements = Tail(@), !.ready = Append(@, Payload(w, OnWire(set), set)),
                      !.stage = IF Len(w.elements) = 1 THEN "send" ELSE "overlay"])
     \/ (~ElementFits(w, set) \/ Of(set, "attachments") # <<>>) /\ Refuse(m)

\* A dry run ends here.  Every extra field of every bug is known to the server, or
\* nothing is sent.
Preflight(m) ==
  LET w == maker[m] IN
  /\ At(m, "send")
  /\ IF w.order.dryRun THEN Step(m, [w EXCEPT !.stage = "done"])
     ELSE \/ DOMAIN w.extra \subseteq Declared /\ Step(m, [w EXCEPT !.stage = "file"])
          \/ Refuse(m)

\* create_bug, for one after the other; a bug that fails is left out.
File(m) ==
  LET w == maker[m]
      next == [w EXCEPT !.ready = Tail(@), !.stage = IF Len(w.ready) = 1 THEN "done" ELSE "file"]
  IN
  /\ At(m, "file")
  /\ Step(m, next) \/ Step(m, [next EXCEPT !.filed = Append(@, Head(w.ready))])

NewBugNext ==
  \E m \in Makers :
    \/ BeginOrder(m) \/ SaveTemplate(m) \/ UpdateTemplate(m) \/ DeleteTemplate(m)
    \/ ResolveDescription(m) \/ LoadTemplate(m) \/ Compose(m) \/ ParseExtra(m) \/ CheckFlags(m)
    \/ ReadJson(m) \/ OverlayElement(m) \/ Preflight(m) \/ File(m)

NewBugSpec == NewBugInit /\ [][NewBugNext]_makerVars

-----------------------------------------------------------------------------
(* Properties *)

NewBugTypeOK ==
  /\ DOMAIN templates \subseteq TemplateNames
  /\ \A t \in DOMAIN templates : DOMAIN templates[t] \subseteq TemplateFields
  /\ ordered \in 0..MaxOrders
  /\ \A m \in Makers :
       maker[m].stage \in {"idle", "store", "describe", "template", "compose", "extra", "check",
                           "json", "overlay", "send", "file", "done", "failed"}

\* Whatever of a bug is to come from standard input comes from it whole, though
\* the description, piped in without a flag, and --field-json - may both read it:
\* the second reader finds nothing, and then no bug is filed ("stdin can only be
\* read once", parse_json_source).
FromStdin(m, n) ==
  LET o == maker[m].order
      bug == maker[m].filed[n]
      piped == o.description = NoSource /\ ~o.tty /\ o.json = NoSource
  IN  /\ o.description = Stdin \/ piped => bug.typed["description"] = o.stdin.lines
      /\ o.fieldJson = Stdin =>
           /\ IsObject(o.stdin)
           /\ \A k \in DOMAIN o.stdin.objects[1] : Of(bug.extra, k) = o.stdin.objects[1][k]
StdinWhole ==
  \A m \in Makers : \A n \in DOMAIN maker[m].filed :
    maker[m].order.json = NoSource => FromStdin(m, n)

\* The same of a bug from JSON: "Explicit CLI flags override the corresponding
\* JSON field (applied to every element of an array)".
StdinWholeInJson == \A m \in Makers : \A n \in DOMAIN maker[m].filed : FromStdin(m, n)

\* A bug is filed with all that was asked for and nothing twice: what a flag says
\* goes before the template or the document, wherever it is said - by a flag of
\* its own or by --field, which must not meet the template's (check_against).
FiledAsAsked ==
  \A m \in Makers : \A n \in DOMAIN maker[m].filed :
    LET w == maker[m]
        bug == w.filed[n]
        named == Over(Only(w.order.given, Typed \ {"summary", "description"}), FromPairs(w.order))
        request == {<<k, bug.typed[k]>> : k \in DOMAIN bug.typed}
                     \cup {<<k, bug.extra[k]>> : k \in DOMAIN bug.extra}
    IN  /\ \A p, q \in request : p[1] = q[1] => p = q
        /\ \A k \in DOMAIN named : <<k, named[k]>> \in request
        /\ w.order.json = NoSource =>
             \A k \in DOMAIN w.template \ (DOMAIN named \cup {"description"}) :
               <<k, w.template[k]>> \in request

\* A template that is stored can be used: it sets something, and its deadline and
\* flags are such as `bug create` takes, whatever updates and deletes of it meet.
TemplatesUsable == \A t \in DOMAIN templates : Usable(templates[t])
=============================================================================
