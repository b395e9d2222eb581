------------------------------ MODULE MCNewBug ------------------------------
(* The bug `bug create` files, for TLC. *)
EXTENDS NewBug, TLC

Text(line) == [Blank EXCEPT !.lines = <<line>>]
Json(objects, array) == [lines |-> <<"{}">>, objects |-> objects, array |-> array]
InFile(doc) == [from |-> "file", doc |-> doc]

CreateOrder ==
  [kind |-> "create", given |-> [product |-> <<"p">>, component |-> <<"c">>, summary |-> <<"s">>],
   description |-> InFile(Text("d")), fieldJson |-> NoSource, json |-> NoSource, fields |-> <<>>,
   template |-> <<>>, captions |-> 0, tty |-> TRUE, stdin |-> Blank, dryRun |-> FALSE]
FromTemplate == [CreateOrder EXCEPT !.given = [summary |-> <<"s">>], !.template = <<"t">>]
Piped(o, doc) == [o EXCEPT !.tty = FALSE, !.stdin = doc]

Custom == Json(<<[cf_a |-> <<"1", "2">>]>>, FALSE)
Element(summary) ==
  [product |-> <<"p">>, component |-> <<"c">>, summary |-> <<summary>>, description |-> <<"d">>]

Flagged ==
  {CreateOrder, [CreateOrder EXCEPT !.dryRun = TRUE], [CreateOrder EXCEPT !.description = NoSource],
   [CreateOrder EXCEPT !.captions = 1], [CreateOrder EXCEPT !.fields = <<<<"cf_b", <<"x">>>>>>],
   [CreateOrder EXCEPT !.fields = <<<<"cf_a", <<"x">>>>, <<"cf_a", <<"y">>>>>>],
   [CreateOrder EXCEPT !.given = @ @@ [comment |-> <<"">>]],
   [CreateOrder EXCEPT !.given = @ @@ [attachments |-> <<"file">>], !.captions = 1],
   [CreateOrder EXCEPT !.given = @ @@ [comment_tags |-> <<"t">>, deadline |-> <<"never">>]]}

FromPipe ==
  {Piped([CreateOrder EXCEPT !.description = NoSource, !.fieldJson = fields], doc) :
     fields \in {NoSource, Stdin, InFile(Custom)}, doc \in {Blank, Text("d"), Custom}}
  \cup {Piped([CreateOrder EXCEPT !.description = Stdin, !.fieldJson = fields], Custom) :
          fields \in {NoSource, Stdin}}
  \cup {Piped([CreateOrder EXCEPT !.fieldJson = Stdin, !.fields = <<<<"cf_a", <<"x">>>>>>], Custom),
        Piped([CreateOrder EXCEPT !.fieldJson = Stdin], Custom)}

Templated ==
  {FromTemplate, [FromTemplate EXCEPT !.description = NoSource],
   [FromTemplate EXCEPT !.description = NoSource, !.given = [comment_tags |-> <<"t">>]],
   [FromTemplate EXCEPT !.given = @ @@ [whiteboard |-> <<"w">>]],
   [FromTemplate EXCEPT !.fields = <<<<"whiteboard", <<"x">>>>>>]}

InJson ==
  {Piped([CreateOrder EXCEPT !.json = Stdin, !.description = NoSource, !.given = given, !.fields = fields],
         Json(objects, Len(objects) # 1)) :
     given \in {Unset, [comment_tags |-> <<"t">>, groups |-> <<"g">>]},
     fields \in {<<>>, <<<<"cf_a", <<"x">>>>>>, <<<<"groups", <<"x">>>>>>},
     objects \in {<<[groups |-> <<>>] @@ Element("s")>>,
                  <<Element("s"), [attachments |-> <<"file">>] @@ Element("t")>>,
                  <<Element("s"), Only(Element("t"), {"product", "summary"})>>}}
  \cup {Piped([CreateOrder EXCEPT !.json = Stdin], Text("no JSON"))}

TemplateOrder(kind, name) == [kind |-> kind, name |-> name, given |-> Unset, clear |-> {}, stdin |-> Blank]
OfTemplates ==
  {[TemplateOrder("save", "t") EXCEPT !.given = g] : g \in {Unset, [whiteboard |-> <<"w">>], [deadline |-> <<"never">>]}}
  \cup {[TemplateOrder("update", "t") EXCEPT !.given = g, !.clear = c] :
          g \in {Unset, [priority |-> <<"P1">>], [flags |-> <<"bad">>]},
          c \in {{}, {"product", "component", "description"}, {"whiteboard", "priority"}, {"nonsense"}}}
  \cup {TemplateOrder("delete", "t")}

MCOrders == Flagged \cup FromPipe \cup Templated \cup InJson \cup OfTemplates
MCTwiceRead ==
  {Piped([CreateOrder EXCEPT !.json = InFile(Json(<<Element("s"), Element("t")>>, TRUE)),
                             !.description = Stdin], Text("d"))}
MCFirstTemplates ==
  {[product |-> <<"p">>, component |-> <<"c">>, description |-> <<"first", "second">>],
   [product |-> <<"p">>, component |-> <<"c">>, whiteboard |-> <<"w">>]}
MCBuffers == {<<>>, <<"line">>, <<"line", "more">>}
=============================================================================
