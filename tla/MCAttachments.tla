--------------------------- MODULE MCAttachments ---------------------------
(* Attachments, and the answers AttachmentStream reads, for TLC. *)
EXTENDS Attachments, AttachmentStream

Symmetry == Permutations(Bugs)

-----------------------------------------------------------------------------
(* Answers that hold the attachments 7 and 8; 7 is asked for. *)

Whole == <<"A", "B", "C", "D">>
Short == <<"E", "F", "=", "=">>
Others == Text(<<"X", "Y", "Z", "X">>)

Typed(type, tokens) == <<Open(type)>> \o tokens \o <<Close(type)>>
XmlMember(name, value) ==
  <<Open("member"), Open("name"), Text(name), Close("name")>> \o value \o <<Close("member")>>
XmlValue(tokens) == Typed("value", tokens)
XmlStruct(members) == Typed("value", Typed("struct", FlattenSeq(members)))
XmlNumber(n) == XmlValue(Typed("int", <<Text(n)>>))
XmlAttachment(n, data) ==
  XmlStruct(<<XmlMember(<<"id">>, XmlNumber(n)), XmlMember(<<"data">>, data)>>)
XmlReply(attachments) ==
  Typed("methodResponse", Typed("params", Typed("param",
    XmlStruct(<<XmlMember(<<"attachments">>, XmlStruct(attachments))>>))))
XmlEntry(n, data) == XmlMember(<<n>>, XmlAttachment(<<n>>, data))
XmlBoth(data, other) == XmlReply(<<XmlEntry("8", other), XmlEntry("7", data)>>)

Comma == Token("comma", <<>>)
JsonMember(name, value) == <<Text(name), Token("colon", <<>>)>> \o value
JsonObject(members) ==
  <<Open("{")>> \o FlattenSeq([n \in DOMAIN members |->
     IF n = 1 THEN members[n] ELSE <<Comma>> \o members[n]]) \o <<Close("}")>>
JsonAttachment(n, data) ==
  JsonObject(<<JsonMember(<<"data">>, <<data>>), JsonMember(<<"id">>, <<Id(n)>>)>>)
JsonEntry(n, data) == JsonMember(<<n>>, JsonAttachment(<<n>>, data))
JsonBoth(data, other) ==
  JsonObject(<<JsonMember(<<"attachments">>, JsonObject(<<JsonEntry("8", other), JsonEntry("7", data)>>))>>)
JsonList(attachments) ==
  JsonObject(<<JsonMember(<<"attachments">>,
    <<Open("[")>> \o FlattenSeq([n \in DOMAIN attachments |->
       IF n = 1 THEN attachments[n] ELSE <<Comma>> \o attachments[n]]) \o <<Close("]")>>)>>)

Answer(protocol, tokens, meant, sound) ==
  [protocol |-> protocol, tokens |-> tokens, id |-> <<"7">>, meant |-> meant, sound |-> sound]

\* Ways to write the same data.
Pieces == <<Text(<<"A", " ">>), Token("comment", <<>>), Token("entity", <<"B">>),
            Token("cdata", <<"C", " ", "D">>), Text(Short)>>
Long == [n \in 1..120 |-> LET c == <<Whole[1 + ((n - 1) % 4)]>>
                            IN  IF n % 2 = 0 THEN Token("cdata", c) ELSE Text(c)]
WholeAndShort == <<Whole, Short>>

XmlForms ==
  { <<XmlValue(Typed("base64", <<Text(Whole \o Short)>>)), WholeAndShort>>,
    <<XmlValue(Typed("string", Pieces)), WholeAndShort>>,
    <<XmlValue(<<Token("space", <<>>)>> \o Pieces), WholeAndShort>>,
    <<XmlValue(<<Token("cdata", Whole)>>), <<Whole>>>>,
    <<XmlValue(Typed("base64", Long)), [n \in 1..30 |-> Whole]>>,
    <<XmlValue(<<Open("base64"), Close("base64")>>), <<>>>>,
    <<XmlValue(<<Empty("string")>>), <<>>>>,
    <<<<Empty("value")>>, <<>>>> }

\* Data that is no base64.
Spoiled == { <<"A">>, Whole \o <<"B", "C">>, <<"A", "!", "B", "C">>, Short \o Whole }

Bytes(data) == XmlValue(Typed("base64", <<Text(data)>>))
Fine == Bytes(Whole)
Other == Bytes(<<"X", "Y", "Z", "X">>)

Sound ==
  { Answer("xml", <<Token("declaration", <<>>)>> \o XmlBoth(f[1], Other) \o <<Token("space", <<>>)>>, f[2], TRUE)
    : f \in XmlForms }
  \cup { Answer("xml", XmlBoth(Fine, Bytes(s)), <<Whole>>, TRUE) : s \in Spoiled }
  \cup { Answer("json", JsonBoth(Text(Whole), other), <<Whole>>, TRUE)
         : other \in {Others, Null} \cup { Text(s) : s \in Spoiled } }
  \cup { Answer("json", JsonList(<<JsonAttachment(<<"8">>, Others), JsonAttachment(<<"7">>, Text(Short))>>),
                <<Short>>, TRUE) }

Missing == <<<<"none">>>>

\* Data that cannot be decoded or is not there, the same number twice, another
\* number inside, a fault, too much besides the data, too deep, and two answers in one.
Unsound ==
  { Answer("xml", XmlBoth(Bytes(s), Other), Missing, FALSE) : s \in Spoiled }
  \cup { Answer("json", JsonBoth(d, Others), Missing, FALSE)
         : d \in {Null, Id(<<"7">>)} \cup { Text(s) : s \in Spoiled \cup {Whole \o <<" ">>} } }
  \cup { Answer("xml", tokens, Missing, FALSE) : tokens \in
         { XmlReply(<<XmlEntry("8", Other)>>),
           XmlReply(<<XmlMember(<<"7">>, XmlAttachment(<<"8">>, Other))>>),
           XmlReply(<<XmlMember(<<"7">>, XmlStruct(<<XmlMember(<<"id">>, XmlNumber(<<"7">>))>>))>>),
           XmlBoth(XmlStruct(<<XmlMember(<<"data">>, Other)>>), Other),
           XmlBoth(XmlValue(Typed("int", <<Text(<<"7">>)>>)), Other),
           XmlBoth(XmlValue(<<Text(Whole), Token("declaration", <<>>)>>), Other),
           Typed("methodResponse", Typed("fault", XmlStruct(<<XmlMember(<<"data">>, Fine)>>))),
           <<Token("doctype", <<>>)>> \o XmlBoth(Fine, Other),
           XmlReply(<<XmlMember(<<"7">>, XmlAttachment(<<"7">>,
             XmlValue(Typed("array", Typed("data", XmlValue(Typed("array", Typed("data", Fine))))))))>>) } }
  \cup { Answer("xml", [n \in 1..150 |-> Token("comment", <<>>)] \o XmlBoth(Fine, Other), Missing, FALSE),
         Answer("json", JsonList(<<JsonAttachment(<<"7">>, Others), JsonAttachment(<<"7">>, Text(Whole))>>),
                Missing, FALSE),
         Answer("xml", XmlBoth(Fine, Other) \o XmlBoth(Other, Fine), <<Whole>>, FALSE),
         Answer("json", JsonBoth(Text(Whole), Others) \o JsonBoth(Others, Text(Whole)), <<Whole>>, FALSE) }

\* A token lost, sent twice, or out of order; the data themselves are not touched.
Kept(a, n) == a.tokens[n] \notin {Text(Whole), Others}
Damaged(a) ==
  LET Changed(tokens) == [a EXCEPT !.tokens = tokens, !.sound = FALSE]
      ts == a.tokens
  IN  { Changed(RemoveAt(ts, n)) : n \in { m \in DOMAIN ts : Kept(a, m) } }
      \cup { Changed(InsertAt(ts, n, ts[n])) : n \in { m \in DOMAIN ts : Kept(a, m) } }
      \cup { Changed([ts EXCEPT ![n] = ts[n + 1], ![n + 1] = ts[n]]) : n \in 1..(Len(ts) - 1) }

MCAnswers ==
  Sound \cup Unsound
  \cup Damaged(Answer("xml", XmlBoth(Fine, XmlValue(<<Others>>)), <<Whole>>, TRUE))
  \cup Damaged(Answer("json", JsonBoth(Text(Whole), Others), <<Whole>>, TRUE))

-----------------------------------------------------------------------------
(* One at work, the other idle. *)

NoStream ==
  /\ answer = [protocol |-> "none", tokens |-> <<>>, id |-> <<>>, meant |-> <<>>, sound |-> FALSE]
  /\ arrived = 0 /\ parser = <<>> /\ body = <<>> /\ payload = <<>> /\ file = <<>>
  /\ spans = <<>> /\ outcome = [is |-> "idle"]

NoCommand ==
  /\ form = "none" /\ targets = <<>> /\ option = FALSE /\ insider = FALSE /\ old = <<>>
  /\ stage = "none" /\ i = 0 /\ queue = <<>> /\ at = 0 /\ done = {} /\ failed = {}
  /\ received = {} /\ disk = <<>> /\ ended = "none"
  /\ stored = <<>> /\ thread = <<>> /\ late = {} /\ others = MaxOthers

MCAllSpec ==
  /\ (TransferInit /\ NoStream) \/ (StreamInit /\ NoCommand)
  /\ [][\/ TransferNext /\ UNCHANGED streamVars
        \/ StreamNext /\ UNCHANGED transferVars]_<<transferVars, streamVars>>
=============================================================================
