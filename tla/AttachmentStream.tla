-------------------------- MODULE AttachmentStream --------------------------
(***************************************************************************)
(* How the answer to an attachment download is taken apart while it        *)
(* arrives (client/attachment_stream).  The data of every attachment in it *)
(* is decoded into a temporary file; the rest stays in memory, with a      *)
(* marker in the place of each data, and is then read by the parser of     *)
(* other answers, which has to find the marker of the attachment asked for.*)
(*                                                                         *)
(* The unit is a token: a tag, a comment, a run of text, a JSON string.    *)
(* Text is a sequence of symbols; " " is white space amid it, "=" and "!"  *)
(* are the padding of base64 and what base64 does not know, and any other  *)
(* symbol is a character, a digit or a name.                               *)
(***************************************************************************)
EXTENDS Integers, Sequences, FiniteSets, SequencesExt, TLC

CONSTANTS
  Answers,   \* what a server may send: [protocol, tokens, id, meant, sound]
  Limit,     \* MAX_RESPONSE_BODY_BYTES, in tokens kept in memory
  MaxDepth   \* 128: elements or containers inside each other

ASSUME AttachmentStreamAssumption == Limit \in Nat /\ MaxDepth \in Nat

VARIABLES
  answer,    \* the answer, and the attachment asked for
  arrived,   \* how many of its tokens have been read
  parser,    \* where in the document the reader is
  body,      \* the tokens kept
  payload,   \* <<>>, or the data under way
  file,      \* the temporary file, a sequence of quartets
  spans,     \* where in the file each data is
  outcome    \* "reading", "error", or what the download hands on

streamVars == <<answer, arrived, parser, body, payload, file, spans, outcome>>

-----------------------------------------------------------------------------
(* Tokens *)

Tag(kind, name) == [is |-> kind, of |-> name]
Open(name) == Tag("open", name)
Close(name) == Tag("close", name)
Empty(name) == Tag("empty", name)
Text(symbols) == [is |-> "text", of |-> symbols]
Token(kind, symbols) == [is |-> kind, of |-> symbols]

Visible(symbols) == SelectSeq(symbols, LAMBDA s : s # " ")

\* White space between tags, a comment, a declaration or an instruction.
Blank(t) == t.is \in {"space", "comment", "declaration"}

Characters(t) == t.is \in {"text", "entity", "cdata"}

Marker(n) == "payload-" \o ToString(n)

-----------------------------------------------------------------------------
(* Decoder *)

NoDecoder == [quartet |-> <<>>, padded |-> FALSE, error |-> FALSE, file |-> <<>>]

\* Characters, then at most two "=".
ValidQuartet(q) ==
  /\ \A n \in 1..4 : q[n] \notin {"!", " "}
  /\ "=" \notin {q[1], q[2]}
  /\ q[3] = "=" => q[4] = "="

Push(d, symbol) ==
  LET q == Append(d.quartet, symbol)
  IN  IF d.error THEN d
        ELSE IF d.padded THEN [d EXCEPT !.error = TRUE]
        ELSE IF Len(q) < 4 THEN [d EXCEPT !.quartet = q]
        ELSE IF ValidQuartet(q) THEN
             [d EXCEPT !.quartet = <<>>, !.padded = "=" \in ToSet(q), !.file = Append(@, q)]
        ELSE [d EXCEPT !.quartet = <<>>, !.error = TRUE]

Decoded(symbols) == FoldLeft(Push, NoDecoder, symbols)

\* Mutant of SpanOf: an incomplete quartet is dropped.
SpanOfWhole(d) == [from |-> Len(file), length |-> Len(d.file), error |-> d.error]

\* finish_payload
SpanOf(d) ==
  [from |-> Len(file), length |-> Len(d.file), error |-> d.error \/ d.quartet # <<>>]

\* What base64 makes of a text, or that it is not base64.
IsBase64(symbols) == ~Decoded(symbols).error /\ Decoded(symbols).quartet = <<>>

-----------------------------------------------------------------------------
(* The reader *)

Reading(t) ==
  /\ outcome.is = "reading"
  /\ arrived < Len(answer.tokens)
  /\ t = answer.tokens[arrived + 1]
  /\ arrived' = arrived + 1
  /\ UNCHANGED answer

Refuse ==
  /\ outcome' = [is |-> "error", at |-> "token"]
  /\ UNCHANGED <<parser, body, payload, file, spans>>

\* retain: what is kept in memory is bounded, what goes to the file is not.
Keep(tokens) == body' = body \o tokens /\ UNCHANGED <<file, spans, outcome>>

Fits(tokens) == Len(body) + Len(tokens) <= Limit

Marked == Text(<<Marker(Len(spans))>>)

\* finish_payload, and the tokens kept with the marker.
Divert(d, tokens) ==
  /\ body' = body \o tokens
  /\ file' = file \o d.file
  /\ spans' = Append(spans, SpanOf(d))
  /\ UNCHANGED outcome

NoParser(protocol) ==
  IF protocol = "xml"
    THEN [stack |-> <<>>, last |-> <<>>, members |-> <<>>, keys |-> <<>>, name |-> 0, root |-> FALSE]
    ELSE [frames |-> <<>>, expect |-> "value"]

StreamInit ==
  /\ answer \in Answers
  /\ arrived = 0
  /\ parser = NoParser(answer.protocol)
  /\ body = <<>> /\ payload = <<>> /\ file = <<>> /\ spans = <<>>
  /\ outcome = [is |-> "reading"]

-----------------------------------------------------------------------------
(* XML: XmlState *)

Top(seq, other) == IF seq = <<>> THEN other ELSE Last(seq)
Element == Top(parser.stack, "")
Scalars == {"string", "int", "i4", "boolean", "double", "dateTime.iso8601", "base64"}

Content(parent) ==
  CASE parent = "methodResponse" -> {"params", "fault"}
    [] parent = "params" -> {"param"}
    [] parent \in {"param", "fault", "data"} -> {"value"}
    [] parent = "member" -> {"name", "value"}
    [] parent = "value" -> Scalars \cup {"array", "struct"}
    [] parent = "struct" -> {"member"}
    [] parent = "array" -> {"data"}
    [] OTHER -> {}

\* One child only, but in a list, and in a member a name and then a value.
MayFollow(name) ==
  \/ Element \in {"struct", "data"}
  \/ Element = "member" /\ name = "value" /\ Last(parser.last) = "name"
  \/ Last(parser.last) = "" /\ ~(Element = "member" /\ name = "value")

\* validate_child
ChildFits(name) ==
  parser.stack = <<>> \/ (name \in Content(Element) /\ MayFollow(name))

SeenChild(p, name) ==
  IF p.stack = <<>> \/ Last(p.stack) \in {"struct", "data"} THEN p
  ELSE [p EXCEPT !.last[Len(p.last)] = name]

\* validate_text
TextFits ==
  \/ Element = "value" /\ Last(parser.last) \in {"", "#text"}
  \/ Element \in Scalars \cup {"name"}

SeenText(p) == IF Element = "value" THEN [p EXCEPT !.last[Len(p.last)] = "#text"] ELSE p

InDataMember == Top(parser.members, "") = "data"
InDataValue == InDataMember /\ Element = "value"

PushElement(p, name) ==
  [p EXCEPT !.stack = Append(@, name), !.last = Append(@, ""), !.root = TRUE,
            !.members = IF name = "member" THEN Append(@, "") ELSE @,
            !.keys = IF name = "struct" THEN Append(@, {}) ELSE @,
            !.name = IF name = "name" THEN Len(body) + 2 ELSE @]

PopElement(p) == [p EXCEPT !.stack = Front(@), !.last = Front(@)]

\* A tag opens: in the value of data a scalar is data, any other is an element.
OpenTag ==
  \E t \in ToSet(answer.tokens) :
    /\ Reading(t) /\ answer.protocol = "xml" /\ payload = <<>>
    /\ t.is = "open"
    /\ IF /\ ChildFits(t.of) /\ Fits(<<t>>)
          /\ parser.stack = <<>> => ~parser.root /\ t.of = "methodResponse"
          /\ Len(parser.stack) < MaxDepth
         THEN /\ Keep(<<t>>)
              /\ IF InDataValue /\ t.of \in {"base64", "string"}
                   THEN parser' = SeenChild(parser, t.of) /\ payload' = <<t.of, <<>>>>
                   ELSE parser' = PushElement(SeenChild(parser, t.of), t.of) /\ UNCHANGED payload
         ELSE Refuse

\* The symbols of some tokens, without comments: the text of an element.
TextOf(tokens) ==
  FlattenSeq([n \in DOMAIN tokens |->
                IF tokens[n].is \in {"text", "entity", "cdata"} THEN Visible(tokens[n].of) ELSE <<>>])

\* The name of a member is the text since its tag.
NameText == TextOf(SubSeq(body, parser.name, Len(body)))
FieldName == IF NameText = <<"data">> THEN "data" ELSE "another"

\* A tag closes: end.
CloseTag ==
  \E t \in ToSet(answer.tokens) :
    /\ Reading(t) /\ answer.protocol = "xml" /\ payload = <<>>
    /\ t.is = "close"
    /\ IF /\ Element = t.of /\ Fits(<<t>>)
          /\ t.of = "name" /\ parser.keys # <<>> => NameText \notin Last(parser.keys)
         THEN /\ Keep(<<t>>)
              /\ parser' =
                   LET p == PopElement(parser)
                   IN  CASE t.of = "name" ->
                              [p EXCEPT !.keys[Len(p.keys)] = @ \cup {NameText},
                                        !.members[Len(p.members)] = FieldName]
                         [] t.of = "struct" -> [p EXCEPT !.keys = Front(@)]
                         [] t.of = "member" -> [p EXCEPT !.members = Front(@)]
                         [] OTHER -> p
              /\ UNCHANGED payload
         ELSE Refuse

\* An element without content; data may be one, or the value it would be in.
EmptyTag ==
  \E t \in ToSet(answer.tokens) :
    /\ Reading(t) /\ answer.protocol = "xml" /\ payload = <<>>
    /\ t.is = "empty"
    /\ LET isData == \/ InDataValue /\ t.of \in {"base64", "string"}
                     \/ InDataMember /\ Element = "member" /\ t.of = "value"
           kept == IF isData THEN <<Open(t.of), Marked, Close(t.of)>> ELSE <<t>>
       IN  IF parser.stack # <<>> /\ ChildFits(t.of) /\ Fits(kept)
             THEN /\ parser' = SeenChild(parser, t.of)
                  /\ IF isData THEN Divert(NoDecoder, kept) ELSE Keep(kept)
                  /\ UNCHANGED payload
             ELSE Refuse

\* Text: in the value of data it is data, up to the end of the value.
ReadText ==
  \E t \in ToSet(answer.tokens) :
    /\ Reading(t) /\ answer.protocol = "xml" /\ payload = <<>>
    /\ Characters(t)
    /\ IF TextFits /\ (InDataValue \/ Fits(<<t>>))
         THEN /\ parser' = SeenText(parser)
              /\ IF InDataValue
                   THEN payload' = <<"value", Visible(t.of)>> /\ UNCHANGED <<body, file, spans, outcome>>
                   ELSE Keep(<<t>>) /\ UNCHANGED payload
         ELSE Refuse

\* What says nothing is kept as it is.
ReadBlank ==
  \E t \in ToSet(answer.tokens) :
    /\ Reading(t) /\ answer.protocol = "xml" /\ payload = <<>>
    /\ Blank(t)
    /\ IF Fits(<<t>>) THEN Keep(<<t>>) /\ UNCHANGED <<parser, payload>> ELSE Refuse

\* Amid data, comments only.
ReadCommentInData ==
  \E t \in ToSet(answer.tokens) :
    /\ Reading(t) /\ payload # <<>>
    /\ Blank(t)
    /\ CASE t.is = "space" -> UNCHANGED <<parser, body, payload, file, spans, outcome>>
         [] t.is = "comment" /\ Fits(<<t>>) -> Keep(<<t>>) /\ UNCHANGED <<parser, payload>>
         [] OTHER -> Refuse

\* A document type, or what is no markup at all.
ReadOther ==
  \E t \in ToSet(answer.tokens) :
    /\ Reading(t) /\ answer.protocol = "xml"
    /\ t.is \in {"doctype", "malformed"}
    /\ Refuse

\* xml_payload: more of the data.
ReadData ==
  \E t \in ToSet(answer.tokens) :
    /\ Reading(t) /\ payload # <<>>
    /\ Characters(t)
    /\ payload' = [payload EXCEPT ![2] = @ \o Visible(t.of)]
    /\ UNCHANGED <<parser, body, file, spans, outcome>>

\* Its end: the closing tag.  Any other tag is an error.
EndData ==
  \E t \in ToSet(answer.tokens) :
    /\ Reading(t) /\ payload # <<>>
    /\ t.is \in {"open", "close", "empty"}
    /\ IF t = Close(payload[1]) /\ Fits(<<Marked, t>>)
         THEN /\ Divert(Decoded(payload[2]), <<Marked, t>>)
              /\ parser' = IF t.of = "value" THEN PopElement(parser) ELSE parser
              /\ payload' = <<>>
         ELSE Refuse

-----------------------------------------------------------------------------
(* JSON: json_value and what it calls, its calls a stack of frames *)

Frame(kind) == [is |-> kind, keys |-> {}, key |-> <<>>]
Depth == Len(parser.frames)
After(frames) == [frames |-> frames, expect |-> IF frames = <<>> THEN "end" ELSE "delimiter"]

\* In an object, after a member's name.
Member(p, name) ==
  [p EXCEPT !.expect = "colon", !.frames[Len(p.frames)].key = name,
            !.frames[Len(p.frames)].keys = @ \cup {name}]

\* A string that is the value of a member "data".
IsJsonData(t) ==
  /\ t.is = "text" /\ parser.expect = "value"
  /\ Top(parser.frames, Frame("none")).is = "{" /\ Last(parser.frames).key = <<"data">>

\* What the reader expects after a token, or <<>> if the token does not fit.
JsonNext(t) ==
  LET e == parser.expect
      f == Top(parser.frames, Frame("none"))
      Value == e \in {"value", "value or ]"} /\ (Depth < MaxDepth \/ IsJsonData(t))
  IN  CASE t.is = "space" -> <<parser>>
        [] t = Open("{") /\ Value -> <<[frames |-> Append(parser.frames, Frame("{")), expect |-> "name or }"]>>
        [] t = Open("[") /\ Value -> <<[frames |-> Append(parser.frames, Frame("[")), expect |-> "value or ]"]>>
        [] t.is \in {"text", "literal"} /\ Value -> <<After(parser.frames)>>
        [] t.is = "text" /\ e \in {"name", "name or }"} /\ t.of \notin f.keys -> <<Member(parser, t.of)>>
        [] t.is = "colon" /\ e = "colon" -> <<[parser EXCEPT !.expect = "value"]>>
        [] t.is = "comma" /\ e = "delimiter" ->
             <<[parser EXCEPT !.expect = IF f.is = "{" THEN "name" ELSE "value"]>>
        [] t = Close("}") /\ f.is = "{" /\ e \in {"name or }", "delimiter"} -> <<After(Front(parser.frames))>>
        [] t = Close("]") /\ f.is = "[" /\ e \in {"value or ]", "delimiter"} -> <<After(Front(parser.frames))>>
        [] OTHER -> <<>>

\* The string of data is left out, but for its quotes around the marker.
ReadJson ==
  \E t \in ToSet(answer.tokens) :
    /\ Reading(t) /\ answer.protocol = "json"
    /\ IF JsonNext(t) # <<>> /\ Fits(<<t>>)
         THEN /\ parser' = JsonNext(t)[1]
              /\ IF IsJsonData(t) THEN Divert(Decoded(t.of), <<Marked>>) ELSE Keep(<<t>>)
              /\ UNCHANGED payload
         ELSE Refuse

-----------------------------------------------------------------------------
(* What was kept, read as any other answer: the markers of the attachment *)

\* How far the elements open between two places are from being closed.
Level(ts, from, to) ==
  Cardinality({ n \in from..to : ts[n].is = "open" })
    - Cardinality({ n \in from..to : ts[n].is = "close" })

ClosingOf(ts, k) ==
  CHOOSE n \in (k + 1)..Len(ts) :
    Level(ts, k, n) = 0 /\ \A m \in (k + 1)..(n - 1) : Level(ts, k, m) > 0

\* The places directly inside the element, object or array at k.
Inside(ts, k) == { n \in (k + 1)..(ClosingOf(ts, k) - 1) : Level(ts, k + 1, n - 1) = 0 }

Digits == {"0", "1", "2", "3", "4", "5", "6", "7", "8", "9"}
IsNumber(symbols) == symbols # <<>> /\ ToSet(symbols) \subseteq Digits

\* XML (parse_response): empty elements are expanded first.
Expanded ==
  FlattenSeq([n \in DOMAIN body |->
    IF body[n].is = "empty" THEN <<Open(body[n].of), Close(body[n].of)>> ELSE <<body[n]>>])

Children(ts, ks, name) == UNION { { n \in Inside(ts, k) : ts[n] = Open(name) } : k \in ks }

TextIn(ts, k) == TextOf(SubSeq(ts, k, ClosingOf(ts, k)))

\* Text without a type: what comes before its first text or entity is passed over.
BareText(ts, k) ==
  LET within == SubSeq(ts, k + 1, ClosingOf(ts, k) - 1)
      first == SelectInSeq(within, LAMBDA t : t.is \in {"text", "entity"})
  IN  IF first = 0 THEN <<>> ELSE TextOf(SubSeq(within, first, Len(within)))

\* The strings a value is: one, or none if it is of another type.
Strings(ts, v) ==
  LET typed == { n \in Inside(ts, v) : ts[n].is = "open" }
  IN  IF typed = {} THEN {BareText(ts, v)}
      ELSE { TextIn(ts, n) : n \in { m \in typed : ts[m].of \in {"string", "base64"} } }

Numbers(ts, v) == { TextIn(ts, n) : n \in Children(ts, {v}, "int") \cup Children(ts, {v}, "i4") }

\* parse_struct, parse_member: the values of the members of that name.
Named(ts, vs, name) ==
  UNION { { v \in Children(ts, {k}, "value") :
              \E n \in Children(ts, {k}, "name") : TextIn(ts, n) = name }
          : k \in Children(ts, Children(ts, vs, "struct"), "member") }

\* An integer, base64 or a member that is not one spoils the whole answer.
XmlSound(ts) ==
  \A k \in DOMAIN ts : ts[k].is = "open" =>
    /\ ts[k].of \in {"int", "i4"} => IsNumber(TextIn(ts, k))
    /\ ts[k].of = "base64" =>
         IsBase64(TextIn(ts, k)) \/ \E n \in DOMAIN spans : TextIn(ts, k) = <<Marker(n - 1)>>
    /\ ts[k].of = "member" => Children(ts, {k}, "name") # {} /\ Children(ts, {k}, "value") # {}

\* extract_attachment_by_id, value_to_attachment
XmlMarkers ==
  LET ts == Expanded
      root == { CHOOSE k \in DOMAIN ts : ts[k] = Open("methodResponse") }
      result == Children(ts, Children(ts, Children(ts, root, "params"), "param"), "value")
      entry == Named(ts, Named(ts, result, <<"attachments">>), answer.id)
      ids == UNION { Numbers(ts, v) : v \in Named(ts, entry, <<"id">>) }
  IN  IF XmlSound(ts) /\ ids = {answer.id}
        THEN UNION { Strings(ts, v) : v \in Named(ts, entry, <<"data">>) }
        ELSE {}

\* JSON (parse_body_to_value): the values of the members of that name, and the
\* values in an array.
Members(ts, k, name) ==
  IF ts[k] # Open("{") THEN {}
  ELSE { n + 2 : n \in { m \in Inside(ts, k) : ts[m] = Text(name) /\ ts[m + 1].is = "colon" } }

Elements(ts, k) ==
  { n \in Inside(ts, k) : ts[n].is # "comma" /\ (n = k + 1 \/ ts[n - 1].is = "comma") }

Values(ts, k) ==
  { n + 1 : n \in { m \in Inside(ts, k) : ts[m].is = "colon" } }

Null == Token("literal", <<"null">>)
Id(number) == Token("literal", number)

\* Attachment::deserialize: the members that matter here.
IsAttachment(ts, k) ==
  /\ \E n \in Members(ts, k, <<"id">>) : ts[n].is = "literal" /\ IsNumber(ts[n].of)
  /\ \A n \in Members(ts, k, <<"data">>) : ts[n].is = "text" \/ ts[n] = Null

\* select_attachment, strictly: under its number, or the only one with it in a list.
Entries(ts, list) ==
  LET all == IF ts[list] = Open("{") THEN Values(ts, list) ELSE Elements(ts, list)
      Asked(k) == \E n \in Members(ts, k, <<"id">>) : ts[n] = Id(answer.id)
      found == IF ts[list] = Open("{") THEN Members(ts, list, answer.id)
                                       ELSE { k \in all : Asked(k) }
  IN  IF /\ \A k \in all : IsAttachment(ts, k)
         /\ Cardinality(found) = 1 /\ \A k \in found : Asked(k)
        THEN found ELSE {}

JsonMarkers ==
  LET ts == SelectSeq(body, LAMBDA t : t.is # "space")
      lists == { k \in Members(ts, 1, <<"attachments">>) : ts[k].is = "open" }
      data == UNION { UNION { Members(ts, k, <<"data">>) : k \in Entries(ts, list) } : list \in lists }
  IN  IF \A k \in DOMAIN ts : ts[k].is = "literal" => ts[k].of # <<"?">>
        THEN { ts[n].of : n \in { d \in data : ts[d].is = "text" } }
        ELSE {}

-----------------------------------------------------------------------------
(* The end of the stream, wherever it comes *)

Complete ==
  IF answer.protocol = "xml"
    THEN payload = <<>> /\ parser.root /\ parser.stack = <<>>
    ELSE parser.expect = "end"

\* Extracted::select: the data the marker stands for, if it could be decoded.
Chosen(markers) == { n \in DOMAIN spans : <<Marker(n - 1)>> \in markers /\ ~spans[n].error }

Deliver(markers) ==
  outcome' =
    IF Chosen(markers) = {} THEN [is |-> "error", at |-> "end"]
    ELSE LET s == spans[CHOOSE n \in Chosen(markers) : TRUE]
         IN  [is |-> "data", data |-> SubSeq(file, s.from + 1, s.from + s.length)]

EndStream ==
  /\ outcome.is = "reading"
  /\ IF Complete THEN Deliver(IF answer.protocol = "xml" THEN XmlMarkers ELSE JsonMarkers)
                 ELSE outcome' = [is |-> "error", at |-> "end"]
  /\ UNCHANGED <<answer, arrived, parser, body, payload, file, spans>>

StreamNext ==
  \/ OpenTag \/ CloseTag \/ EmptyTag \/ ReadText \/ ReadBlank \/ ReadOther
  \/ ReadData \/ ReadCommentInData \/ EndData
  \/ ReadJson
  \/ EndStream

StreamSpec == StreamInit /\ [][StreamNext]_streamVars

-----------------------------------------------------------------------------
(* Properties *)

StreamTypeOK ==
  /\ answer \in Answers /\ arrived \in 0..Len(answer.tokens)
  /\ Len(body) <= Limit
  /\ \A n \in DOMAIN spans : spans[n].from + spans[n].length <= Len(file)
  /\ outcome.is \in {"reading", "error", "data"}

\* What a download hands on is the data of the attachment that was asked for, the
\* whole of it and nothing else, wherever the answer is cut off and however it is
\* damaged around the data; and an answer that arrives whole and sound is handed
\* on, however much data there is in it and whatever the data of the others
\* ("Attachment-only payload extraction").
StreamedTrue ==
  /\ outcome.is = "data" => outcome.data = answer.meant
  /\ answer.sound /\ outcome.is = "error" => outcome.at = "end" /\ arrived < Len(answer.tokens)
=============================================================================
