---------------------------- MODULE SearchRequest ----------------------------
(***************************************************************************)
(* How a search is put to the server (types/bug/search.rs,                 *)
(* client/resources/bug.rs, xmlrpc/resources/bug.rs).                      *)
(*                                                                         *)
(* A search is [set, raw, types]: what is set, a function from the names   *)
(* of fields and options that are; the parameters of a URL that bzr has no *)
(* name for, passed on as they are; and the match types chosen.  A request *)
(* is a sequence of parts [key, slot, value]: over REST the parameters of  *)
(* the URL, over XML-RPC the insertions into a struct.  Both are made here *)
(* by operators of their own, as they are in the code.  A term of          *)
(* Bugzilla's boolean chart, the triple fN, oN, vN, is one part of key     *)
(* "chart": its slot N must be its own, or the server takes the last.      *)
(***************************************************************************)
EXTENDS Integers, SequencesExt, Selection

\* The filters, in the order of FIELD_MAPPINGS.
FieldMappings ==
  <<"tags", "product", "component", "status", "assigned_to", "creator", "priority",
    "severity", "whiteboard", "target_milestone", "version", "op_sys", "platform",
    "resolution", "qa_contact", "url">>

FilterField == ToSet(FieldMappings)

\* A field as the URLs of the web pages call it, and its charts.
UrlParam(f) ==
  CASE f \in {"status", "severity"} -> "bug_" \o f
    [] f = "creator" -> "reporter"
    [] f = "whiteboard" -> "status_whiteboard"
    [] f = "url" -> "bug_file_loc"
    [] OTHER -> f
InternalName(f) == IF f = "tags" THEN "tag" ELSE UrlParam(f)

RoleFields == {"assigned_to", "creator", "qa_contact"}

NegationOp(f) ==
  IF f \in RoleFields THEN "nowordssubstr"
  ELSE IF f \in {"whiteboard", "url"} THEN "notsubstring" ELSE "notequals"

\* A value: a word, negated by a "!" before it.  Options have one that is not.
Value(word) == [not |-> FALSE, word |-> word]
Not(word) == [not |-> TRUE, word |-> word]
Just(word) == <<Value(word)>>
Words(values) == [n \in DOMAIN values |-> values[n].word]

\* What is set of a search or of a saved query.
Keep(set, names) == [k \in DOMAIN set \cap names |-> set[k]]
Drop(set, names) == [k \in DOMAIN set \ names |-> set[k]]
Layered(new, old) ==
  [k \in DOMAIN new \cup DOMAIN old |-> IF k \in DOMAIN new THEN new[k] ELSE old[k]]
ValuesOf(set, k) == IF k \in DOMAIN set THEN set[k] ELSE <<>>

\* A part of a request: a name with one word, with several, or a term of the chart.
Pair(key, word) == [key |-> key, slot |-> 0, value |-> <<word>>]
Several(key, words) == [key |-> key, slot |-> 0, value |-> words]
Chart(slot, term) == [key |-> "chart", slot |-> slot, value |-> term]

-----------------------------------------------------------------------------
(* What a search holds *)

Typed(s, f) ==
  \/ f \in {"whiteboard", "url"} /\ f \in DOMAIN s.types
  \/ f \in RoleFields /\ "email" \in DOMAIN s.types
MatchTypeFor(s, f) == s.types[IF f \in RoleFields THEN "email" ELSE f]

Negated(values) == Select(values, {v \in ToSet(values) : v.not})
Positive(values) == Select(values, {v \in ToSet(values) : ~v.not})

HasNegatedFilters(s) == \E f \in FilterField : Negated(ValuesOf(s.set, f)) # <<>>

HasRawCharts(s) == \E n \in DOMAIN s.raw : s.raw[n].key = "chart"

\* Structured filters, not the free text that either way is read alike.
HasStructuredFilters(s) ==
  \/ DOMAIN s.set \cap (FilterField \cup {"cc", "alias", "creation_time", "last_change_time"}) # {}
  \/ s.ids # <<>> \/ s.raw # <<>>

\* A match type and a negation of one field do not go together,
InvalidMatchType(s) ==
  \E f \in FilterField : Typed(s, f) /\ Negated(ValuesOf(s.set, f)) # <<>>

\* and a negated role needs a word.
InvalidRoleNegation(s) == \E f \in RoleFields : Not("") \in ToSet(ValuesOf(s.set, f))

\* The id of a bug is always asked for.
ForceIdFields(set) ==
  LET include == IF "include_fields" \in DOMAIN set /\ Value("id") \notin ToSet(set["include_fields"])
                 THEN [k \in {"include_fields"} |-> <<Value("id")>> \o set[k]] ELSE <<>>
      excluded == ValuesOf(set, "exclude_fields")
      exclude == Select(excluded, ToSet(excluded) \ {Value("id")})
  IN  Layered(include,
           IF exclude = <<>> THEN Drop(set, {"exclude_fields"})
           ELSE Layered([k \in {"exclude_fields"} |-> exclude], set))

-----------------------------------------------------------------------------
\* The options of a list that are set, each under its name, a list of fields whole.
Options(s, names) ==
  LET given == Select(names, DOMAIN s.set)
  IN  [n \in DOMAIN given |-> Several(given[n], Words(s.set[given[n]]))]

\* The terms of some values of a field.
Terms(f, operator, values) ==
  [n \in DOMAIN values |-> <<InternalName(f), operator, values[n].word>>]

Slots(from, terms) == [n \in DOMAIN terms |-> Chart(from + n - 1, terms[n])]

-----------------------------------------------------------------------------
(* REST: a name is repeated for every value of it *)

\* The positive values of the fields without a match type, field by field.
MultiValuePairs(s) ==
  FlattenSeq([n \in DOMAIN FieldMappings |->
    LET f == FieldMappings[n]
        words == IF Typed(s, f) THEN <<>> ELSE Words(Positive(ValuesOf(s.set, f)))
    IN  [m \in DOMAIN words |-> Pair(f, words[m])]])

\* The terms of the fields that have one: every value in a slot of its own.
TermsOf(s, f) ==
  IF Typed(s, f) THEN Terms(f, MatchTypeFor(s, f), ValuesOf(s.set, f)) ELSE <<>>
NegatedTerms(s, f) == Terms(f, NegationOp(f), Negated(ValuesOf(s.set, f)))

ExplicitPairs(s) == Slots(1, FlattenSeq([n \in DOMAIN FieldMappings |-> TermsOf(s, FieldMappings[n])]))

\* Mutant of NegatedPairs: its slots begin at 1 whatever is there.
NegatedPairsFromOne(s) ==
  Slots(1, FlattenSeq([n \in DOMAIN FieldMappings |-> NegatedTerms(s, FieldMappings[n])]))

\* The negated values come after the values with a match type.
NegatedPairs(s) ==
  Slots(1 + Len(ExplicitPairs(s)),
        FlattenSeq([n \in DOMAIN FieldMappings |-> NegatedTerms(s, FieldMappings[n])]))

OptionFields ==
  <<"cc", "alias", "summary", "quicksearch", "savedsearch", "include_fields", "exclude_fields",
    "creation_time", "last_change_time", "order", "limit", "offset", "sharer_id">>

IdPairs(s) == [n \in DOMAIN s.ids |-> Pair("id", s.ids[n])]

\* Without a selection the default one is asked for.
DefaultFields(s) ==
  IF "include_fields" \in DOMAIN s.set THEN <<>> ELSE <<Pair("include_fields", "default")>>

\* Negations and charts of a URL would meet in the slots.
RestRefuses(s) == HasNegatedFilters(s) /\ HasRawCharts(s)

RestRequest(s) ==
  MultiValuePairs(s) \o ExplicitPairs(s) \o NegatedPairs(s) \o Options(s, OptionFields)
    \o IdPairs(s) \o s.raw \o DefaultFields(s)

-----------------------------------------------------------------------------
(* XML-RPC: an array holds the values of a name; what is inserted twice is replaced *)

\* Mutant of XmlRpcTerms: a negation takes the operator of exact fields.
XmlRpcTermsExact(s, f) ==
  IF Typed(s, f) THEN Terms(f, MatchTypeFor(s, f), ValuesOf(s.set, f))
  ELSE Terms(f, "notequals", Negated(ValuesOf(s.set, f)))

XmlRpcTerms(s, f) ==
  IF Typed(s, f) THEN Terms(f, MatchTypeFor(s, f), ValuesOf(s.set, f))
  ELSE Terms(f, NegationOp(f), Negated(ValuesOf(s.set, f)))

\* A field's array, and its terms from chart_idx on.
XmlRpcArray(s, f) ==
  LET words == Words(Positive(ValuesOf(s.set, f)))
  IN  IF Typed(s, f) \/ words = <<>> THEN <<>> ELSE <<Several(f, words)>>
AddField(s, f, at) ==
  [members |-> at.members \o XmlRpcArray(s, f) \o Slots(at.chart_idx, XmlRpcTerms(s, f)),
   chart_idx |-> at.chart_idx + Len(XmlRpcTerms(s, f))]

\* Field by field, in slots that go on from one field to the next.
VecFilters(s) ==
  LET at[n \in 0..Len(FieldMappings)] ==
        IF n = 0 THEN [members |-> <<>>, chart_idx |-> 1]
        ELSE AddField(s, FieldMappings[n], at[n - 1])
  IN  at[Len(FieldMappings)].members

TextOptions ==
  <<"cc", "alias", "summary", "quicksearch", "savedsearch", "creation_time", "last_change_time">>
NumberOptions == <<"limit", "offset", "sharer_id">>

IdsArray(s) == IF s.ids = <<>> THEN <<>> ELSE <<Several("ids", s.ids)>>

FieldLists(s) ==
  <<Several("include_fields",
            IF "include_fields" \in DOMAIN s.set THEN Words(s.set["include_fields"]) ELSE <<"default">>)>>
    \o Options(s, <<"exclude_fields">>)

\* There is no order, and no raw parameter.
XmlRpcRequest(s) ==
  VecFilters(s) \o Options(s, TextOptions) \o IdsArray(s) \o Options(s, NumberOptions) \o FieldLists(s)

-----------------------------------------------------------------------------
(* What the server reads of a request *)

\* A term, or each of the values of a name.
Meant(part) ==
  IF part.key = "chart" THEN {[key |-> "chart", value |-> part.value]}
  ELSE {[key |-> part.key, value |-> <<word>>] : word \in ToSet(part.value)}

\* The parts of these names that no later one replaces, and all others.
Standing(request, names) ==
  {n \in DOMAIN request :
     request[n].key \in names =>
       \A m \in DOMAIN request :
         m > n => <<request[m].key, request[m].slot>> # <<request[n].key, request[n].slot>>}
NamesIn(request) == {part.key : part \in ToSet(request)}

RestReads(request) == UNION {Meant(request[n]) : n \in Standing(request, {"chart"})}

\* The bugs to search in are id over REST and ids over XML-RPC.
ReadAs(name) == IF name = "ids" THEN "id" ELSE name
XmlRpcReads(request) ==
  {[key |-> ReadAs(a.key), value |-> a.value] :
     a \in UNION {Meant(request[n]) : n \in Standing(request, NamesIn(request))}}

\* No two terms in one slot.
SlotsDistinct(request) ==
  \A m, n \in DOMAIN request :
    request[m].key = "chart" /\ request[n].key = "chart" /\ request[m].slot = request[n].slot => m = n
=============================================================================
