---------------------------- MODULE RequestFilters ----------------------------
(***************************************************************************)
(* What the stateless filters make of one request: header_rewrite,         *)
(* ip_restriction, header_restriction and traffic_mark, with the matchers  *)
(* they share (source/common/http/proxy_matcher.cc).                       *)
(*                                                                         *)
(* A text is a sequence of tokens, <<>> the empty string.  A message has   *)
(* headers (each name has the sequence of its values), a target, which is  *)
(* the text of its :path header, and cookies.  The characters ? # & = are  *)
(* tokens of their own wherever they occur.                                *)
(***************************************************************************)
EXTENDS Integers, Sequences, SequencesExt

CONSTANTS
  Environment,  \* the value of the environment variables
  AddressBits,  \* bits of an address of each version
  CidrLengths,  \* prefix lengths each version's pattern takes
  Addresses     \* the texts that are addresses, and what they are

-----------------------------------------------------------------------------
\* Envoy's conversions of the :path header.  Neither escapes nor unescapes.
FirstOf(text, from, delimiters) == Min({i \in from .. Len(text) : text[i] \in delimiters} \cup {Len(text) + 1})

RemoveQueryAndFragment(target) == SubSeq(target, 1, FirstOf(target, 1, {"?", "#"}) - 1)

\* parseQueryString: from the first ? to the end, a fragment included; of two
\* parameters with one name the first counts, and one without = is empty.
ParseQueryString(target) ==
  LET begin == FirstOf(target, 1, {"?"}) + 1
      starts == {i \in begin .. Len(target) : i = begin \/ target[i - 1] = "&"}
      Split(i) == FirstOf(target, i, {"&", "="})
      Name(i) == SubSeq(target, i, Split(i) - 1)
      Value(i) == SubSeq(target, Split(i) + 1, FirstOf(target, i, {"&"}) - 1)
  IN  [n \in {Name(i) : i \in starts} |-> Value(Min({i \in starts : Name(i) = n}))]

\* queryParamsToString.  The order of the names is that of a map: a fixed one.
QueryParamsToString(query) ==
  FoldLeft(LAMBDA text, n : text \o <<IF text = <<>> THEN "?" ELSE "&">> \o n \o <<"=">> \o query[n],
           <<>>, SetToSeq(DOMAIN query))

-----------------------------------------------------------------------------
\* Matchers.  Of a name <<>> is wanted when it need only be present.
MatchNamed(want, have) ==
  \A n \in DOMAIN want : n \in DOMAIN have /\ (want[n] = <<>> \/ want[n] = <<have[n]>>)

PresentHeaders(headers) ==
  [n \in {m \in DOMAIN headers : headers[m] # <<>>} |-> FlattenSeq(headers[n])]

\* CommonMatcher: the matchers that are configured all match.
MatchCommon(m, message) ==
  /\ m.path = <<>> \/ m.path = <<RemoveQueryAndFragment(message.target)>>
  /\ MatchNamed(m.headers, PresentHeaders(message.headers))
  /\ MatchNamed(m.parameters, ParseQueryString(message.target))
  /\ MatchNamed(m.cookies, message.cookies)

-----------------------------------------------------------------------------
\* header_rewrite.  A pattern with groups matches a text of as many tokens.
FullMatch(text, pattern) == Len(text) = pattern.groups

ExtractorFunc(e, s) ==
  CASE e.source = "header" -> IF s.headers[e.key] # <<>> THEN s.headers[e.key][1] ELSE <<>>
    [] e.source = "parameter" -> IF <<e.key>> \in DOMAIN s.query THEN s.query[<<e.key>>] ELSE <<>>
    [] e.source = "path" -> s.path
    [] e.source = "environment" -> Environment

Extract(e, s) ==
  LET v == ExtractorFunc(e, s)
  IN  IF v = <<>> \/ e.group = 0 THEN v
      ELSE IF FullMatch(v, e) THEN <<v[e.group]>> ELSE <<>>

\* inja: a template is text and variables, and rendering throws on a variable
\* the context does not have.
CanRender(template, context) == \A i \in DOMAIN template : template[i].var => template[i].text \in DOMAIN context
Render(template, context) ==
  FlattenSeq([i \in DOMAIN template |-> IF template[i].var THEN context[template[i].text] ELSE <<template[i].text>>])

Without(f, key) == [n \in DOMAIN f \ {key} |-> f[n]]
With(f, key, v) == [n \in DOMAIN f \cup {key} |-> IF n = key THEN v ELSE f[n]]

\* The function of a rewriter.  An update of a header removes it before it
\* renders, so a template that throws leaves the header removed.
RewriterFunc(r, s, context) ==
  LET v == Render(r.template, context)
      name == <<r.key>>
      old == IF name \in DOMAIN s.query THEN s.query[name] ELSE <<>>
  IN  CASE r.op = "remove" /\ r.target = "header" -> [s EXCEPT !.headers[r.key] = <<>>]
        [] r.op = "remove" /\ r.target = "parameter" -> [s EXCEPT !.query = Without(@, name)]
        [] r.op = "remove" /\ r.target = "path" -> s
        [] r.op # "remove" /\ ~CanRender(r.template, context) ->
             IF r.op = "update" /\ r.target = "header" THEN [s EXCEPT !.headers[r.key] = <<>>] ELSE s
        [] r.op = "append" /\ r.target = "header" -> [s EXCEPT !.headers[r.key] = Append(@, v)]
        [] r.op = "append" /\ r.target = "parameter" -> [s EXCEPT !.query = With(@, name, old \o v)]
        [] r.op = "append" /\ r.target = "path" -> [s EXCEPT !.path = @ \o v]
        [] r.op = "update" /\ r.target = "header" -> [s EXCEPT !.headers[r.key] = <<v>>]
        [] r.op = "update" /\ r.target = "parameter" -> [s EXCEPT !.query = With(@, name, v)]
        [] r.op = "update" /\ r.target = "path" -> [s EXCEPT !.path = IF v = <<>> THEN @ ELSE v]

\* enableRewrite: the matcher reads the headers as they are now, and path and
\* query from the :path header, which is not written before all are through.
EnableRewrite(r, s, message) ==
  r.matcher = <<>> \/ MatchCommon(r.matcher[1], [message EXCEPT !.headers = s.headers])

ExtractContext(c, s) ==
  LET names == {c.extractors[i].name : i \in DOMAIN c.extractors}
  IN  [n \in names \cup DOMAIN s.context |->
         IF n \in names THEN Extract(c.extractors[SelectInSeq(c.extractors, LAMBDA e : e.name = n)], s)
                        ELSE s.context[n]]

\* One level of configuration: extract everything, then rewrite in order.
RewriteLevel(c, s, message) ==
  LET extracted == [s EXCEPT !.context = ExtractContext(c, s)]
  IN  FoldLeft(LAMBDA t, r : IF EnableRewrite(r, t, message) THEN RewriterFunc(r, t, extracted.context) ELSE t,
               extracted, c.rewriters)

WouldUpdatePath(c) == \E i \in DOMAIN c.rewriters : c.rewriters[i].target \in {"parameter", "path"}

\* A variant of UpdatesPath that asks the listener's configuration only.
UpdatesPathCommon(common, route) == WouldUpdatePath(common)

UpdatesPath(common, route) == WouldUpdatePath(common) \/ (route # <<>> /\ WouldUpdatePath(route[1]))

\* The two levels: the listener's configuration, then that of the route.
RewriteLevels(common, route, s, message) ==
  LET t == RewriteLevel(common, s, message)
  IN  IF route = <<>> THEN t ELSE RewriteLevel(route[1], t, message)

-----------------------------------------------------------------------------
\* ip_restriction.  An entry is an address, or a range when it has a length.
IsIpEntry(e) == e.full /\ (e.length = -1 \/ e.length \in CidrLengths[e.version])

InRange(e, a) ==
  LET shift == IF e.length = -1 THEN 1 ELSE 2 ^ (AddressBits[e.version] - e.length)
  IN  e.version = a.version /\ e.number \div shift = a.number \div shift

CheckIpEntry(list, a) == \E i \in DOMAIN list : IsIpEntry(list[i]) /\ InRange(list[i], a)

IsAllowed(c, a) == CheckIpEntry(c.list, a) # c.black

\* The address the filter goes by, or none: it lets such a request through.
RemoteAddress(source, message) ==
  IF source = "" THEN message.peer
  ELSE LET texts == message.headers[source]
       IN  IF texts # <<>> /\ texts[1] \in DOMAIN Addresses THEN <<Addresses[texts[1]]>> ELSE <<>>

IpAllowed(c, source, message) ==
  LET a == RemoteAddress(source, message) IN c = <<>> \/ a = <<>> \/ IsAllowed(c[1], a[1])

-----------------------------------------------------------------------------
\* header_restriction: the route's list first, the listener's unless overridden.
OverrideCommon(common, route) ==
  route # <<>> /\ (route[1].override \/ route[1].black # common.black)

\* A variant of HeadersAllowed that forgets to look at the listener's list.
HeadersAllowedRouteOnly(common, route, message) ==
  LET list == IF route = <<>> THEN common.list ELSE route[1].list
      black == IF route = <<>> THEN common.black ELSE route[1].black
  IN  (route # <<>> /\ route[1].disabled) \/ (\E i \in DOMAIN list : MatchCommon(list[i], message)) # black

HeadersAllowed(common, route, message) ==
  LET Matched(list) == \E i \in DOMAIN list : MatchCommon(list[i], message)
      black == IF route = <<>> THEN common.black ELSE route[1].black
      matched == \/ route # <<>> /\ Matched(route[1].list)
                 \/ ~OverrideCommon(common, route) /\ Matched(common.list)
  IN  (route # <<>> /\ route[1].disabled) \/ matched # black

-----------------------------------------------------------------------------
\* traffic_mark: the request's colour, or the longest colour above it.
Above(colour, to_find) == IsPrefix(colour \o <<".">>, to_find)

\* A variant of BetterFallback that keeps the first colour it finds.
BetterFallbackFirst(colour, to_find, fallback) == Above(colour, to_find) /\ fallback = <<>>

BetterFallback(colour, to_find, fallback) == Above(colour, to_find) /\ Len(colour) > Len(fallback)

TryFindColor(colours, to_find) ==
  IF to_find \in ToSet(colours) THEN to_find
  ELSE FoldLeft(LAMBDA f, c : IF BetterFallback(c, to_find, f) THEN c ELSE f, <<>>, colours)

===============================================================================
