-------------------------- MODULE MCGatewayExchange --------------------------
(***************************************************************************)
(* Exchanges for TLC.  Every family varies one part of an exchange whose   *)
(* other parts are plain.                                                  *)
(***************************************************************************)
EXTENDS GatewayExchange, TLC

\* JSON values and the tokens that parse to them.
K(kind) == [k |-> kind]
JString(t) == [k |-> "string", text |-> t]
JArray(items) == [k |-> "array", items |-> items]
JObject(members) == [k |-> "object", members |-> members]

MCDocuments ==
  [null |-> Null, true |-> K("true"), false |-> K("false"), i |-> K("int"), l |-> K("int64"), u |-> K("uint64"), d |-> K("double"),
   qempty |-> JString(""), qword |-> JString("word"), qi |-> JString("i"), qtrue |-> JString("true"), qnull |-> JString("null"),
   qlist |-> JString("list"), qmap |-> JString("map"),
   list |-> JArray(<<K("int"), Null, JString("word")>>),
   empty |-> JArray(<<>>),
   map |-> JObject(<<<<"x", K("int")>>, <<"y", Null>>>>),
   twice |-> JObject(<<<<"x", K("int")>>, <<"x", K("double")>>, <<"y", JString("i")>>>>),
   nullTwice |-> JObject(<<<<"x", Null>>, <<"x", K("uint64")>>>>),
   deep |-> JArray(<<JArray(<<JArray(<<JArray(<<K("int")>>)>>), JObject(<<<<"x", JObject(<<>>)>>>>)>>)>>),
   people |-> JObject(<<<<"list", JArray(<<JObject(<<<<"x", K("int")>>>>), JObject(<<<<"class", JString("word")>>>>), K("int")>>)>>,
                        <<"x", JObject(<<>>)>>, <<"y", JObject(<<<<"x", JObject(<<>>)>>>>)>>>>),
   named |-> JObject(<<<<"a", K("int")>>, <<"b", JString("word")>>, <<"a", Null>>>>),
   nulled |-> JObject(<<<<"a", Null>>>>),
   one |-> JArray(<<K("int")>>),
   two |-> JArray(<<K("int"), JString("word")>>)]

Tokens == {"null", "true", "i", "l", "u", "d", "qempty", "qword", "qi", "qtrue", "qnull", "qlist", "qmap", "list", "empty", "map",
           "twice", "nullTwice", "deep", "people", "noJson"}
Types == DOMAIN TypedJsonConverters \cup {"String", "Object"}

-----------------------------------------------------------------------------
MCAddressBits == [v4 |-> 3, v6 |-> 4]
MCCidrLengths == [v4 |-> {1, 2}, v6 |-> {1, 3}]
MCAddresses == [s \in {<<"four">>, <<"six">>} |->
                  IF s = <<"four">> THEN [version |-> "v4", number |-> 5] ELSE [version |-> "v6", number |-> 6]]
MCEnvironment == <<"env">>

AnyMessage == [path |-> <<>>, headers |-> NoContext, parameters |-> NoContext, cookies |-> NoContext]
NoLevel == [extractors |-> <<>>, rewriters |-> <<>>]
PlainRoute == [rewrite |-> <<>>, ip |-> <<>>, headerList |-> <<>>, metadata |-> NoContext]

Param == [name |-> "a", type |-> "Object", required |-> TRUE, default |-> "", generic |-> <<>>]
Packet == [kind |-> "response", status |-> "ok", type |-> "value", echo |-> FALSE, value |-> K("Integer"), body |-> 1, used |-> 1]

\* The :path header of a path with one parameter.
Target(path, value) == <<path, "?", "a", "=", value>>

Plain ==
  [http |-> [headers |-> [h |-> <<>>, g |-> <<<<"one">>>>, addr |-> <<>>, colour |-> <<>>],
             target |-> Target("p", "i"), cookies |-> ("c" :> <<"cv">>),
             peer |-> <<[version |-> "v4", number |-> 5]>>, body |-> "one"],
   routes |-> [p |-> PlainRoute, q |-> PlainRoute, others |-> PlainRoute],
   rewrite |-> [decoder |-> NoLevel, encoder |-> NoLevel, clear |-> FALSE],
   ipSource |-> "", headerList |-> [black |-> TRUE, list |-> <<>>],
   colourHeader |-> "colour", colours |-> <<>>, metadataAsMark |-> NoContext,
   bridge |-> [source |-> "query", params |-> <<Param>>, ignoreNull |-> FALSE, attachments |-> <<>>],
   packets |-> <<[Packet EXCEPT !.echo = TRUE]>>, heap |-> <<>>, whole |-> TRUE,
   replied |-> [h |-> <<>>, g |-> <<<<"r1">>>>, addr |-> <<>>, colour |-> <<>>]]

\* Arguments: every type with every value, null members kept and ignored.
Arguments ==
  {[Plain EXCEPT !.http.target = Target("p", token), !.bridge.params[1].type = type, !.bridge.ignoreNull = ignore] :
     token \in Tokens, type \in Types, ignore \in BOOLEAN}

\* Where arguments come from: names or positions, missing ones, defaults.
Second == {[Param EXCEPT !.name = "b", !.type = type, !.required = required, !.default = default] :
             type \in {"String", "int"}, required \in BOOLEAN, default \in {"", "i"}}
Sources ==
  {[Plain EXCEPT !.http.body = body, !.bridge.source = source, !.bridge.params = params] :
     body \in {"one", "two", "named", "nulled", "empty", "i", "noJson"}, source \in {"body", "query"},
     params \in {<<>>, <<Param>>, <<[Param EXCEPT !.name = ""]>>, <<[Param EXCEPT !.type = "int"]>>} \cup {<<Param, p>> : p \in Second}}

\* Class entries, by paths with and without wildcards.
Generic(path) == [path |-> path, type |-> "T"]
Generics ==
  {[Plain EXCEPT !.http.target = Target("p", token), !.bridge.params[1].generic = generic] :
     token \in {"people", "list", "i"},
     generic \in {<<Generic(<<>>)>>, <<Generic(<<"x">>), Generic(<<"*", "x">>)>>, <<Generic(<<"list", "*">>)>>, <<Generic(<<"*", "*", "*">>)>>}}

Attach(name, from, key) == [name |-> name, from |-> from, key |-> key]
WithAttachments ==
  {[Plain EXCEPT !.bridge.attachments = as] :
     as \in {<<Attach("n", "static", "s"), Attach("n", "static", "t"), Attach("n", "header", "g"), Attach("m", "header", "h")>>,
             <<Attach("n", "cookie", "c"), Attach("m", "cookie", "none"), Attach("n", "cookie", "d")>>}}

-----------------------------------------------------------------------------
\* Rewrites at the two levels, and what they read.
Rewriters ==
  {[op |-> op, target |-> target[1], key |-> target[2], template |-> template, matcher |-> matcher] :
     op \in {"remove", "append", "update"}, target \in {<<"header", "g">>, <<"parameter", "a">>, <<"path", "">>},
     template \in {<<[var |-> FALSE, text |-> "q"]>>, <<[var |-> TRUE, text |-> "v"]>>},
     matcher \in {<<>>, <<[AnyMessage EXCEPT !.headers = ("g" :> <<<<"one">>>>)]>>}}
Extractors ==
  {[name |-> "v", source |-> source[1], key |-> source[2], group |-> group, groups |-> 1] :
     source \in {<<"header", "g">>, <<"parameter", "a">>, <<"path", "">>, <<"environment", "">>}, group \in {0, 1}}
Level(extractors, rewriters) == [extractors |-> extractors, rewriters |-> rewriters]
OfResponse(level) == [level EXCEPT !.rewriters = SelectSeq(@, LAMBDA r : r.target = "header")]

TwoLevels ==
  {[Plain EXCEPT !.rewrite.decoder = Level(<<e>>, common), !.rewrite.clear = clear,
                 !.rewrite.encoder = OfResponse(Level(<<>>, common)),
                 !.routes.p.rewrite = <<[disabled |-> disabled, decoder |-> Level(<<>>, <<r>>),
                                         encoder |-> OfResponse(Level(<<e>>, <<r>>)), clear |-> FALSE]>>] :
     e \in {f \in Extractors : f.group = 1}, clear \in BOOLEAN, disabled \in BOOLEAN, r \in Rewriters,
     common \in {<<>>, <<[op |-> "update", target |-> "header", key |-> "g", template |-> <<[var |-> TRUE, text |-> "w"]>>, matcher |-> <<>>]>>}}
TwoRewriters ==
  {[Plain EXCEPT !.rewrite.decoder = Level(<<e>>, <<r, s>>)] : e \in Extractors, r \in Rewriters,
     s \in {q \in Rewriters : q.template[1].var /\ q.matcher = <<>>}}

\* Targets with fragments and with several, equal, empty and bare parameters, and
\* rewriters that put a delimiter into a path, a name or a value.
FromHeader(op, target, key) ==
  [op |-> op, target |-> target, key |-> key, template |-> <<[var |-> TRUE, text |-> "v"]>>, matcher |-> <<>>]
Extracting(source, key) == <<[name |-> "v", source |-> source, key |-> key, group |-> 0, groups |-> 1]>>
Targets ==
  {[Plain EXCEPT !.http.target = <<"p">> \o rest, !.http.headers.g = <<g>>, !.rewrite.clear = TRUE,
                 !.rewrite.decoder = Level(Extracting("header", "g"), rewriters),
                 !.rewrite.encoder = Level(Extracting("parameter", "a"), <<FromHeader("update", "header", "h")>>)] :
     rest \in {<<>>, <<"?">>, <<"#", "f">>, <<"#", "f", "?", "a", "=", "i">>, <<"?", "a">>, <<"?", "a", "=", "&", "b", "=", "i", "&">>,
               <<"?", "a", "=", "i", "&", "a", "=", "l">>, <<"?", "b", "=", "a", "=", "i", "&", "&", "a", "=", "i", "#", "f">>},
     g \in {<<"i">>, <<"i", "&", "b", "=", "l">>, <<"?", "a", "=", "i">>, <<"#">>},
     rewriters \in {<<>>, <<FromHeader("append", "path", "")>>, <<FromHeader("update", "path", "")>>}
                   \cup {<<FromHeader(op, "parameter", key)>> : op \in {"append", "update", "remove"}, key \in {"a", "=", "&"}}}

-----------------------------------------------------------------------------
\* Restrictions, before and after the route changes with the path.
IpLists ==
  {<<[black |-> black, list |-> list]>> : black \in BOOLEAN,
     list \in {<<>>} \cup {<<[version |-> version, number |-> number, length |-> length, full |-> full]>> :
                 version \in {"v4", "v6"}, number \in {4, 5, 6}, length \in {-1, 1, 2, 3}, full \in BOOLEAN}}
ToPathQ == <<[op |-> "update", target |-> "path", key |-> "", template |-> <<[var |-> FALSE, text |-> "q"]>>, matcher |-> <<>>]>>

IpRestrictions ==
  {[Plain EXCEPT !.routes.q.ip = ip, !.ipSource = source, !.http.headers.addr = addr, !.http.target = Target(path, "i"),
                 !.rewrite.decoder = Level(<<>>, IF path = "p" THEN ToPathQ ELSE <<>>), !.rewrite.clear = TRUE] :
     ip \in IpLists, source \in {"", "addr"}, addr \in {<<>>, <<<<"four">>>>, <<<<"six">>>>, <<<<"odd">>>>}, path \in {"p", "q"}}

Wanted == {[AnyMessage EXCEPT !.headers = ("g" :> <<>>)], [AnyMessage EXCEPT !.headers = ("g" :> <<<<"two">>>>)],
           [AnyMessage EXCEPT !.path = <<<<"p">>>>], [AnyMessage EXCEPT !.parameters = (<<"a">> :> <<<<"i">>>>)],
           [AnyMessage EXCEPT !.cookies = ("d" :> <<>>)]}
HeaderRestrictions ==
  {[Plain EXCEPT !.headerList = [black |-> black, list |-> list], !.routes.p.headerList = own] :
     black \in BOOLEAN, list \in {<<>>} \cup {<<w>> : w \in Wanted},
     own \in {<<>>} \cup {<<[disabled |-> d, override |-> o, black |-> b, list |-> l]>> :
               d \in BOOLEAN, o \in BOOLEAN, b \in BOOLEAN, l \in {<<>>} \cup {<<w>> : w \in Wanted}}}

Colours == {<<"x">>, <<"x", ".", "y">>, <<"x", ".", "y", ".", "z">>, <<"x", "y">>}
Marks ==
  {[Plain EXCEPT !.colours = colours, !.http.headers.colour = colour, !.metadataAsMark = ("colour" :> "m" @@ "zone" :> "n"),
                 !.routes.p.metadata = ("m" :> [scalar |-> TRUE, value |-> <<"other">>] @@ "n" :> [scalar |-> FALSE, value |-> <<>>])] :
     colours \in {s \in UNION {[1 .. n -> Colours] : n \in 0 .. 3} : \A i, j \in DOMAIN s : i # j => s[i] # s[j]},
     colour \in {<<>>} \cup {<<c>> : c \in Colours \cup {<<"x", ".", "y", ".", "w">>, <<"w">>}}}

-----------------------------------------------------------------------------
\* Packets in all pieces.
Packets ==
  LET beat == [Packet EXCEPT !.kind = "heartbeat", !.body = 0]
      long == [beat EXCEPT !.body = 2]
  IN  {[Plain EXCEPT !.whole = FALSE, !.packets = ps] :
         ps \in {before \o <<[Packet EXCEPT !.kind = kind, !.status = status, !.type = type, !.used = used]>> \o after :
                   before \in {<<>>, <<beat>>, <<long>>, <<beat, long>>}, after \in {<<>>, <<Packet>>},
                   kind \in {"response", "request"}, status \in {"ok", "error"},
                   type \in {"value", "null", "exception", "other"}, used \in {1, 2}}
                 \cup {<<beat>>, <<long, beat>>}}

\* Every graph of three objects - a class instance, a map and a list - as Hessian
\* writes it: an object at its first place, references to it after that.
RECURSIVE Serialise(_, _, _)
Serialise(graph, i, seen) ==
  LET Add(s, j) ==
        IF <<i, j>> \notin graph THEN s
        ELSE IF j \in s.seen THEN [s EXCEPT !.parts = Append(@, [k |-> "Ref", dest |-> j])]
        ELSE LET r == Serialise(graph, j, s.seen)
             IN  [parts |-> Append(s.parts, r.o), seen |-> r.seen, heap |-> r.heap @@ s.heap]
      label == Str(<<"first", "second", "third">>[i])
      s == FoldLeft(Add, [parts |-> <<label>>, seen |-> seen \cup {i}, heap |-> <<>>], <<1, 2, 3>>)
      names == SubSeq(<<"f0", "f1", "f2", "f3">>, 1, Len(s.parts))
      o == CASE i = 1 -> [k |-> "Class", id |-> 1, type |-> "Plain", fields |-> names, data |-> s.parts]
             [] i = 2 -> [k |-> "Map", id |-> 2, entries |-> [n \in DOMAIN names |-> <<Str(names[n]), s.parts[n]>>]]
             [] i = 3 -> [k |-> "List", id |-> 3, items |-> s.parts]
  IN  [o |-> o, seen |-> s.seen, heap |-> (i :> o) @@ s.heap]

Graphs3 == SUBSET ((1 .. 3) \X (1 .. 3))
Objects ==
  {LET r == Serialise(graph, root, {})
   IN  [Plain EXCEPT !.packets = <<[Packet EXCEPT !.value = r.o]>>, !.heap = r.heap] : graph \in Graphs3, root \in {1, 3}}

Words == -8 .. 7
Magnitudes ==
  {<<a>> : a \in Words \ {0}} \cup {<<a, b>> : a \in Words \ {0}, b \in Words}
  \cup {<<a, b, c>> : a \in {-8, -1, 1, 7}, b \in {-8, -1, 0, 1, 7}, c \in {-8, -1, 0, 1, 7}}
Instance(type, fields, data) == [k |-> "Class", id |-> 0, type |-> type, fields |-> fields, data |-> data]
Answering(o) == [Plain EXCEPT !.packets = <<[Packet EXCEPT !.value = o]>>]

BigIntegers ==
  {Answering(Instance("BigInteger", <<"mag", "signum">>, <<[k |-> "Ints", words |-> mag], [k |-> "Integer", value |-> sig]>>)) :
     mag \in Magnitudes, sig \in {-1, 1}}
  \cup {Answering(Instance("BigInteger", <<"mag", "signum">>, <<[k |-> "Ints", words |-> <<>>], [k |-> "Integer", value |-> 0]>>))}

\* Instances of the registered classes, well formed or not.
Instances ==
  {Answering(Instance(type, fields, data)) :
     type \in {"SqlDate", "AtomicInteger", "AtomicLong", "BigDecimal", "BigInteger", "Plain"}, fields \in {<<"value">>, <<"other">>, <<"mag", "signum">>},
     data \in {<<>>, <<K("Date")>>, <<[k |-> "Integer", value |-> 1]>>, <<K("Long")>>, <<Str("i")>>, <<K("Null"), [k |-> "Integer", value |-> 1]>>, <<K("Null"), Str("i")>>}}
  \cup {Answering([k |-> "Map", id |-> 0, entries |-> <<<<K("Integer"), K("Long")>>, <<Str("x"), Instance("AtomicLong", <<>>, <<>>)>>>>])}

MCExchanges ==
  <<Arguments, Sources, Generics, WithAttachments, TwoLevels, TwoRewriters, Targets, IpRestrictions, HeaderRestrictions, Marks,
    Packets, Objects, BigIntegers, Instances>>

===============================================================================
