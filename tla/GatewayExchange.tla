--------------------------- MODULE GatewayExchange ---------------------------
(***************************************************************************)
(* One exchange through the gateway: the request passes header_rewrite,    *)
(* ip_restriction, header_restriction and traffic_mark, the Dubbo bridge   *)
(* turns it into an invocation, the server's packets arrive in pieces, the *)
(* answer becomes JSON, and header_rewrite sees the response.              *)
(*                                                                         *)
(* An exchange is configuration, request and server together.  What the    *)
(* filters and the codec compute is in RequestFilters and DubboCodec; what *)
(* the upstream does with connections and resets is in DubboUpstream.      *)
(***************************************************************************)
EXTENDS RequestFilters, DubboCodec, FiniteSets

CONSTANTS
  Exchanges,   \* the exchanges to be followed, in families
  HeaderSize   \* bytes of a packet's header (16 in the code)

ASSUME HeaderAssumption == HeaderSize \in Nat \ {0}

VARIABLES
  exchange,   \* the exchange: constant
  step,       \* what has been done
  http,       \* the request as the filters leave it
  route,      \* the route the stream has cached
  rewrite,    \* header_rewrite's path_, parameter_, render_context_ and route_config_
  mark,       \* the load balancer's dynamic metadata
  invocation, \* what has been written upstream
  buffer,     \* bytes that have arrived, and that have been drained
  reading,    \* the packet whose header is decoded, 0 when none is
  answer      \* the client's response

vars == <<exchange, step, http, route, rewrite, mark, invocation, buffer, reading, answer>>

\* The route of a path; paths without one of their own share a route.
RouteOf(e, message) == e.routes[IF message.target[1] \in DOMAIN e.routes THEN message.target[1] ELSE "others"]
NoContext == [n \in {} |-> <<>>]

Init ==
  /\ \E family \in DOMAIN Exchanges : exchange \in Exchanges[family]
  /\ step = "arrived"
  /\ http = exchange.http
  /\ route = RouteOf(exchange, exchange.http)
  /\ rewrite = [path |-> <<>>, query |-> NoContext, context |-> NoContext, own |-> <<>>]
  /\ mark = NoContext
  /\ invocation = <<>>
  /\ buffer = [arrived |-> 0, drained |-> 0]
  /\ reading = 0
  /\ answer = <<>>

-----------------------------------------------------------------------------
\* header_rewrite, decodeHeaders.  Path and query are parsed from the :path header
\* and, when some rewriter is for either, put together in it again.
RewriteRequest ==
  LET common == exchange.rewrite
      own == route.rewrite
      disabled == own # <<>> /\ own[1].disabled
      levels == IF own = <<>> THEN <<>> ELSE <<own[1].decoder>>
      start == [headers |-> http.headers, path |-> RemoveQueryAndFragment(http.target),
                query |-> ParseQueryString(http.target), context |-> NoContext]
      s == IF disabled THEN start ELSE RewriteLevels(common.decoder, levels, start, http)
      writes == ~disabled /\ UpdatesPath(common.decoder, levels)
      clears == ~disabled /\ (common.clear \/ (own # <<>> /\ own[1].clear))
      h == [http EXCEPT !.headers = s.headers,
                        !.target = IF writes THEN s.path \o QueryParamsToString(s.query) ELSE @]
  IN  /\ step = "arrived"
      /\ step' = "rewritten"
      /\ http' = h
      /\ rewrite' = [path |-> s.path, query |-> s.query, context |-> s.context, own |-> own]
      /\ route' = IF clears THEN RouteOf(exchange, h) ELSE route
      /\ UNCHANGED <<exchange, mark, invocation, buffer, reading, answer>>

\* A response; the wording of an error is not modelled.
Wording == [k |-> "wording"]
Reply(status, body) == [status |-> status, body |-> body, headers |-> exchange.replied]

\* A local reply of a filter ends the request.
Deny(allowed, next) ==
  /\ step' = IF allowed THEN next ELSE "denied"
  /\ answer' = IF allowed THEN answer ELSE <<Reply(403, Wording)>>
  /\ UNCHANGED <<exchange, http, route, rewrite, mark, invocation, buffer, reading>>

RestrictIp ==
  /\ step = "rewritten"
  /\ Deny(IpAllowed(route.ip, exchange.ipSource, http), "ipAllowed")

RestrictHeaders ==
  /\ step = "ipAllowed"
  /\ Deny(HeadersAllowed(exchange.headerList, route.headerList, http), "allowed")

\* traffic_mark: scalars of the route's metadata and a colour become the load
\* balancer's; no colour is set when the cluster names none.
MarkTraffic ==
  LET header == http.headers[exchange.colourHeader]
      colour == IF header = <<>> THEN <<>> ELSE header[1]
      source == exchange.metadataAsMark
      scalar == {n \in DOMAIN source : source[n] \in DOMAIN route.metadata /\ route.metadata[source[n]].scalar}
      copied == [n \in scalar |-> route.metadata[source[n]].value]
  IN  /\ step = "allowed"
      /\ step' = "marked"
      /\ mark' = IF exchange.colours = <<>> THEN copied ELSE With(copied, "colour", TryFindColor(exchange.colours, colour))
      /\ UNCHANGED <<exchange, http, route, rewrite, invocation, buffer, reading, answer>>

-----------------------------------------------------------------------------
\* The bridge's argument getters: Throw, nothing or the value of a parameter.
Absent == [k |-> "absent"]
LostParameterName(c) == \E i \in DOMAIN c.params : c.params[i].name = ""

\* A JSON document is one token.  The getter's parser also decodes what is
\* percent-encoded; no token is.
QueryArgument(c, p) ==
  LET params == ParseQueryString(http.target)
      value == params[<<p.name>>]
      doc == IF Len(value) = 1 THEN Parse(value[1]) ELSE <<>>
  IN  IF LostParameterName(c) THEN Throw
      ELSE IF <<p.name>> \notin DOMAIN params THEN Absent
      ELSE IF doc = <<>> THEN Throw ELSE JsonValueToHessianValue(doc[1], p.type, c.ignoreNull)

Member(v, name) == SelectInSeq(v.members, LAMBDA m : m[1] = name)

BodyArgument(c, p, index) ==
  LET doc == Parse(http.body)
  IN  IF doc = <<>> \/ (LostParameterName(c) /\ doc[1].k # "array") THEN Throw
      ELSE CASE doc[1].k = "array" /\ Len(doc[1].items) >= index ->
                  JsonValueToHessianValue(doc[1].items[index], p.type, c.ignoreNull)
             [] doc[1].k = "object" /\ Member(doc[1], p.name) # 0 ->
                  JsonValueToHessianValue(doc[1].members[Member(doc[1], p.name)][2], p.type, c.ignoreNull)
             [] OTHER -> Absent

GetArgumentByParameter(c, i) ==
  IF c.source = "body" THEN BodyArgument(c, c.params[i], i) ELSE QueryArgument(c, c.params[i])

Default(c, p) == IF p.default = "" THEN HNull ELSE JsonValueToHessianValue(Parse(p.default)[1], p.type, c.ignoreNull)

\* One argument as it is written: class entries go into what the request gave.
Argument(c, i) ==
  LET a == GetArgumentByParameter(c, i)
  IN  IF a = Throw \/ (a = Absent /\ c.params[i].required) THEN Throw
      ELSE IF a = Absent THEN Default(c, c.params[i])
      ELSE PopulateGenericTypes(c.params[i].generic, a)

\* The attachments of one source; of two with one name the first counts.
Attachs(c, from) ==
  {c.attachments[i] : i \in {j \in DOMAIN c.attachments :
     /\ c.attachments[j].from = from
     /\ \A h \in 1 .. j - 1 : c.attachments[h].from = from => c.attachments[h].name # c.attachments[j].name}}

Attachments(c) ==
  {<<a.name, <<a.key>>>> : a \in Attachs(c, "static")}
  \cup {<<a.name, http.headers[a.key][1]>> : a \in {b \in Attachs(c, "header") : http.headers[b.key] # <<>>}}
  \cup {<<a.name, http.cookies[a.key]>> : a \in {b \in Attachs(c, "cookie") : b.key \in DOMAIN http.cookies}}

WriteDubboRequest ==
  LET c == exchange.bridge
      args == [i \in DOMAIN c.params |-> Argument(c, i)]
      refused == \E i \in DOMAIN args : args[i] = Throw
  IN  /\ step = "marked"
      /\ step' = IF refused THEN "refused" ELSE "sent"
      /\ invocation' = IF refused THEN <<>>
                       ELSE <<[types |-> [i \in DOMAIN c.params |-> c.params[i].type],
                               args |-> args, attachments |-> Attachments(c)]>>
      /\ answer' = IF refused THEN <<Reply(400, Wording)>> ELSE answer
      /\ UNCHANGED <<exchange, http, route, rewrite, mark, buffer, reading>>

-----------------------------------------------------------------------------
\* The server's packets are a stream of bytes.
Size(p) == HeaderSize + p.body
Start(ps, i) == FoldLeft(LAMBDA n, p : n + Size(p), 0, SubSeq(ps, 1, i - 1))
Total(ps) == Start(ps, Len(ps) + 1)

\* DubboProtocolImpl::decodeHeader: the packet at the front of the buffer, 0 as
\* long as its header is not complete.
DecodeHeader(ps, b) ==
  IF b.arrived - b.drained < HeaderSize THEN 0
  ELSE SelectInSeq([i \in DOMAIN ps |-> Start(ps, i)], LAMBDA s : s = b.drained)

\* A variant of AfterHeartbeat that keeps the heartbeat's context.
AfterHeartbeatKeeps(c) == c

\* Nothing is known of the next packet before its header is decoded.
AfterHeartbeat(c) == 0

\* The packet to be answered, 0 while it is not complete.  The context of a
\* packet is kept until the rest of it has arrived; heartbeats are drained.
RECURSIVE ReadPacket(_, _, _)
ReadPacket(ps, b, context) ==
  LET c == IF context # 0 THEN context ELSE DecodeHeader(ps, b)
  IN  IF c = 0 \/ b.arrived - b.drained < Size(ps[c]) THEN [packet |-> 0, context |-> c, buffer |-> b]
      ELSE IF ps[c].kind = "heartbeat"
        THEN ReadPacket(ps, [b EXCEPT !.drained = @ + Size(ps[c])], AfterHeartbeat(c))
      ELSE [packet |-> c, context |-> c, buffer |-> b]

\* The value a packet carries; a server that echoes sends the first argument.
PacketValue(p) == IF p.echo /\ invocation[1].args # <<>> THEN invocation[1].args[1] ELSE p.value

\* The codes of the bridge's configuration, as they are by default.
ProtocolErrorCode == 501
RespExceptionCode == 503

\* handleResponse; a conversion that throws is caught in onUpstreamData.
HandleResponse(status, v) ==
  LET body == HessianValueToJson(v, exchange.heap)
  IN  IF body = Throw THEN Reply(ProtocolErrorCode, Wording) ELSE Reply(status, body)

\* readRespnoseFromUpstream: what the client is told of a packet.
ReadRespnoseFromUpstream(p) ==
  CASE p.kind # "response" \/ (p.status = "ok" /\ p.type \notin {"value", "exception", "null"}) ->
         Reply(ProtocolErrorCode, Wording)
    [] p.kind = "response" /\ p.status = "ok" /\ p.type = "null" -> HandleResponse(200, HNull)
    [] OTHER ->
         IF p.used > p.body THEN Reply(ProtocolErrorCode, Wording)
         ELSE HandleResponse(IF p.status # "ok" THEN ProtocolErrorCode
                             ELSE IF p.type = "exception" THEN RespExceptionCode ELSE 200,
                             PacketValue(p))

\* DubboResponse::decodeDubboFromBuffer, of the codec's library: the same packet
\* as a DubboResponse.
DecodeDubboFromBuffer(p) ==
  LET failed == p.status # "ok"
  IN  IF \/ p.kind # "response" \/ p.used > p.body
         \/ ~failed /\ p.type \notin {"value", "exception", "null"}
        THEN Throw
      ELSE [k |-> "response", is_exception |-> failed \/ p.type = "exception", close_connection |-> failed,
            value |-> IF ~failed /\ p.type = "null" THEN HNull ELSE PacketValue(p)]

\* onUpstreamData: n more bytes.
OnUpstreamData(n) ==
  LET ps == exchange.packets
      r == ReadPacket(ps, [buffer EXCEPT !.arrived = @ + n], reading)
  IN  /\ step = "sent"
      /\ n <= Total(ps) - buffer.arrived
      /\ reading' = r.context
      /\ IF r.packet = 0
           THEN buffer' = r.buffer /\ UNCHANGED <<step, answer>>
           ELSE /\ buffer' = [r.buffer EXCEPT !.drained = @ + HeaderSize]
                /\ LET reply == ReadRespnoseFromUpstream(ps[r.packet])
                   IN  IF reply.body = Endless THEN step' = "endless" /\ UNCHANGED answer
                       ELSE step' = "answered" /\ answer' = <<reply>>
      /\ UNCHANGED <<exchange, http, route, rewrite, mark, invocation>>

-----------------------------------------------------------------------------
\* header_rewrite, encodeHeaders: a response has no path, query or cookies of its
\* own; extractors read those of the request, and the context is the same one.
RewriteResponse ==
  LET own == rewrite.own
      disabled == own # <<>> /\ own[1].disabled
      levels == IF own = <<>> THEN <<>> ELSE <<own[1].encoder>>
      message == [headers |-> answer[1].headers, target |-> <<>>, cookies |-> NoContext]
      start == [headers |-> answer[1].headers, path |-> rewrite.path, query |-> rewrite.query, context |-> rewrite.context]
      s == IF disabled THEN start ELSE RewriteLevels(exchange.rewrite.encoder, levels, start, message)
  IN  /\ step \in {"denied", "refused", "answered"}
      /\ step' = "done"
      /\ answer' = <<[answer[1] EXCEPT !.headers = s.headers]>>
      /\ rewrite' = [rewrite EXCEPT !.context = s.context]
      /\ UNCHANGED <<exchange, http, route, mark, invocation, buffer, reading>>

Next ==
  \/ RewriteRequest
  \/ RestrictIp
  \/ RestrictHeaders
  \/ MarkTraffic
  \/ WriteDubboRequest
  \/ \E n \in IF exchange.whole THEN {Total(exchange.packets)} ELSE 1 .. Total(exchange.packets) : OnUpstreamData(n)
  \/ RewriteResponse

Spec == Init /\ [][Next]_vars

-----------------------------------------------------------------------------
\* What the Java service means by the JSON value given for a parameter: a String
\* takes the text of anything, and other types look into a string for a value.
Meant(type, v) ==
  CASE type = "String" -> IF v.k \in {"null", "string"} THEN v ELSE [k |-> "string", text |-> DebugString(v)]
    [] type \in DOMAIN TypedJsonConverters \ StrictTypes -> IF v.k = "string" THEN Parse(v.text)[1] ELSE v
    [] OTHER -> v

Names(v) == {v.members[i][1] : i \in DOMAIN v.members}

\* w is v after a round trip, in an argument whose class entries may be added.
RECURSIVE Echoes(_, _, _, _)
Echoes(v, w, depth, classes) ==
  LET kept == SelectSeq(v.members, LAMBDA m : ~(exchange.bridge.ignoreNull /\ m[2] = Null))
      named == {kept[i][1] : i \in DOMAIN kept}
  IN  IF depth = MaxDepth THEN w = Null
      ELSE CASE v.k = "array" ->
                  /\ w.k = "array" /\ DOMAIN w.items = DOMAIN v.items
                  /\ \A i \in DOMAIN v.items : Echoes(v.items[i], w.items[i], depth + 1, classes)
             [] v.k = "object" ->
                  /\ w.k = "object"
                  /\ named \subseteq Names(w) /\ Names(w) \subseteq named \cup classes
                  /\ Len(w.members) = Cardinality(Names(w))
                  /\ \A n \in named : Echoes(kept[SelectInSeq(kept, LAMBDA m : m[1] = n)][2],
                                             w.members[SelectInSeq(w.members, LAMBDA m : m[1] = n)][2], depth + 1, classes)
             [] v.k = "uint64" -> w = [k |-> "double"]
             [] OTHER -> w = v

Provided(c, i) ==
  IF c.source = "query"
    THEN LET params == ParseQueryString(http.target)
             name == <<c.params[i].name>>
         IN  IF name \in DOMAIN params THEN Parse(params[name][1]) ELSE <<>>
  ELSE LET doc == Parse(http.body)[1]
       IN  CASE doc.k = "array" -> IF Len(doc.items) >= i THEN <<doc.items[i]>> ELSE <<>>
             [] doc.k = "object" ->
                  IF Member(doc, c.params[i].name) # 0 THEN <<doc.members[Member(doc, c.params[i].name)][2]>> ELSE <<>>
             [] OTHER -> <<>>

\* The round trip of an argument.  A service that returns its first argument
\* gives the client back the JSON it sent: arrays in order, members by name and
\* the first of two with one name, a null where the nesting ends
\* (jsonValueToHessianValueInternal and hessianValueToJsonInternal, inverses but
\* for members ignored by configuration, numbers beyond int64 and class entries).
EchoFaithful ==
  LET c == exchange.bridge
      given == Provided(c, 1)
  IN  (answer # <<>> /\ answer[1].status = 200 /\ exchange.packets[1].echo /\ c.params # <<>> /\ given # <<>>)
        => Echoes(Meant(c.params[1].type, given[1]), answer[1].body, 0,
                  {"class" : g \in ToSet(c.params[1].generic)})

\* A primitive, or the content of a boxed type, in Hessian's kinds.
Takes(type, o) ==
  LET numbers == {"Integer", "Long", "Double"}
  IN  CASE type = "boolean" -> o.k \in {"True", "False"}
        [] type \in {"byte"} -> o.k = "Integer"
        [] type = "int" -> o.k \in {"Integer", "Long"}
        [] type = "float" -> o.k \in numbers
        [] type = "char" -> o.k = "String" /\ o.text # ""
        [] type = "Boolean" -> o.k \in {"True", "False", "Null"}
        [] type = "Byte" -> o.k \in {"Integer", "Null"}
        [] type = "Integer" -> o.k \in {"Integer", "Long", "Null"}
        [] type = "Float" -> o.k \in numbers \cup {"Null"}
        [] type = "Char" -> o.k = "Null" \/ (o.k = "String" /\ o.text # "")
        [] type = "Date" -> o.k \in numbers \cup {"Null"} \/ (o.k = "String" /\ o.text # "")
        [] type = "String" -> o.k \in {"String", "Null"}
        [] type = "List" -> o.k \in {"List", "Null"}
        [] type = "Map" -> o.k \in {"Map", "Null"}
        [] type = "Void" -> o.k = "Null"
        [] OTHER -> TRUE

\* What is written upstream can be invoked: one argument for every parameter type,
\* a required one provided by the client, each of a kind its type takes - and a
\* primitive is null only by default (writeRequestBody after the converters).
ArgumentsFit ==
  invocation # <<>> =>
    LET c == exchange.bridge
        args == invocation[1].args
    IN  /\ Len(args) = Len(invocation[1].types)
        /\ \A i \in DOMAIN args :
             /\ Provided(c, i) = <<>> => ~c.params[i].required
             /\ Takes(c.params[i].type, args[i]) \/ (Provided(c, i) = <<>> /\ c.params[i].default = "")

\* However the server's bytes are cut into pieces, the request is answered when
\* the last byte of its first packet that is no heartbeat has arrived, and not
\* before; the answer is that packet's, and the two readers of the code tell the
\* same of it but for a null answer in too short a body (readRespnoseFromUpstream
\* and decodeDubboFromBuffer).
AnswerIsFirst ==
  LET ps == exchange.packets
      first == SelectInSeq(ps, LAMBDA p : p.kind # "heartbeat")
      library == DecodeDubboFromBuffer(ps[first])
  IN  invocation # <<>> /\ step # "endless" =>
        /\ answer # <<>> <=> first # 0 /\ buffer.arrived >= Start(ps, first + 1)
        /\ answer # <<>> =>
             /\ answer[1].status = ReadRespnoseFromUpstream(ps[first]).status
             /\ answer[1].body = ReadRespnoseFromUpstream(ps[first]).body
             /\ library # Throw /\ answer[1].body # Wording =>
                  /\ answer[1].body = HessianValueToJson(library.value, exchange.heap)
                  /\ answer[1].status = 200 <=> ~library.is_exception
             /\ library = Throw /\ answer[1].status # ProtocolErrorCode => ps[first].type = "null"

\* An object's texts, and the containers of the heap it refers to.
Children(o) ==
  CASE o.k = "List" -> ToSet(o.items)
    [] o.k = "Map" -> {o.entries[i][2] : i \in DOMAIN o.entries}
    [] o.k = "Class" -> ToSet(o.data)
Links(o) == {IF c.k = "Ref" THEN c.dest ELSE c.id : c \in {d \in Children(o) : d.k # "String"}}
Texts(o) == {[k |-> "string", text |-> c.text] : c \in {d \in Children(o) : d.k = "String"}}

\* w unfolds the object graph from id, with a null where it comes round again.
RECURSIVE Unfolds(_, _, _, _)
Unfolds(w, heap, id, above) ==
  LET around == above \cup {id}
      parts == IF w.k = "array" THEN ToSet(w.items) ELSE {w.members[i][2] : i \in DOMAIN w.members}
      inner == {part \in parts : part.k \in {"array", "object"}}
      links == Links(heap[id])
  IN  /\ w.k = IF heap[id].k = "List" THEN "array" ELSE "object"
      /\ {part \in parts : part.k = "string"} = Texts(heap[id])
      /\ Null \in parts => links \cap around # {}
      /\ \A j \in links : \/ j \in around /\ Null \in parts
                          \/ \E part \in inner : Unfolds(part, heap, j, around)
      /\ \A part \in inner : \E j \in links : Unfolds(part, heap, j, around)

\* A graph of objects that refer to each other, also in a circle, becomes the JSON
\* of its unfolding: an object met again is written out again, and a null stands
\* for it only inside itself (hessianValueToJsonStringInternal's history; there
\* are graphs whose conversion does not end, and of those nothing is said).
RefsUnfolded ==
  (answer # <<>> /\ answer[1].status = 200 /\ DOMAIN exchange.heap # {})
    => Unfolds(answer[1].body, exchange.heap, exchange.packets[1].value.id, {})

\* A BigInteger keeps its value: the digits are those of its magnitude, without a
\* leading zero, and it is a JSON number exactly when it fits an int64
\* (divideByWord and the class branch of hessianValueToJsonInternal).
BigIntegerExact ==
  LET o == exchange.packets[1].value
      body == answer[1].body
      is == /\ o.k = "Class" /\ o.type = "BigInteger" /\ o.fields = <<"mag", "signum">>
            /\ Len(o.data) = 2 /\ o.data[1].k = "Ints" /\ o.data[2].k = "Integer"
  IN  (answer # <<>> /\ answer[1].status = 200 /\ is)
        => LET magnitude == ValueOf([i \in DOMAIN o.data[1].words |-> o.data[1].words[i] % Word], Word)
               n == o.data[2].value * magnitude
           IN  /\ body.sign * ValueOf(body.digits, Radix) = n
               /\ Len(body.digits) > 1 => body.digits[1] # 0
               /\ body.k = "string" <=> n > MaxInt64 \/ n < -MaxInt64 - 1

\* Nothing in a path and query is read as a delimiter once they are put together.
Separable(path, query) ==
  /\ ToSet(path) \cap {"?", "#"} = {}
  /\ \A n \in DOMAIN query : ToSet(n) \cap {"&", "="} = {} /\ "&" \notin ToSet(query[n])

\* Routing, matching and the Dubbo getters parse the :path header, the extractors of
\* the response read the filter's own path_ and parameter_.  After decodeHeaders the
\* two agree unless a rewriter put a delimiter into a path, a name or a value, which
\* decodeHeaders writes unescaped; then, and only then, they differ.
PathCoherent ==
  LET agree == /\ RemoveQueryAndFragment(http.target) = rewrite.path
               /\ ParseQueryString(http.target) = rewrite.query
  IN  step # "arrived" => (agree <=> Separable(rewrite.path, rewrite.query))

\* An invocation is written only for a request that the restrictions of the route
\* it is sent to allow as it stands then, rewritten: with a list in force that is
\* white some entry of the route or, unless overridden, of the listener names the
\* request, with a black one none does (restriction filters after clearRouteCache).
AdmittedAsSent ==
  invocation # <<>> =>
    LET r == IF exchange.rewrite.clear \/ (rewrite.own # <<>> /\ rewrite.own[1].clear /\ ~rewrite.own[1].disabled)
               THEN RouteOf(exchange, http) ELSE RouteOf(exchange, exchange.http)
        ip == RemoteAddress(exchange.ipSource, http)
        covers(e) == /\ e.full /\ e.version = ip[1].version
                     /\ IF e.length = -1 THEN e.number = ip[1].number
                        ELSE /\ e.length \in CidrLengths[e.version]
                             /\ LET size == 2 ^ (AddressBits[e.version] - e.length)
                                    low == e.number - (e.number % size)
                                IN  ip[1].number \in low .. low + size - 1
        own == IF r.headerList = <<>> THEN {} ELSE ToSet(r.headerList[1].list)
        shared == IF r.headerList # <<>> /\ (r.headerList[1].override \/ r.headerList[1].black # exchange.headerList.black)
                    THEN {} ELSE ToSet(exchange.headerList.list)
        black == IF r.headerList = <<>> THEN exchange.headerList.black ELSE r.headerList[1].black
    IN  /\ r.ip # <<>> /\ ip # <<>> => (\E e \in ToSet(r.ip[1].list) : covers(e)) # r.ip[1].black
        /\ r.headerList = <<>> \/ ~r.headerList[1].disabled =>
             (\E l \in own \cup shared : MatchCommon(l, http)) # black

\* A request of a colour no instance has is sent to the nearest colour above it,
\* whatever the route's metadata says of the same mark, and to none only when there
\* is none (tryFindColor, in any order of the colours).
MarkLongest ==
  LET header == http.headers[exchange.colourHeader]
      colour == IF header = <<>> THEN <<>> ELSE header[1]
      above == {c \in ToSet(exchange.colours) : c = colour \/ IsPrefix(c \o <<".">>, colour)}
  IN  invocation # <<>> /\ exchange.colours # <<>> =>
        IF above = {} THEN mark.colour = <<>>
        ELSE mark.colour \in above /\ \A c \in above : Len(c) <= Len(mark.colour)

===============================================================================
