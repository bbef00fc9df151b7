-------------------------------- MODULE Rider --------------------------------
(***************************************************************************)
(* One stream of the rider filter (source/filters/http/rider): the Lua     *)
(* handlers of a plugin run in a coroutine per direction, which a handler  *)
(* leaves by finishing, by failing, by waiting for an HTTP call or for the *)
(* body, or by answering the request itself.  What a handler does is not   *)
(* known, so every run of it may end in each of these ways.                *)
(*                                                                         *)
(* A record of dir holds the StreamWrapper of a direction (state, co,      *)
(* call, saw_body ... start_body), and what Envoy's filter manager, which  *)
(* is external, keeps for it: what came in, what is buffered, whether      *)
(* iteration is stopped, and what went past the filter.                    *)
(***************************************************************************)
EXTENDS Integers, Sequences

CONSTANTS Plugins,    \* the plugins: version, and the handlers each one has
          Gates,      \* allow_no_route with what the route says of the plugin
          MaxData,    \* pieces of body in each direction
          MaxCalls    \* HTTP calls the handlers of a direction make

ASSUME BoundsAssumption == MaxData \in Nat /\ MaxCalls \in Nat

Directions == {"request", "response"}

ASSUME PluginsAssumption ==
  /\ Plugins \subseteq [version : {"v1", "v2"}, header : [Directions -> BOOLEAN],
                        body : [Directions -> BOOLEAN]]
  /\ Gates \subseteq [allow_no_route : BOOLEAN, route : {"none", "bare", "configured"}]

VARIABLES
  plugin,   \* the plugin, with on_request and on_response of v1 as header handlers
  gate,     \* the configuration and the route of this stream
  filter,   \* error_, responded, destroyed_
  dir,      \* the two directions
  local     \* the parts of a local response that are encoded next

vars == <<plugin, gate, filter, dir, local>>

NotSeen == -1

Fresh ==
  [made |-> FALSE, state |-> "Running", co |-> "new", call |-> FALSE, calls |-> 0,
   phase |-> "header", saw_body |-> FALSE, buffered_body |-> FALSE, end_stream |-> FALSE,
   headers_continued |-> FALSE, start_body |-> FALSE, seen |-> NotSeen,
   in |-> "idle", trailers |-> FALSE, got |-> 0, hand |-> 0, held |-> 0,
   iter |-> "go", out |-> "nothing", twice |-> FALSE]

Init ==
  /\ plugin \in Plugins
  /\ gate \in Gates
  /\ filter = [error |-> FALSE, responded |-> FALSE, destroyed |-> FALSE]
  /\ dir = [d \in Directions |-> Fresh]
  /\ local = <<>>

-----------------------------------------------------------------------------
(* The filter manager.                                                      *)

\* Everything that is here goes to the next filter.
Pass(x) ==
  [x EXCEPT !.iter = "go", !.held = 0, !.hand = 0,
            !.out = IF x.in = "ended" THEN "end" ELSE "headers"]

\* addDecodedData and addEncodedData: the data at hand joins the buffer.
AddData(x) == [x EXCEPT !.held = @ + x.hand, !.hand = 0]

StopIteration(x) == [x EXCEPT !.iter = "stop"]

StopIterationAndBuffer(x) == [AddData(x) EXCEPT !.iter = "stop"]

StopIterationNoBuffer(x) == [x EXCEPT !.iter = "stop", !.hand = 0]

StopAllIterationAndBuffer(x) == [x EXCEPT !.iter = "stopall"]

-----------------------------------------------------------------------------
(* The script.                                                              *)

\* luaBody waits for a body of which nothing has been seen.  It is get_body in
\* every virtual machine, so a version 2 handler may wait for the body, too.
LuaBodyWaits(x) == ~x.end_stream /\ ~x.saw_body

\* What a handler can do next: luaHttpCall, luaBody and luaRespond raise an
\* error where they are refused, and a coroutine that failed cannot go on.
May(d, x) ==
  IF x.co = "dead" THEN {"error"}
  ELSE {"finish", "error"}
         \cup (IF x.calls < MaxCalls THEN {"call"} ELSE {})
         \cup (IF LuaBodyWaits(x) THEN {"body"} ELSE {})
         \cup (IF d = "request" /\ ~x.headers_continued THEN {"respond"} ELSE {})

StateAfter ==
  [finish |-> "Running", error |-> "Running", call |-> "HttpCall", body |-> "WaitForBody",
   respond |-> "Responded"]

CoroutineAfter ==
  [finish |-> "finished", error |-> "dead", call |-> "suspended", body |-> "suspended",
   respond |-> "suspended"]

Did(x, o) ==
  [x EXCEPT !.state = StateAfter[o], !.co = CoroutineAfter[o],
            !.call = (o = "call"), !.calls = @ + (IF o = "call" THEN 1 ELSE 0),
            !.buffered_body = @ \/ o = "body"]

\* Coroutine::start and resume: every way in which the handler may come back.
Resume(d, x) == {Did(x, o) : o \in May(d, x)}

\* startBody; the handler can read what is buffered.
StartBody(d, x) ==
  IF x.co = "dead" THEN {x}
  ELSE Resume(d, [x EXCEPT !.phase = "body", !.seen = x.held])

NewWrapper(x, end) == [x EXCEPT !.made = TRUE, !.end_stream = end]

\* start of version 1.
StartV1(d, x) ==
  {IF y.state # "Running" THEN StopIteration(y)
   ELSE Pass([y EXCEPT !.headers_continued = (y.co = "finished")]) : y \in Resume(d, x)}

\* The status of start once the header handler of version 2 came back.
AfterHeaderHandler(d, y) ==
  IF y.co = "dead" THEN {Pass(y)}
  ELSE IF y.state = "HttpCall"
    THEN {StopAllIterationAndBuffer([y EXCEPT !.start_body = y.end_stream /\ plugin.body[d]])}
  ELSE IF y.state = "Responded" \/ ~y.end_stream THEN {StopIteration(y)}
  ELSE IF ~plugin.body[d] THEN {Pass(y)}
  ELSE {IF z.state = "Running" THEN Pass(z) ELSE StopIteration(z) : z \in StartBody(d, y)}

\* start of version 2.
StartV2(d, x) == UNION {AfterHeaderHandler(d, y) : y \in Resume(d, x)}

-----------------------------------------------------------------------------
(* The filter's callbacks; each is the set of its outcomes.                 *)

\* decodeHeaders and encodeHeaders look at the route before the plugin.
Runs(d) ==
  IF d = "request"
    THEN gate.allow_no_route \/ gate.route # "none"
    ELSE gate.allow_no_route \/ gate.route = "configured"

\* doHeaders of both versions.
DoHeaders(d, x, end) ==
  IF Runs(d) /\ plugin.version = "v2" /\ filter.responded /\ ~plugin.header[d]
    THEN {StopIteration(x)}
  ELSE IF ~Runs(d) \/ filter.error \/ ~plugin.header[d]
    THEN {Pass(x)}
  ELSE IF plugin.version = "v1"
    THEN StartV1(d, NewWrapper(x, end))
    ELSE StartV2(d, NewWrapper(x, end))

\* onData of version 1: the end of the body wakes a handler that waits for it.
OnDataV1(d, x, end) ==
  LET y == [x EXCEPT !.end_stream = end, !.saw_body = TRUE]
      b == AddData(y)
  IN  {CASE z.state \in {"HttpCall", "WaitForBody"} -> StopIterationAndBuffer(z)
         [] z.state = "Responded" -> StopIterationNoBuffer(z)
         [] z.state = "Running" -> Pass([z EXCEPT !.headers_continued = (z.co # "dead")]) :
       z \in IF y.state = "WaitForBody" /\ end
               THEN Resume(d, [b EXCEPT !.state = "Running", !.seen = b.held])
               ELSE {y}}

\* A variant of OnDataV2 that starts the handler without the last piece.
OnDataV2NoAdd(d, x, end) ==
  LET y == [x EXCEPT !.end_stream = end, !.saw_body = TRUE]
  IN  {CASE z.state = "HttpCall" -> StopIterationAndBuffer(z)
         [] z.state = "Responded" -> StopIterationNoBuffer(z)
         [] z.state \in {"Running", "WaitForBody"} ->
              IF end THEN Pass(z) ELSE StopIterationAndBuffer(z) :
       z \in IF end /\ y.state = "Running" THEN StartBody(d, y) ELSE {y}}

\* onData of version 2: the end of the body starts the body handler, and does
\* not wake a header handler that waits for it.
OnDataV2(d, x, end) ==
  LET y == [x EXCEPT !.end_stream = end, !.saw_body = TRUE]
  IN  {CASE z.state = "HttpCall" -> StopIterationAndBuffer(z)
         [] z.state = "Responded" -> StopIterationNoBuffer(z)
         [] z.state \in {"Running", "WaitForBody"} ->
              IF end THEN Pass(z) ELSE StopIterationAndBuffer(z) :
       z \in IF end /\ y.state = "Running" THEN StartBody(d, AddData(y)) ELSE {y}}

\* error_, which a failing handler sets at once.
Failed(x) == filter.error \/ x.co = "dead"

\* decodeData and encodeData; version 2 makes a wrapper if the headers did not.
DoData(d, x, end) ==
  IF plugin.version = "v1"
    THEN IF Failed(x) \/ ~x.made THEN {Pass(x)} ELSE OnDataV1(d, x, end)
    ELSE IF Failed(x) \/ ~plugin.body[d] THEN {Pass(x)}
         ELSE OnDataV2(d, IF x.made THEN x ELSE NewWrapper(x, end), end)

\* No more of the request is filtered once a response is complete.
LocalComplete == dir["response"].in = "ended"

\* continueDecoding and continueEncoding: after StopAllIterationAndBuffer the
\* buffered body is shown to this filter, too.
ContinueIteration(d, x) ==
  IF d = "request" /\ LocalComplete THEN {x}
  ELSE IF x.iter = "go" THEN {[x EXCEPT !.twice = TRUE]}
  ELSE IF x.iter = "stop" \/ x.got = 0 THEN {Pass(x)}
  ELSE {IF x.trailers THEN Pass(z) ELSE z :
        z \in DoData(d, [x EXCEPT !.iter = "go", !.out = "headers"],
                     x.in = "ended" /\ ~x.trailers)}

\* A variant of OnSuccess that continues whatever the handler does next.
OnSuccessAlways(d, x) ==
  UNION {ContinueIteration(d, y) :
         y \in Resume(d, [x EXCEPT !.call = FALSE, !.state = "Running"])}

\* A variant of OnSuccess that leaves the rest to the body handler it starts.
OnSuccessForgets(d, x) ==
  UNION {IF y.state # "Running" THEN {y}
         ELSE IF ~y.start_body THEN ContinueIteration(d, y)
         ELSE StartBody(d, [y EXCEPT !.start_body = FALSE]) :
         y \in Resume(d, [x EXCEPT !.call = FALSE, !.state = "Running"])}

\* onSuccess, and onFailure, which makes up a response for it.
OnSuccess(d, x) ==
  UNION {IF y.state # "Running" THEN {y}
         ELSE IF ~y.start_body THEN ContinueIteration(d, y)
         ELSE UNION {IF z.state = "Running" THEN ContinueIteration(d, z) ELSE {z} :
                     z \in StartBody(d, [y EXCEPT !.start_body = FALSE])} :
         y \in Resume(d, [x EXCEPT !.call = FALSE, !.state = "Running"])}

-----------------------------------------------------------------------------
(* The steps.                                                               *)

Live == ~filter.destroyed

\* A response with and without a body.
LocalResponses == {<<"headers", "data">>, <<"headers">>}

\* A variant of Reset that cancels the call of the request alone.
ResetRequest == [dir EXCEPT !["request"].call = FALSE]

\* What is left when the stream goes: onReset cancels the calls.
Reset == [d \in Directions |-> [dir[d] EXCEPT !.call = FALSE]]

\* A callback of direction d leaves it as y.  A handler that called respond()
\* has the response encoded before anything else happens.  Envoy does not say
\* what a response on top of another one does: the model ends there.
Becomes(d, y, responded) ==
  LET responds == y.state = "Responded" /\ dir[d].state # "Responded"
  IN  /\ IF responds /\ dir["response"].in # "idle"
           THEN /\ filter' = [filter EXCEPT !.destroyed = TRUE]
                /\ dir' = [Reset EXCEPT ![d] = y]
                /\ local' = <<>>
           ELSE /\ filter' = [filter EXCEPT !.error = Failed(y),
                                            !.responded = responded \/ responds]
                /\ dir' = [dir EXCEPT ![d] = y]
                /\ local' \in IF responds THEN LocalResponses
                             ELSE {IF local = <<>> THEN <<>> ELSE Tail(local)}
      /\ UNCHANGED <<plugin, gate>>

\* doHeaders of version 2 takes responded back when it holds the headers.
RespondedAfterHeaders(d) ==
  filter.responded /\ ~(Runs(d) /\ plugin.version = "v2" /\ ~plugin.header[d])

\* The headers arrive.
Headers(d, end) ==
  /\ dir[d].in = "idle"
  /\ \E y \in DoHeaders(d, [dir[d] EXCEPT !.in = IF end THEN "ended" ELSE "open"], end) :
       Becomes(d, y, RespondedAfterHeaders(d))

\* A piece of body arrives; none is shown to a filter that stopped all iteration.
Data(d, end) ==
  LET x == [dir[d] EXCEPT !.in = IF end THEN "ended" ELSE "open", !.got = @ + 1, !.hand = 1]
  IN  /\ dir[d].in = "open"
      /\ dir[d].got < MaxData
      /\ \E y \in IF x.iter = "stopall" THEN {AddData(x)} ELSE DoData(d, x, end) :
           Becomes(d, y, filter.responded)

RequestHeaders(end) == Live /\ local = <<>> /\ Headers("request", end)

\* The response of the upstream, which has seen the request.
ResponseHeaders(end) ==
  /\ Live /\ local = <<>>
  /\ dir["request"].out # "nothing"
  /\ Headers("response", end)

RequestData(end) == Live /\ local = <<>> /\ ~LocalComplete /\ Data("request", end)

ResponseData(end) == Live /\ local = <<>> /\ Data("response", end)

\* Trailers end the message; the filter has no callback for them, so whatever
\* it held moves on, unless it stopped all iteration.
Trailers(d) ==
  LET x == [dir[d] EXCEPT !.in = "ended", !.trailers = TRUE]
  IN  /\ Live /\ local = <<>>
      /\ dir[d].in = "open"
      /\ d = "request" => ~LocalComplete
      /\ Becomes(d, IF x.iter = "stopall" THEN x ELSE Pass(x), filter.responded)

\* The HTTP call of a handler is answered or fails.
Answer(d) ==
  /\ Live /\ local = <<>>
  /\ dir[d].call
  /\ \E y \in OnSuccess(d, dir[d]) : Becomes(d, y, filter.responded)

\* The response of respond(), or of another party, is encoded.
LocalHeaders ==
  /\ Live /\ local \in LocalResponses
  /\ Headers("response", Len(local) = 1)

LocalData ==
  /\ Live /\ local = <<"data">>
  /\ Data("response", TRUE)

\* Envoy or another filter answers the request: a timeout, a limit, an error.
SendLocalReply ==
  /\ Live /\ local = <<>>
  /\ dir["request"].in # "idle"
  /\ dir["response"].in = "idle"
  /\ local' \in LocalResponses
  /\ UNCHANGED <<plugin, gate, filter, dir>>

OnDestroy ==
  /\ Live
  /\ filter' = [filter EXCEPT !.destroyed = TRUE]
  /\ dir' = Reset
  /\ local' = <<>>
  /\ UNCHANGED <<plugin, gate>>

Next ==
  \/ \E end \in BOOLEAN :
       \/ RequestHeaders(end) \/ RequestData(end)
       \/ ResponseHeaders(end) \/ ResponseData(end)
  \/ \E d \in Directions : Trailers(d) \/ Answer(d)
  \/ SendLocalReply \/ LocalHeaders \/ LocalData
  \/ OnDestroy

\* The response of respond() is encoded on the spot; the async client answers
\* every call (a handler that asks for no timeout relies on the cluster).
Fairness ==
  /\ WF_vars(LocalHeaders \/ LocalData)
  /\ \A d \in Directions : WF_vars(Answer(d))

Spec == Init /\ [][Next]_vars /\ Fairness

-----------------------------------------------------------------------------
States == {"Running", "WaitForBody", "HttpCall", "Responded"}
Coroutines == {"new", "suspended", "finished", "dead"}
Phases == {"header", "body"}
Arrivals == {"idle", "open", "ended"}
Iterations == {"go", "stop", "stopall"}
Outputs == {"nothing", "headers", "end"}
Pieces == 0 .. MaxData
Read == Pieces \cup {NotSeen}

Wrappers ==
  [made : BOOLEAN, state : States, co : Coroutines, call : BOOLEAN, calls : 0 .. MaxCalls,
   phase : Phases, saw_body : BOOLEAN, buffered_body : BOOLEAN, end_stream : BOOLEAN,
   headers_continued : BOOLEAN, start_body : BOOLEAN, seen : Read, in : Arrivals,
   trailers : BOOLEAN, got : Pieces, hand : Pieces, held : Pieces, iter : Iterations,
   out : Outputs, twice : BOOLEAN]

\* The stream keeps its types.
TypeOK ==
  /\ plugin \in Plugins /\ gate \in Gates
  /\ filter \in [error : BOOLEAN, responded : BOOLEAN, destroyed : BOOLEAN]
  /\ dir \in [Directions -> Wrappers]

\* Trailers move a message on under a version 1 handler that waits; an error of
\* that handler then opens the other direction, too, as they share error_.
Overtaken == plugin.version = "v1" /\ \E d \in Directions : dir[d].trailers

\* A version 2 header handler that waits in get_body: no callback of that version
\* looks for a handler that waits for the body, so it is never resumed, and the
\* end of the body, or the first piece without a body handler, goes past it.
Overlooked(d) == plugin.version = "v2" /\ dir[d].state = "WaitForBody"

\* A handler that waits for a call or for the body, or that has answered the
\* request itself, holds its message: nothing of it moves on while the header
\* handler waits, and not the end of it while the body handler does; and
\* continueIteration is only called while iteration is stopped.  This is so of
\* every handler but an overtaken and an overlooked one.
IterationRespected ==
  \A d \in Directions :
    /\ dir[d].twice => Overtaken
    /\ dir[d].state # "Running" /\ ~Overtaken /\ ~Overlooked(d) =>
         /\ dir[d].out # "end"
         /\ dir[d].phase = "header" => dir[d].out = "nothing"

\* A handler reads the body only when all of it has arrived and is buffered:
\* when get_body has waited for it, and when the body handler starts.  What
\* get_body returns without waiting is not covered.
BodyWhole ==
  \A d \in Directions :
    dir[d].seen # NotSeen => dir[d].seen = dir[d].got /\ dir[d].in = "ended"

\* An answer finds what it is for: the stream alive and the handler waiting.
AnswerFindsHandler ==
  \A d \in Directions :
    dir[d].call => ~filter.destroyed /\ dir[d].state = "HttpCall" /\ dir[d].co = "suspended"

\* respond() without a body in a version 2 plugin without on_response_header:
\* its headers are held for a body that does not come.
Withheld ==
  /\ plugin.version = "v2" /\ ~plugin.header["response"]
  /\ dir["request"].state = "Responded" /\ dir["response"].got = 0

\* An overlooked handler that made a call before: the call stopped all
\* iteration, which nothing but its next answer would have continued.
Stranded(d) == Overlooked(d) /\ dir[d].iter = "stopall"

\* A message that ended moves on, unless the stream ends or, for a request, a
\* response took its place, or its handler is stranded.
MessageMovesOn ==
  /\ dir["request"].in = "ended" ~>
       \/ dir["request"].out = "end" \/ filter.destroyed \/ Stranded("request")
       \/ dir["request"].state = "Responded" \/ LocalComplete
  /\ dir["response"].in = "ended" ~>
       \/ dir["response"].out = "end" \/ filter.destroyed \/ Stranded("response")
       \/ Withheld

=============================================================================
