----------------------------- MODULE RiderProofs -----------------------------
(***************************************************************************)
(* Proofs about Rider, for any plugins, any lengths of bodies and any       *)
(* number of calls: an answered call finds its handler, a handler reads the *)
(* body only when it is whole, and a handler that waits holds its message.  *)
(***************************************************************************)
EXTENDS Rider, TLAPS

\* The provers' time limits, in seconds.
USE SMTT(30), ZenonT(30)

USE BoundsAssumption

\* What the handler's last exit says of the wrapper.
Calm(x) ==
  /\ x.state # "Running" => x.made
  /\ x.call => x.state = "HttpCall" /\ x.co = "suspended"
  /\ x.state = "Responded" => x.co = "suspended"

\* A direction that has seen nothing.
Unseen(x) ==
  /\ x.got = 0 /\ x.held = 0 /\ ~x.made /\ x.state = "Running" /\ x.co = "new" /\ x.iter = "go"
  /\ ~x.call /\ ~x.start_body /\ x.seen = NotSeen

\* Where the data of a message is that the body handler may read: all of it is
\* buffered; err says that a handler has failed, after which everything passes.
Buffered(d, x, err) ==
  /\ x.iter = "stopall" => x.held = x.got /\ plugin.version # "v1"
  /\ x.start_body => x.in = "ended" /\ x.got = 0 /\ x.end_stream
  /\ plugin.version = "v2" /\ x.in = "open" /\ x.state = "HttpCall" => x.iter = "stopall"
  /\ ~err =>
       /\ plugin.version = "v2" /\ plugin.body[d] /\ x.in = "open" /\ x.state # "Responded" =>
            x.held = x.got
       /\ plugin.version = "v1" /\ x.in = "open" /\ x.state = "WaitForBody" => x.held = x.got
       /\ plugin.version = "v1" /\ x.made /\ ~x.saw_body => x.got = 0

Whole(x) == x.seen # NotSeen => x.seen = x.got /\ x.in = "ended"

Sound(d, x, err) ==
  /\ x \in Wrappers /\ Calm(x) /\ Whole(x) /\ Buffered(d, x, err)
  /\ x.hand = 0 /\ x.held <= x.got
  /\ x.in = "idle" => Unseen(x)
  /\ x.trailers => x.in = "ended"

IInv ==
  /\ TypeOK
  /\ \A d \in Directions : Sound(d, dir[d], filter.error) /\ (filter.destroyed => ~dir[d].call)

-----------------------------------------------------------------------------
\* The fields that the filter manager's part of a wrapper does not touch.
Core(z, x) ==
  /\ z.made = x.made /\ z.state = x.state /\ z.co = x.co /\ z.call = x.call
  /\ z.saw_body = x.saw_body /\ z.end_stream = x.end_stream /\ z.start_body = x.start_body
  /\ z.seen = x.seen /\ z.in = x.in /\ z.trailers = x.trailers /\ z.got = x.got

\* The fields that a run of the handler does not touch.
Kept(z, x) ==
  /\ z.made = x.made /\ z.saw_body = x.saw_body /\ z.end_stream = x.end_stream
  /\ z.start_body = x.start_body /\ z.seen = x.seen /\ z.in = x.in /\ z.trailers = x.trailers
  /\ z.got = x.got /\ z.hand = x.hand /\ z.held = x.held /\ z.iter = x.iter

\* The counts of a wrapper are numbers within the bound.
LEMMA Counts ==
  ASSUME NEW x \in Wrappers
  PROVE  /\ x.got \in 0 .. MaxData /\ x.held \in 0 .. MaxData /\ x.hand \in 0 .. MaxData
         /\ x.made \in BOOLEAN /\ x.call \in BOOLEAN /\ x.start_body \in BOOLEAN
         /\ x.saw_body \in BOOLEAN /\ x.end_stream \in BOOLEAN /\ x.trailers \in BOOLEAN
         /\ x.state \in States /\ x.in \in Arrivals /\ x.iter \in Iterations
  BY DEF Wrappers, Pieces

\* The handler comes back: it leaves the rest alone, and says what it waits for.
LEMMA ResumeFacts ==
  ASSUME NEW d, NEW x \in Wrappers, x.made, NEW z \in Resume(d, x)
  PROVE  /\ z \in Wrappers /\ Kept(z, x) /\ Calm(z)
         /\ z.state = "WaitForBody" => ~x.end_stream /\ ~x.saw_body
         /\ z.co = "dead" => z.state = "Running"
  <1>1. PICK o \in May(d, x) : z = Did(x, o)
    BY DEF Resume
  <1>2. /\ o \in {"finish", "error", "call", "body", "respond"}
        /\ o = "call" => x.calls < MaxCalls
        /\ o = "body" => ~x.end_stream /\ ~x.saw_body
    BY <1>1 DEF May, LuaBodyWaits
  <1> DEFINE s == StateAfter[o]
             c == CoroutineAfter[o]
             n == x.calls + (IF o = "call" THEN 1 ELSE 0)
             k == o = "call"
             b == x.buffered_body \/ o = "body"
  <1>3. /\ s \in States /\ c \in Coroutines /\ n \in 0 .. MaxCalls
        /\ k => s = "HttpCall" /\ c = "suspended"
        /\ s = "Responded" => c = "suspended"
        /\ s = "WaitForBody" => o = "body"
        /\ c = "dead" => s = "Running"
        /\ k \in BOOLEAN /\ b \in BOOLEAN
    BY <1>2 DEF StateAfter, CoroutineAfter, Wrappers, States, Coroutines
  <1>4. z = [x EXCEPT !.state = s, !.co = c, !.call = k, !.calls = n, !.buffered_body = b]
    BY <1>1 DEF Did
  <1> HIDE DEF s, c, n, k, b
  <1>5. z \in Wrappers
    <2> DEFINE y == [x EXCEPT !.state = s, !.co = c]
               w == [y EXCEPT !.call = k, !.calls = n]
    <2>1. y \in Wrappers
      BY ZenonT(30), <1>3 DEF Wrappers
    <2> HIDE DEF y
    <2>2. w \in Wrappers
      BY ZenonT(30), <1>3, <2>1 DEF Wrappers
    <2> HIDE DEF w
    <2>3. [w EXCEPT !.buffered_body = b] \in Wrappers
      BY <1>3, <2>2 DEF Wrappers
    <2>4. z = [w EXCEPT !.buffered_body = b]
      BY <1>4 DEF w, y, Wrappers
    <2> QED
      BY <2>3, <2>4, Zenon
  <1>6. Kept(z, x) /\ z.state = s /\ z.co = c /\ z.call = k
    BY ZenonT(30), <1>4 DEF Kept, Wrappers
  <1> QED
    BY <1>2, <1>3, <1>5, <1>6 DEF Calm, Kept

\* The body handler starts with all of the body in the buffer.
LEMMA StartBodyFacts ==
  ASSUME NEW d, NEW x \in Wrappers, x.made, Calm(x), x.state = "Running", x.held = x.got, x.in = "ended",
         Whole(x), x.end_stream \/ x.saw_body, NEW z \in StartBody(d, x)
  PROVE  /\ z \in Wrappers /\ Calm(z) /\ Whole(z)
         /\ z.state # "WaitForBody" /\ z.made
         /\ z.start_body = x.start_body /\ z.in = x.in /\ z.got = x.got /\ z.hand = x.hand
         /\ z.held = x.held /\ z.iter = x.iter /\ z.saw_body = x.saw_body /\ z.trailers = x.trailers
         /\ z.end_stream = x.end_stream
  <1>1. CASE x.co = "dead"
    BY <1>1 DEF StartBody
  <1>2. CASE x.co # "dead"
    <2> DEFINE y == [x EXCEPT !.phase = "body", !.seen = x.held]
    <2>1. z \in Resume(d, y)
      BY <1>2 DEF StartBody
    <2>2. x.held \in Read /\ "body" \in Phases
      BY DEF Wrappers, Read, Phases
    <2>3. y \in Wrappers
      BY ZenonT(30), <2>2 DEF Wrappers
    <2>4. /\ y.seen = x.held /\ y.made /\ y.start_body = x.start_body /\ y.in = x.in /\ y.got = x.got
          /\ y.hand = x.hand /\ y.held = x.held /\ y.iter = x.iter /\ y.saw_body = x.saw_body
          /\ y.trailers = x.trailers /\ y.end_stream = x.end_stream
      BY DEF Wrappers
    <2> HIDE DEF y
    <2>5. /\ z \in Wrappers /\ Kept(z, y) /\ Calm(z)
          /\ z.state = "WaitForBody" => ~y.end_stream /\ ~y.saw_body
      BY <2>1, <2>3, <2>4, ResumeFacts
    <2> QED
      BY <2>4, <2>5 DEF Kept, Whole
  <1> QED
    BY <1>1, <1>2

\* Everything moves on.
LEMMA PassFacts ==
  ASSUME NEW x \in Wrappers, NEW z, z = Pass(x)
  PROVE  /\ z \in Wrappers /\ z.held = 0 /\ z.hand = 0 /\ z.iter = "go"
         /\ Core(z, x)
  <1> DEFINE out == IF x.in = "ended" THEN "end" ELSE "headers"
             y == [x EXCEPT !.iter = "go", !.out = out]
  <1>1. out \in Outputs /\ "go" \in Iterations /\ 0 \in Pieces
    BY DEF Outputs, Iterations, Pieces
  <1>2. z = [x EXCEPT !.iter = "go", !.held = 0, !.hand = 0, !.out = out]
    BY DEF Pass
  <1> HIDE DEF out
  <1>3. y \in Wrappers
    BY ZenonT(30), <1>1 DEF Wrappers
  <1>4. z = [y EXCEPT !.held = 0, !.hand = 0]
    BY ZenonT(30), <1>2 DEF Wrappers
  <1>5. [y EXCEPT !.held = 0, !.hand = 0] \in Wrappers
    <2> HIDE DEF y
    <2> QED
      BY ZenonT(30), <1>1, <1>3 DEF Wrappers
  <1>6. z \in Wrappers
    <2> HIDE DEF y
    <2> QED
      BY <1>4, <1>5, Zenon
  <1> QED
    BY <1>2, <1>6 DEF Wrappers, Core

\* The data at hand joins what is held.
LEMMA AddFacts ==
  ASSUME NEW x \in Wrappers, x.held + x.hand <= x.got, NEW z, z = AddData(x)
  PROVE  z \in Wrappers /\ z.held = x.held + x.hand /\ z.hand = 0 /\ z.iter = x.iter /\ Core(z, x)
  <1>1. x.held + x.hand \in Pieces /\ 0 \in Pieces
    BY Counts DEF Pieces
  <1> DEFINE n == x.held + x.hand
  <1>2. z = [x EXCEPT !.held = n, !.hand = 0]
    BY DEF AddData
  <1>3. n \in Pieces
    BY <1>1
  <1>4. /\ z.held = n /\ z.hand = 0 /\ z.iter = x.iter /\ Core(z, x)
    <2> HIDE DEF n
    <2> QED
      BY <1>2 DEF Wrappers, Core
  <1>5. z \in Wrappers
    <2> HIDE DEF n
    <2> QED
      BY ZenonT(60), <1>1, <1>2, <1>3 DEF Wrappers
  <1> QED
    BY <1>4, <1>5

\* Iteration stops: nothing but that changes.
LEMMA StopFacts ==
  ASSUME NEW x \in Wrappers, NEW z, z = StopIteration(x)
  PROVE  z \in Wrappers /\ z.held = x.held /\ z.hand = x.hand /\ z.iter = "stop" /\ Core(z, x)
  <1>1. "stop" \in Iterations
    BY DEF Iterations
  <1>2. z = [x EXCEPT !.iter = "stop"]
    BY DEF StopIteration
  <1>3. z \in Wrappers
    BY <1>1, <1>2 DEF Wrappers
  <1> QED
    BY <1>2, <1>3 DEF Wrappers, Core

\* Iteration stops and the data at hand is kept.
LEMMA BufferFacts ==
  ASSUME NEW x \in Wrappers, x.held + x.hand <= x.got, NEW z, z = StopIterationAndBuffer(x)
  PROVE  /\ z \in Wrappers /\ z.held = x.held + x.hand /\ z.hand = 0 /\ z.iter = "stop"
         /\ Core(z, x)
  <1> DEFINE b == AddData(x)
  <1>1. b \in Wrappers /\ b.held = x.held + x.hand /\ b.hand = 0 /\ Core(b, x)
    BY AddFacts
  <1>2. z = StopIteration(b)
    BY DEF StopIterationAndBuffer, StopIteration
  <1> HIDE DEF b
  <1>3. z \in Wrappers /\ z.held = b.held /\ z.hand = b.hand /\ z.iter = "stop" /\ Core(z, b)
    BY <1>1, <1>2, StopFacts
  <1> QED
    BY <1>1, <1>3 DEF Core

\* Iteration stops and the data at hand is dropped.
LEMMA NoBufferFacts ==
  ASSUME NEW x \in Wrappers, NEW z, z = StopIterationNoBuffer(x)
  PROVE  z \in Wrappers /\ z.held = x.held /\ z.hand = 0 /\ z.iter = "stop" /\ Core(z, x)
  <1>1. "stop" \in Iterations /\ 0 \in Pieces
    BY DEF Iterations, Pieces
  <1>2. z = [x EXCEPT !.iter = "stop", !.hand = 0]
    BY DEF StopIterationNoBuffer
  <1>3. z \in Wrappers
    BY ZenonT(30), <1>1, <1>2 DEF Wrappers
  <1> QED
    BY <1>2, <1>3 DEF Wrappers, Core

-----------------------------------------------------------------------------
\* What decodeData and encodeData start from: a piece is at hand, or the buffer
\* of a message that was stopped altogether is shown to the filter.
Ready(d, x, end) ==
  /\ x \in Wrappers /\ Calm(x) /\ Whole(x) /\ end \in BOOLEAN
  /\ x.in # "idle" /\ (end => x.in = "ended") /\ (x.trailers => x.in = "ended")
  /\ x.held + x.hand <= x.got /\ x.iter # "stopall" /\ ~x.start_body
  /\ plugin.version = "v2" /\ x.in = "open" => x.state # "HttpCall"
  /\ ~Failed(x) =>
       /\ plugin.version = "v2" /\ plugin.body[d] /\ x.state # "Responded" =>
            x.held + x.hand = x.got
       /\ plugin.version = "v1" /\ x.state = "WaitForBody" => x.held + x.hand = x.got

\* Without a handler to run, the data passes.
LEMMA PassReady ==
  ASSUME NEW d, NEW x, NEW end, Ready(d, x, end), NEW z, z = Pass(x),
         \/ Failed(x)
         \/ plugin.version = "v1" /\ ~x.made
         \/ plugin.version # "v1" /\ ~plugin.body[d]
  PROVE  Sound(d, z, Failed(z)) /\ z.in = x.in /\ z.trailers = x.trailers
  <1>1. z \in Wrappers /\ z.held = 0 /\ z.hand = 0 /\ z.iter = "go" /\ Core(z, x)
    BY PassFacts DEF Ready
  <1>2. x.got \in 0 .. MaxData /\ z.got = x.got
    BY <1>1, Counts DEF Core, Ready
  <1>3. Failed(z) <=> Failed(x)
    BY <1>1 DEF Failed, Core
  <1>4. Calm(z) /\ Whole(z)
    BY <1>1 DEF Calm, Whole, Core, Ready
  <1>5. Buffered(d, z, Failed(z))
    BY <1>1, <1>3 DEF Buffered, Core, Ready, Calm
  <1> QED
    BY <1>1, <1>2, <1>4, <1>5 DEF Sound, Core, Ready

\* What onData answers with for a wrapper z whose handler has run or has not.
LEMMA OnDataEnds ==
  ASSUME NEW d, NEW z \in Wrappers, Calm(z), Whole(z), z.in # "idle",
         z.trailers => z.in = "ended",
         z.held + z.hand <= z.got, z.iter # "stopall", ~z.start_body, z.saw_body,
         plugin.version = "v2" /\ z.in = "open" => z.state # "HttpCall",
         NEW u,
         \/ /\ z.state \in {"HttpCall", "WaitForBody", "Running"} /\ u = StopIterationAndBuffer(z)
            /\ z.in = "open" /\ z.state # "HttpCall" /\ ~Failed(z) => z.held + z.hand = z.got
         \/ z.state = "Responded" /\ u = StopIterationNoBuffer(z)
         \/ /\ z.state \in {"Running", "WaitForBody"} /\ u = Pass(z)
            /\ z.in = "ended" \/ (plugin.version = "v1" /\ z.state = "Running")
  PROVE  Sound(d, u, Failed(u)) /\ u.in = z.in /\ u.trailers = z.trailers
  <1>1. /\ u \in Wrappers /\ Core(u, z) /\ u.hand = 0 /\ u.iter \in {"go", "stop"}
        /\ u.held \in {0, z.held, z.held + z.hand}
        /\ z.in = "open" /\ z.state \notin {"HttpCall", "Responded"} /\ ~Failed(z)
             /\ (plugin.version = "v2" \/ z.state = "WaitForBody") => u.held = z.got
    <2>1. CASE u = StopIterationAndBuffer(z) /\ z.state # "Responded"
                 /\ (z.in = "open" /\ z.state # "HttpCall" /\ ~Failed(z) => z.held + z.hand = z.got)
      BY <2>1, BufferFacts
    <2>2. CASE u = StopIterationNoBuffer(z) /\ z.state = "Responded"
      BY <2>2, NoBufferFacts
    <2>3. CASE /\ u = Pass(z) /\ z.state \in {"Running", "WaitForBody"}
               /\ z.in = "ended" \/ (plugin.version = "v1" /\ z.state = "Running")
      BY <2>3, PassFacts
    <2> QED
      BY <2>1, <2>2, <2>3
  <1>2. /\ z.got \in 0 .. MaxData /\ z.held \in 0 .. MaxData /\ z.hand \in 0 .. MaxData
    BY Counts
  <1>3. Failed(u) <=> Failed(z)
    BY <1>1 DEF Failed, Core
  <1>4. Calm(u) /\ Whole(u)
    BY <1>1 DEF Calm, Whole, Core
  <1>5. Buffered(d, u, Failed(u))
    BY <1>1, <1>3 DEF Buffered, Core
  <1>6. u.held <= u.got
    BY <1>1, <1>2 DEF Core
  <1> QED
    BY <1>1, <1>4, <1>5, <1>6 DEF Sound, Core

\* onData of version 1.
LEMMA OnDataV1Sound ==
  ASSUME NEW d, NEW x, NEW end, Ready(d, x, end), plugin.version = "v1", ~Failed(x), x.made,
         NEW u \in OnDataV1(d, x, end)
  PROVE  Sound(d, u, Failed(u)) /\ u.in = x.in /\ u.trailers = x.trailers
  <1> DEFINE y == [x EXCEPT !.end_stream = end, !.saw_body = TRUE]
             b == AddData(y)
             c == [b EXCEPT !.state = "Running", !.seen = b.held]
  <1>1. /\ y \in Wrappers /\ y.saw_body /\ y.held = x.held /\ y.hand = x.hand /\ y.iter = x.iter
        /\ y.state = x.state /\ y.co = x.co /\ y.call = x.call /\ y.made = x.made
        /\ y.start_body = x.start_body /\ y.seen = x.seen /\ y.in = x.in
        /\ y.trailers = x.trailers /\ y.got = x.got
    BY ZenonT(30) DEF Ready, Wrappers
  <1>2. PICK z \in IF y.state = "WaitForBody" /\ end THEN Resume(d, c) ELSE {y} :
          u = CASE z.state \in {"HttpCall", "WaitForBody"} -> StopIterationAndBuffer(z)
                [] z.state = "Responded" -> StopIterationNoBuffer(z)
                [] z.state = "Running" -> Pass([z EXCEPT !.headers_continued = (z.co # "dead")])
    BY ZenonT(30) DEF OnDataV1
  <1>3. Failed(y) <=> Failed(x)
    BY <1>1 DEF Failed
  <1>4. /\ z \in Wrappers /\ Calm(z) /\ Whole(z) /\ z.in = x.in /\ z.trailers = x.trailers
        /\ z.held + z.hand <= z.got /\ z.iter # "stopall" /\ ~z.start_body /\ z.saw_body
        /\ z.in = "open" /\ z.state = "WaitForBody" /\ ~Failed(z) => z.held + z.hand = z.got
    <2>1. CASE ~(y.state = "WaitForBody" /\ end)
      <3>1. z = y
        BY <2>1, <1>2
      <3> HIDE DEF y
      <3> QED
        BY <3>1, <1>1, <1>3 DEF Ready, Calm, Whole
    <2>2. CASE y.state = "WaitForBody" /\ end
      <3> HIDE DEF y
      <3>1. b \in Wrappers /\ b.held = y.held + y.hand /\ b.hand = 0 /\ b.iter = y.iter /\ Core(b, y)
        BY <1>1, AddFacts DEF Ready
      <3>2. z \in Resume(d, c)
        BY <1>2, <2>2
      <3> HIDE DEF b
      <3>3. b.held \in Read /\ "Running" \in States
        BY <3>1, Counts DEF Read, Pieces, States
      <3>4. c \in Wrappers
        BY ZenonT(30), <3>1, <3>3 DEF Wrappers
      <3>5. /\ c.made = b.made /\ c.saw_body = b.saw_body /\ c.start_body = b.start_body
            /\ c.seen = b.held /\ c.in = b.in /\ c.trailers = b.trailers /\ c.got = b.got
            /\ c.hand = b.hand /\ c.held = b.held /\ c.iter = b.iter
        BY <3>1 DEF Wrappers
      <3> HIDE DEF c
      <3>6. /\ z \in Wrappers /\ Kept(z, c) /\ Calm(z)
            /\ z.state = "WaitForBody" => ~c.saw_body
        BY ZenonT(30), <3>1, <3>2, <3>4, <3>5, <1>1, ResumeFacts DEF Core
      <3>7. b.held = x.got
        BY <1>1, <2>2, <3>1 DEF Ready
      <3>8. x.got \in 0 .. MaxData
        BY Counts DEF Ready
      <3> QED
        BY <1>1, <2>2, <3>1, <3>5, <3>6, <3>7, <3>8 DEF Core, Kept, Whole, Ready
    <2> QED
      BY <2>1, <2>2
  <1> HIDE DEF y, b, c
  <1>5. CASE z.state \in {"HttpCall", "WaitForBody"}
    <2>1. u = StopIterationAndBuffer(z)
      BY <1>2, <1>5
    <2> QED
      BY <1>4, <1>5, <2>1, OnDataEnds DEF Ready
  <1>6. CASE z.state = "Responded"
    <2>1. u = StopIterationNoBuffer(z)
      BY <1>2, <1>6
    <2> QED
      BY <1>4, <1>6, <2>1, OnDataEnds DEF Ready
  <1>7. CASE z.state = "Running"
    <2> DEFINE h == z.co # "dead"
               w == [z EXCEPT !.headers_continued = h]
    <2>1. u = Pass(w) /\ h \in BOOLEAN
      BY <1>2, <1>7
    <2> HIDE DEF h
    <2>2. w \in Wrappers /\ Core(w, z) /\ w.held = z.held /\ w.hand = z.hand /\ w.iter = z.iter
      BY ZenonT(30), <1>4, <2>1 DEF Wrappers, Core
    <2> HIDE DEF w
    <2>3. Calm(w) /\ Whole(w)
      BY <1>4, <2>2 DEF Core, Calm, Whole
    <2>4. /\ w.in # "idle" /\ (w.trailers => w.in = "ended") /\ w.held + w.hand <= w.got
          /\ w.iter # "stopall" /\ ~w.start_body /\ w.saw_body /\ w.state = "Running"
          /\ w.in = x.in /\ w.trailers = x.trailers
      BY <1>4, <1>7, <2>2 DEF Core, Ready
    <2>5. Sound(d, u, Failed(u)) /\ u.in = w.in /\ u.trailers = w.trailers
      BY <2>1, <2>2, <2>3, <2>4, OnDataEnds
    <2> QED
      BY <2>4, <2>5
  <1> QED
    BY <1>4, <1>5, <1>6, <1>7, Counts DEF States

\* onData of version 2.
LEMMA OnDataV2Sound ==
  ASSUME NEW d, NEW x, NEW end, Ready(d, x, end), plugin.version = "v2", ~Failed(x), x.made,
         plugin.body[d], NEW u \in OnDataV2(d, x, end)
  PROVE  Sound(d, u, Failed(u)) /\ u.in = x.in /\ u.trailers = x.trailers
  <1> DEFINE y == [x EXCEPT !.end_stream = end, !.saw_body = TRUE]
             b == AddData(y)
  <1>1. /\ y \in Wrappers /\ y.saw_body /\ y.held = x.held /\ y.hand = x.hand /\ y.iter = x.iter
        /\ y.state = x.state /\ y.co = x.co /\ y.call = x.call /\ y.made = x.made
        /\ y.start_body = x.start_body /\ y.seen = x.seen /\ y.in = x.in
        /\ y.trailers = x.trailers /\ y.got = x.got
    BY ZenonT(30) DEF Ready, Wrappers
  <1>2. PICK z \in IF end /\ y.state = "Running" THEN StartBody(d, b) ELSE {y} :
          u = CASE z.state = "HttpCall" -> StopIterationAndBuffer(z)
                [] z.state = "Responded" -> StopIterationNoBuffer(z)
                [] z.state \in {"Running", "WaitForBody"} ->
                     IF end THEN Pass(z) ELSE StopIterationAndBuffer(z)
    BY ZenonT(30) DEF OnDataV2
  <1>3. Failed(y) <=> Failed(x)
    BY <1>1 DEF Failed
  <1>4. /\ z \in Wrappers /\ Calm(z) /\ Whole(z) /\ z.in = x.in /\ z.trailers = x.trailers
        /\ z.held + z.hand <= z.got /\ z.iter # "stopall" /\ ~z.start_body /\ z.saw_body
        /\ z.in = "open" => z.state # "HttpCall"
        /\ z.in = "open" /\ z.state \in {"Running", "WaitForBody"} /\ ~Failed(z) =>
             z.held + z.hand = z.got
    <2>1. CASE ~(end /\ y.state = "Running")
      <3>1. z = y
        BY <2>1, <1>2
      <3> HIDE DEF y
      <3> QED
        BY <3>1, <1>1, <1>3 DEF Ready, Calm, Whole
    <2>2. CASE end /\ y.state = "Running"
      <3> HIDE DEF y
      <3>1. b \in Wrappers /\ b.held = y.held + y.hand /\ b.hand = 0 /\ b.iter = y.iter /\ Core(b, y)
        BY <1>1, AddFacts DEF Ready
      <3>2. z \in StartBody(d, b)
        BY <1>2, <2>2
      <3> HIDE DEF b
      <3>3. x.got \in 0 .. MaxData
        BY Counts DEF Ready
      <3>4. /\ b.held = b.got /\ b.got = x.got /\ b.in = "ended" /\ b.state = "Running"
            /\ b.made /\ (b.end_stream \/ b.saw_body)
        BY <1>1, <2>2, <3>1 DEF Ready, Core
      <3>5. Calm(b) /\ Whole(b)
        BY <1>1, <3>1 DEF Calm, Whole, Core, Ready
      <3>6. /\ z \in Wrappers /\ Calm(z) /\ Whole(z)
            /\ z.state # "WaitForBody" /\ z.made
            /\ z.start_body = b.start_body /\ z.in = b.in /\ z.got = b.got /\ z.hand = b.hand
            /\ z.held = b.held /\ z.iter = b.iter /\ z.saw_body = b.saw_body
            /\ z.trailers = b.trailers
        BY <3>1, <3>2, <3>4, <3>5, StartBodyFacts, ZenonT(60)
      <3> QED
        BY <1>1, <2>2, <3>1, <3>3, <3>4, <3>6 DEF Core, Ready
    <2> QED
      BY <2>1, <2>2
  <1> HIDE DEF y, b
  <1>5. CASE z.state = "HttpCall"
    <2>1. u = StopIterationAndBuffer(z)
      BY <1>2, <1>5
    <2> QED
      BY <1>4, <1>5, <2>1, OnDataEnds DEF Ready
  <1>6. CASE z.state = "Responded"
    <2>1. u = StopIterationNoBuffer(z)
      BY <1>2, <1>6
    <2> QED
      BY <1>4, <1>6, <2>1, OnDataEnds DEF Ready
  <1>7. CASE z.state \in {"Running", "WaitForBody"}
    <2>1. u = IF end THEN Pass(z) ELSE StopIterationAndBuffer(z)
      BY <1>2, <1>7
    <2> QED
      BY <1>4, <1>7, <2>1, OnDataEnds DEF Ready
  <1> QED
    BY <1>4, <1>5, <1>6, <1>7, Counts DEF States

\* decodeData and encodeData.
LEMMA DoDataSound ==
  ASSUME NEW d, NEW x, NEW end, Ready(d, x, end), plugin.version \in {"v1", "v2"},
         NEW u \in DoData(d, x, end)
  PROVE  Sound(d, u, Failed(u)) /\ u.in = x.in /\ u.trailers = x.trailers
  <1>1. CASE plugin.version = "v1" /\ (Failed(x) \/ ~x.made)
    <2>1. u = Pass(x)
      BY <1>1 DEF DoData
    <2> QED
      BY <1>1, <2>1, PassReady
  <1>2. CASE plugin.version = "v2" /\ (Failed(x) \/ ~plugin.body[d])
    <2>1. u = Pass(x)
      BY <1>2 DEF DoData
    <2> QED
      BY <1>2, <2>1, PassReady
  <1>3. CASE plugin.version = "v1" /\ ~(Failed(x) \/ ~x.made)
    <2>1. u \in OnDataV1(d, x, end)
      BY <1>3 DEF DoData
    <2> QED
      BY <1>3, <2>1, OnDataV1Sound
  <1>4. CASE plugin.version = "v2" /\ ~(Failed(x) \/ ~plugin.body[d])
    <2> DEFINE w == IF x.made THEN x ELSE NewWrapper(x, end)
    <2>1. u \in OnDataV2(d, w, end)
      BY <1>4 DEF DoData
    <2>2. /\ w \in Wrappers /\ w.made /\ w.state = x.state /\ w.co = x.co /\ w.call = x.call
          /\ w.start_body = x.start_body /\ w.seen = x.seen /\ w.in = x.in
          /\ w.trailers = x.trailers /\ w.got = x.got /\ w.held = x.held /\ w.hand = x.hand
          /\ w.iter = x.iter
      BY ZenonT(60) DEF NewWrapper, Wrappers, Ready
    <2> HIDE DEF w
    <2>3. Failed(w) <=> Failed(x)
      BY <2>2 DEF Failed
    <2>4. Calm(w) /\ Whole(w)
      BY <2>2 DEF Calm, Whole, Ready
    <2>5. Ready(d, w, end)
      BY <2>2, <2>3, <2>4 DEF Ready
    <2>6. Sound(d, u, Failed(u)) /\ u.in = w.in /\ u.trailers = w.trailers
      BY <1>4, <2>1, <2>2, <2>3, <2>5, OnDataV2Sound
    <2> QED
      BY <2>2, <2>6
  <1> QED
    BY <1>1, <1>2, <1>3, <1>4

\* What is complete may move on at any time.
LEMMA PassSound ==
  ASSUME NEW d, NEW x, Sound(d, x, Failed(x)), x.in = "ended", NEW z, z = Pass(x)
  PROVE  Sound(d, z, Failed(z)) /\ z.in = x.in /\ z.trailers = x.trailers
  <1>1. z \in Wrappers /\ z.held = 0 /\ z.hand = 0 /\ z.iter = "go" /\ Core(z, x)
    BY PassFacts DEF Sound
  <1>2. x.got \in 0 .. MaxData
    BY Counts DEF Sound
  <1>3. Failed(z) <=> Failed(x)
    BY <1>1 DEF Failed, Core
  <1>4. Calm(z) /\ Whole(z)
    BY <1>1 DEF Calm, Whole, Core, Sound
  <1>5. Buffered(d, z, Failed(z))
    BY <1>1, <1>3 DEF Buffered, Core, Sound
  <1> QED
    BY <1>1, <1>2, <1>4, <1>5 DEF Sound, Core

-----------------------------------------------------------------------------
\* continueIteration finds a handler that is done and, in version 2, a message
\* that is complete or was stopped altogether.
LEMMA ContinueSound ==
  ASSUME NEW d, NEW x, Sound(d, x, Failed(x)), x.state = "Running", ~x.start_body, x.in # "idle",
         plugin.version = "v2" /\ x.in = "open" => x.iter = "stopall",
         plugin.version \in {"v1", "v2"}, NEW u \in ContinueIteration(d, x)
  PROVE  Sound(d, u, Failed(u)) /\ u.in # "idle" /\ u.trailers = x.trailers
  <1>1. /\ x \in Wrappers /\ x.got \in 0 .. MaxData /\ x.held \in 0 .. MaxData /\ x.hand = 0
        /\ x.held <= x.got /\ x.in \in Arrivals /\ x.iter \in Iterations
    BY Counts DEF Sound
  <1>2. CASE d = "request" /\ LocalComplete
    BY <1>2 DEF ContinueIteration
  <1>3. CASE ~(d = "request" /\ LocalComplete) /\ x.iter = "go"
    <2>1. u = [x EXCEPT !.twice = TRUE]
      BY <1>3 DEF ContinueIteration
    <2>2. u \in Wrappers /\ Core(u, x) /\ u.held = x.held /\ u.hand = x.hand /\ u.iter = x.iter
      BY ZenonT(30), <1>1, <2>1 DEF Wrappers, Core
    <2>3. Failed(u) <=> Failed(x)
      BY <2>2 DEF Failed, Core
    <2>4. Calm(u) /\ Whole(u)
      BY <2>2 DEF Calm, Whole, Core, Sound
    <2>5. Buffered(d, u, Failed(u))
      BY <2>2, <2>3 DEF Buffered, Core, Sound
    <2> QED
      BY <2>2, <2>4, <2>5 DEF Sound, Core
  <1>4. CASE ~(d = "request" /\ LocalComplete) /\ x.iter # "go" /\ (x.iter = "stop" \/ x.got = 0)
    <2>1. u = Pass(x)
      BY <1>4 DEF ContinueIteration
    <2>2. u \in Wrappers /\ u.held = 0 /\ u.hand = 0 /\ u.iter = "go" /\ Core(u, x)
      BY <1>1, <2>1, PassFacts
    <2>3. Failed(u) <=> Failed(x)
      BY <2>2 DEF Failed, Core
    <2>4. Calm(u) /\ Whole(u)
      BY <2>2 DEF Calm, Whole, Core, Sound
    <2>5. Buffered(d, u, Failed(u))
      BY <1>1, <1>4, <2>2, <2>3 DEF Buffered, Core, Sound
    <2> QED
      BY <1>1, <2>2, <2>4, <2>5 DEF Sound, Core
  <1>5. CASE ~(d = "request" /\ LocalComplete) /\ x.iter = "stopall" /\ x.got # 0
    <2> DEFINE w == [x EXCEPT !.iter = "go", !.out = "headers"]
               end == x.in = "ended" /\ ~x.trailers
    <2>1. PICK z \in DoData(d, w, end) : u = IF x.trailers THEN Pass(z) ELSE z
      BY <1>5 DEF ContinueIteration
    <2>2. "go" \in Iterations /\ "headers" \in Outputs
      BY DEF Iterations, Outputs
    <2>3. w \in Wrappers /\ Core(w, x) /\ w.held = x.held /\ w.hand = x.hand /\ w.iter = "go"
      BY ZenonT(30), <1>1, <2>2 DEF Wrappers, Core
    <2>4. end \in BOOLEAN /\ (end => x.in = "ended")
      OBVIOUS
    <2> HIDE DEF w, end
    <2>5. Failed(w) <=> Failed(x)
      BY <2>3 DEF Failed, Core
    <2>6. Calm(w) /\ Whole(w)
      BY <2>3 DEF Calm, Whole, Core, Sound
    <2>7. x.held = x.got
      BY <1>5 DEF Sound, Buffered
    <2>8. Ready(d, w, end)
      BY <1>1, <2>3, <2>4, <2>6, <2>7 DEF Ready, Core, Sound
    <2>9. Sound(d, z, Failed(z)) /\ z.in = w.in /\ z.trailers = w.trailers
      BY <2>1, <2>8, DoDataSound
    <2>10. z.in = x.in /\ z.trailers = x.trailers
      BY <2>3, <2>9 DEF Core
    <2>11. CASE x.trailers
      <3>1. z.in = "ended" /\ u = Pass(z)
        BY <2>1, <2>10, <2>11 DEF Sound
      <3> QED
        BY <2>9, <2>10, <3>1, PassSound
    <2>12. CASE ~x.trailers
      BY <2>1, <2>9, <2>10, <2>12
    <2> QED
      BY <2>11, <2>12
  <1> QED
    BY <1>1, <1>2, <1>3, <1>4, <1>5 DEF Iterations

\* The answer of its call finds the handler waiting, and it goes on.
LEMMA AnswerResumes ==
  ASSUME NEW d, NEW x, Sound(d, x, filter.error), filter.error \in BOOLEAN, x.call,
         NEW y \in Resume(d, [x EXCEPT !.call = FALSE, !.state = "Running"])
  PROVE  /\ Sound(d, y, Failed(y)) /\ y.in # "idle" /\ Kept(y, x)
         /\ plugin.version = "v2" /\ y.in = "open" => y.iter = "stopall"
  <1> DEFINE w == [x EXCEPT !.call = FALSE, !.state = "Running"]
  <1>1. /\ x \in Wrappers /\ x.got \in 0 .. MaxData /\ x.held \in 0 .. MaxData /\ x.hand = 0
        /\ x.held <= x.got /\ x.state = "HttpCall" /\ x.made /\ x.in # "idle"
    BY Counts DEF Sound, Calm, Unseen
  <1>2. "Running" \in States
    BY DEF States
  <1>3. w \in Wrappers /\ Kept(w, x)
    BY ZenonT(60), <1>1, <1>2 DEF Wrappers, Kept
  <1> HIDE DEF w
  <1>4. /\ y \in Wrappers /\ Kept(y, x) /\ Calm(y)
        /\ y.state = "WaitForBody" => ~x.end_stream /\ ~x.saw_body
        /\ y.co = "dead" => y.state = "Running"
    <2>1. w.made /\ y \in Resume(d, w)
      BY <1>1, <1>3 DEF Kept, w
    <2>2. /\ y \in Wrappers /\ Kept(y, w) /\ Calm(y)
          /\ y.state = "WaitForBody" => ~w.end_stream /\ ~w.saw_body
          /\ y.co = "dead" => y.state = "Running"
      BY <1>3, <2>1, ResumeFacts
    <2> QED
      BY <1>3, <2>2 DEF Kept
  <1>5. ~Failed(y) => ~filter.error
    BY DEF Failed
  <1>6. Whole(y)
    BY <1>4 DEF Whole, Kept, Sound
  <1>7. Buffered(d, y, Failed(y))
    BY <1>1, <1>4, <1>5 DEF Buffered, Kept, Sound
  <1>8. Sound(d, y, Failed(y)) /\ y.in # "idle"
    BY <1>1, <1>4, <1>6, <1>7 DEF Sound, Kept
  <1>9. plugin.version = "v2" /\ y.in = "open" => y.iter = "stopall"
    BY <1>1, <1>4 DEF Sound, Buffered, Kept
  <1> QED
    BY <1>4, <1>8, <1>9

\* A header handler that is done at last starts the body handler of a message
\* without a body.
LEMMA AnswerStartsBody ==
  ASSUME NEW d, NEW y, Sound(d, y, Failed(y)), y.made, y.state = "Running", y.start_body,
         NEW z \in StartBody(d, [y EXCEPT !.start_body = FALSE])
  PROVE  /\ Sound(d, z, Failed(z)) /\ z.in = "ended" /\ ~z.start_body /\ z.iter = y.iter
         /\ z.trailers = y.trailers /\ y.in = "ended"
  <1> DEFINE v == [y EXCEPT !.start_body = FALSE]
  <1>1. /\ v \in Wrappers /\ v.made = y.made /\ v.state = y.state /\ v.co = y.co /\ v.call = y.call
        /\ v.saw_body = y.saw_body /\ v.end_stream = y.end_stream /\ v.start_body = FALSE
        /\ v.seen = y.seen /\ v.in = y.in /\ v.trailers = y.trailers /\ v.got = y.got
        /\ v.held = y.held /\ v.hand = y.hand /\ v.iter = y.iter
    BY ZenonT(30) DEF Wrappers, Sound
  <1>2. z \in StartBody(d, v)
    OBVIOUS
  <1> HIDE DEF v
  <1>3. /\ y.in = "ended" /\ y.got = 0 /\ y.held = 0 /\ y.hand = 0 /\ y.made /\ y.end_stream
    BY Counts DEF Sound, Buffered
  <1>4. Calm(v) /\ Whole(v)
    BY <1>1 DEF Calm, Whole, Sound
  <1>5. /\ v.in = "ended" /\ v.held = v.got /\ v.state = "Running" /\ v.made
        /\ (v.end_stream \/ v.saw_body)
    BY <1>1, <1>3
  <1>6. /\ z \in Wrappers /\ Calm(z) /\ Whole(z)
        /\ z.state # "WaitForBody" /\ z.made
        /\ z.start_body = v.start_body /\ z.in = v.in /\ z.got = v.got /\ z.hand = v.hand
        /\ z.held = v.held /\ z.iter = v.iter /\ z.saw_body = v.saw_body
        /\ z.trailers = v.trailers
    BY <1>1, <1>2, <1>4, <1>5, StartBodyFacts, ZenonT(60)
  <1>7. /\ z.in = "ended" /\ z.got = 0 /\ z.held = 0 /\ z.hand = 0 /\ ~z.start_body
        /\ z.iter = y.iter
    BY <1>1, <1>3, <1>6
  <1>8. Buffered(d, z, Failed(z))
    BY <1>6, <1>7 DEF Buffered, Sound
  <1>9. Sound(d, z, Failed(z))
    BY <1>6, <1>7, <1>8 DEF Sound
  <1> QED
    BY <1>1, <1>3, <1>6, <1>7, <1>9

\* onSuccess: the handler goes on, and what it leaves decides the rest.
LEMMA OnSuccessSound ==
  ASSUME NEW d, NEW x, Sound(d, x, filter.error), filter.error \in BOOLEAN, x.call,
         plugin.version \in {"v1", "v2"}, NEW u \in OnSuccess(d, x)
  PROVE  Sound(d, u, Failed(u)) /\ u.in # "idle" /\ u.trailers = x.trailers
  <1>1. PICK y \in Resume(d, [x EXCEPT !.call = FALSE, !.state = "Running"]) :
          u \in IF y.state # "Running" THEN {y}
                ELSE IF ~y.start_body THEN ContinueIteration(d, y)
                ELSE UNION {IF z.state = "Running" THEN ContinueIteration(d, z) ELSE {z} :
                            z \in StartBody(d, [y EXCEPT !.start_body = FALSE])}
    BY DEF OnSuccess
  <1>2. /\ Sound(d, y, Failed(y)) /\ y.in # "idle" /\ Kept(y, x)
        /\ plugin.version = "v2" /\ y.in = "open" => y.iter = "stopall"
    BY ZenonT(30), AnswerResumes
  <1>3. CASE y.state # "Running"
    BY <1>1, <1>2, <1>3 DEF Kept
  <1>4. CASE y.state = "Running" /\ ~y.start_body
    <2>1. u \in ContinueIteration(d, y)
      BY <1>1, <1>4
    <2> QED
      BY <1>2, <1>4, <2>1, ContinueSound DEF Kept
  <1>5. CASE y.state = "Running" /\ y.start_body
    <2>1. PICK z \in StartBody(d, [y EXCEPT !.start_body = FALSE]) :
            u \in IF z.state = "Running" THEN ContinueIteration(d, z) ELSE {z}
      BY ZenonT(30), <1>1, <1>5
    <2>2. y.made
      BY <1>2 DEF Kept, Sound, Calm
    <2>3. /\ Sound(d, z, Failed(z)) /\ z.in = "ended" /\ ~z.start_body
          /\ z.trailers = x.trailers
      BY <1>2, <1>5, <2>2, AnswerStartsBody DEF Kept
    <2>4. CASE z.state = "Running"
      <3>1. u \in ContinueIteration(d, z)
        BY <2>1, <2>4
      <3> QED
        BY <2>3, <2>4, <3>1, ContinueSound
    <2>5. CASE z.state # "Running"
      BY <2>1, <2>3, <2>5
    <2> QED
      BY <2>4, <2>5
  <1> QED
    BY <1>3, <1>4, <1>5

-----------------------------------------------------------------------------
\* A wrapper after the headers: no data has arrived.
Started(d, z) ==
  /\ z \in Wrappers /\ Calm(z) /\ Whole(z) /\ z.in # "idle"
  /\ z.got = 0 /\ z.held = 0 /\ z.hand = 0 /\ ~z.trailers

\* Such a wrapper is sound if its iteration fits what its handler waits for.
LEMMA StartedSound ==
  ASSUME NEW d, NEW z, Started(d, z),
         z.iter = "stopall" => plugin.version # "v1",
         z.start_body => z.in = "ended" /\ z.end_stream,
         plugin.version = "v2" /\ z.in = "open" /\ z.state = "HttpCall" => z.iter = "stopall"
  PROVE  Sound(d, z, Failed(z)) /\ z.in # "idle"
  BY DEF Started, Sound, Buffered

\* Iteration goes on or stops after the headers.
LEMMA StartedEnds ==
  ASSUME NEW d, NEW x, Started(d, x), ~x.start_body,
         plugin.version = "v2" /\ x.in = "open" => x.state # "HttpCall",
         NEW z, z = Pass(x) \/ z = StopIteration(x)
  PROVE  Sound(d, z, Failed(z)) /\ z.in # "idle"
  <1>1. /\ z \in Wrappers /\ Core(z, x) /\ z.held = 0 /\ z.hand = 0 /\ z.iter # "stopall"
    BY PassFacts, StopFacts DEF Started
  <1>2. Calm(z) /\ Whole(z)
    BY <1>1 DEF Calm, Whole, Core, Started
  <1>3. Started(d, z)
    BY <1>1, <1>2 DEF Started, Core
  <1>4. /\ z.iter # "stopall" /\ ~z.start_body
        /\ plugin.version = "v2" /\ z.in = "open" => z.state # "HttpCall"
    BY <1>1 DEF Core
  <1> QED
    BY <1>3, <1>4, StartedSound

\* start of version 2, after the header handler.
LEMMA AfterHeaderSound ==
  ASSUME NEW d, NEW y, Started(d, y), ~y.start_body, y.made, y.end_stream => y.in = "ended",
         y.co = "dead" => y.state = "Running", y.state = "WaitForBody" => ~y.end_stream,
         plugin.version = "v2", plugin.body[d] \in BOOLEAN, NEW u \in AfterHeaderHandler(d, y)
  PROVE  Sound(d, u, Failed(u)) /\ u.in # "idle"
  <1>1. y \in Wrappers /\ y.end_stream \in BOOLEAN /\ y.state \in States
    BY Counts DEF Started
  <1>2. CASE y.co = "dead"
    <2>1. u = Pass(y)
      BY <1>2 DEF AfterHeaderHandler
    <2> QED
      BY <1>2, <2>1, StartedEnds
  <1>3. CASE y.co # "dead" /\ y.state = "HttpCall"
    <2> DEFINE b == y.end_stream /\ plugin.body[d]
               v == [y EXCEPT !.start_body = b]
    <2>1. u = [v EXCEPT !.iter = "stopall"] /\ b \in BOOLEAN /\ (b => y.end_stream)
      BY <1>1, <1>3 DEF AfterHeaderHandler, StopAllIterationAndBuffer
    <2> HIDE DEF b
    <2>2. "stopall" \in Iterations
      BY DEF Iterations
    <2>3. v \in Wrappers
      BY <1>1, <2>1 DEF Wrappers
    <2>4. /\ v.start_body = b /\ v.made = y.made /\ v.state = y.state /\ v.co = y.co
          /\ v.call = y.call /\ v.end_stream = y.end_stream /\ v.seen = y.seen /\ v.in = y.in
          /\ v.trailers = y.trailers /\ v.got = y.got /\ v.held = y.held /\ v.hand = y.hand
      BY ZenonT(30), <1>1 DEF Wrappers
    <2> HIDE DEF v
    <2>5. u \in Wrappers /\ u.iter = "stopall" /\ Core(u, v) /\ u.held = v.held /\ u.hand = v.hand
      BY <2>1, <2>2, <2>3 DEF Wrappers, Core
    <2>6. Calm(u) /\ Whole(u)
      BY <2>4, <2>5 DEF Calm, Whole, Core, Started
    <2>7. Started(d, u)
      BY <2>4, <2>5, <2>6 DEF Started, Core
    <2>8. u.start_body => u.in = "ended" /\ u.end_stream
      BY <2>1, <2>4, <2>5 DEF Core
    <2> QED
      BY <2>5, <2>7, <2>8, StartedSound
  <1>4. CASE y.co # "dead" /\ y.state # "HttpCall" /\ (y.state = "Responded" \/ ~y.end_stream)
    <2>1. u = StopIteration(y)
      BY <1>4 DEF AfterHeaderHandler
    <2> QED
      BY <1>4, <2>1, StartedEnds
  <1>5. CASE /\ y.co # "dead" /\ y.state # "HttpCall" /\ y.state # "Responded" /\ y.end_stream
             /\ ~plugin.body[d]
    <2>1. u = Pass(y)
      BY <1>5 DEF AfterHeaderHandler
    <2> QED
      BY <1>5, <2>1, StartedEnds
  <1>6. CASE /\ y.co # "dead" /\ y.state # "HttpCall" /\ y.state # "Responded" /\ y.end_stream
             /\ plugin.body[d]
    <2>1. PICK z \in StartBody(d, y) : u = IF z.state = "Running" THEN Pass(z) ELSE StopIteration(z)
      BY <1>6 DEF AfterHeaderHandler
    <2>2. y.state = "Running" /\ y.held = y.got /\ y.in = "ended" /\ (y.end_stream \/ y.saw_body)
          /\ Calm(y) /\ Whole(y)
      BY <1>1, <1>6 DEF Started, States
    <2>3. /\ z \in Wrappers /\ Calm(z) /\ Whole(z)
          /\ z.state # "WaitForBody" /\ z.made
          /\ z.start_body = y.start_body /\ z.in = y.in /\ z.got = y.got /\ z.hand = y.hand
          /\ z.held = y.held /\ z.iter = y.iter /\ z.saw_body = y.saw_body
          /\ z.trailers = y.trailers
      BY <1>1, <2>1, <2>2, StartBodyFacts, ZenonT(60)
    <2>4. Started(d, z) /\ ~z.start_body /\ z.in = "ended"
      BY <2>2, <2>3 DEF Started
    <2> QED
      BY <2>1, <2>4, StartedEnds
  <1> QED
    BY <1>2, <1>3, <1>4, <1>5, <1>6

\* A direction at the arrival of its headers.
Arrived(w, end) ==
  /\ w \in Wrappers /\ w.in # "idle" /\ (end => w.in = "ended")
  /\ w.got = 0 /\ w.held = 0 /\ w.hand = 0 /\ ~w.trailers /\ ~w.start_body /\ w.seen = NotSeen
  /\ w.state = "Running" /\ ~w.call /\ w.iter = "go"

\* decodeHeaders and encodeHeaders.
LEMMA DoHeadersSound ==
  ASSUME NEW d \in Directions, NEW end \in BOOLEAN, NEW w, Arrived(w, end),
         plugin \in Plugins, NEW u \in DoHeaders(d, w, end)
  PROVE  Sound(d, u, Failed(u)) /\ u.in # "idle"
  <1> USE PluginsAssumption
  <1>1. plugin.version \in {"v1", "v2"} /\ plugin.body[d] \in BOOLEAN
    OBVIOUS
  <1> DEFINE n == NewWrapper(w, end)
  <1>2. w \in Wrappers /\ Started(d, w) /\ ~w.start_body /\ w.state # "HttpCall"
    BY DEF Arrived, Started, Calm, Whole
  <1>3. n = [w EXCEPT !.made = TRUE, !.end_stream = end]
    BY DEF NewWrapper
  <1>4. n \in Wrappers
    BY ZenonT(60), <1>2, <1>3 DEF Wrappers
  <1>5. /\ n.made /\ n.end_stream = end /\ n.in = w.in /\ n.got = 0 /\ n.held = 0
        /\ n.hand = 0 /\ ~n.trailers /\ ~n.start_body /\ n.seen = NotSeen /\ n.iter = "go"
    BY <1>2, <1>3 DEF Wrappers, Arrived
  <1> HIDE DEF n
  <1>6. ASSUME NEW y \in Resume(d, n)
        PROVE  /\ Started(d, y) /\ ~y.start_body /\ y.made /\ (y.end_stream => y.in = "ended")
               /\ y.co = "dead" => y.state = "Running"
               /\ y.state = "WaitForBody" => ~y.end_stream
    <2>1. /\ y \in Wrappers /\ Kept(y, n) /\ Calm(y)
          /\ y.state = "WaitForBody" => ~n.end_stream
          /\ y.co = "dead" => y.state = "Running"
      BY <1>4, <1>5, <1>6, ResumeFacts
    <2> QED
      BY <1>2, <1>5, <2>1 DEF Kept, Started, Whole, Arrived
  <1>7. CASE u = StopIteration(w) \/ u = Pass(w)
    BY <1>2, <1>7, StartedEnds
  <1>8. CASE plugin.version = "v1" /\ u \in StartV1(d, n)
    <2>1. PICK y \in Resume(d, n) :
            u = IF y.state # "Running" THEN StopIteration(y)
                ELSE Pass([y EXCEPT !.headers_continued = (y.co = "finished")])
      BY <1>8 DEF StartV1
    <2>2. Started(d, y) /\ ~y.start_body
      BY <1>6
    <2>3. CASE y.state # "Running"
      BY <1>8, <2>1, <2>2, <2>3, StartedEnds
    <2>4. CASE y.state = "Running"
      <3> DEFINE h == y.co = "finished"
                 v == [y EXCEPT !.headers_continued = h]
      <3>1. u = Pass(v) /\ h \in BOOLEAN
        BY <2>1, <2>4
      <3> HIDE DEF h
      <3>2. v \in Wrappers /\ Core(v, y) /\ v.held = y.held /\ v.hand = y.hand
        BY <2>2, <3>1 DEF Wrappers, Core, Started
      <3> HIDE DEF v
      <3>3. Calm(v) /\ Whole(v)
        BY <2>2, <3>2 DEF Calm, Whole, Core, Started
      <3>4. Started(d, v) /\ ~v.start_body
        BY <2>2, <3>2, <3>3 DEF Started, Core
      <3> QED
        BY <1>8, <3>1, <3>4, StartedEnds
    <2> QED
      BY <2>3, <2>4
  <1>9. CASE plugin.version = "v2" /\ u \in StartV2(d, n)
    <2>1. PICK y \in Resume(d, n) : u \in AfterHeaderHandler(d, y)
      BY <1>9 DEF StartV2
    <2> QED
      BY <1>1, <1>6, <1>9, <2>1, AfterHeaderSound
  <1>10. \/ u = StopIteration(w) \/ u = Pass(w)
         \/ plugin.version = "v1" /\ u \in StartV1(d, n)
         \/ plugin.version = "v2" /\ u \in StartV2(d, n)
    BY <1>1 DEF DoHeaders, n
  <1> QED
    BY <1>7, <1>8, <1>9, <1>10

-----------------------------------------------------------------------------
\* An error asks for less, and cancelling a call does no harm.
LEMMA LaterSound ==
  ASSUME NEW d, NEW x, NEW e \in BOOLEAN, NEW f \in BOOLEAN, e => f, Sound(d, x, e)
  PROVE  Sound(d, x, f) /\ Sound(d, [x EXCEPT !.call = FALSE], f)
  <1> DEFINE z == [x EXCEPT !.call = FALSE]
  <1>1. Sound(d, x, f)
    BY DEF Sound, Buffered
  <1>2. /\ z \in Wrappers /\ ~z.call /\ z.made = x.made /\ z.state = x.state /\ z.co = x.co
        /\ z.saw_body = x.saw_body /\ z.end_stream = x.end_stream /\ z.start_body = x.start_body
        /\ z.seen = x.seen /\ z.in = x.in /\ z.trailers = x.trailers /\ z.got = x.got
        /\ z.held = x.held /\ z.hand = x.hand /\ z.iter = x.iter
    BY ZenonT(30) DEF Sound, Wrappers
  <1> HIDE DEF z
  <1>3. Calm(z) /\ Whole(z) /\ (z.in = "idle" => Unseen(z))
    BY <1>2 DEF Calm, Whole, Unseen, Sound
  <1>4. Buffered(d, z, f)
    BY <1>1, <1>2 DEF Buffered, Sound
  <1>5. Sound(d, z, f)
    BY <1>2, <1>3, <1>4 DEF Sound
  <1> QED
    BY <1>1, <1>5 DEF z

\* The directions are sound after a step if they are in the state it leaves.
LEMMA InvariantAfter ==
  ASSUME TypeOK', plugin' = plugin,
         \A e \in Directions :
           Sound(e, dir'[e], filter'.error) /\ (filter'.destroyed => ~dir'[e].call)
  PROVE  IInv'
  BY DEF IInv, Sound, Buffered, Calm, Whole, Unseen

\* A callback that leaves its direction sound keeps the invariant.
LEMMA BecomesKeeps ==
  ASSUME IInv, ~filter.destroyed, NEW d \in Directions, NEW y, Sound(d, y, Failed(y)),
         NEW r \in BOOLEAN, Becomes(d, y, r)
  PROVE  IInv'
  <1> DEFINE responds == y.state = "Responded" /\ dir[d].state # "Responded"
             err == Failed(y)
             resp == r \/ responds
  <1>1. /\ plugin' = plugin /\ gate' = gate /\ plugin \in Plugins /\ gate \in Gates
        /\ filter \in [error : BOOLEAN, responded : BOOLEAN, destroyed : BOOLEAN]
        /\ dir \in [Directions -> Wrappers] /\ y \in Wrappers
        /\ \A e \in Directions : Sound(e, dir[e], filter.error)
    BY DEF Becomes, IInv, TypeOK, Sound
  <1>2. err \in BOOLEAN /\ resp \in BOOLEAN /\ (filter.error => err)
    BY <1>1 DEF Failed
  <1>3. CASE responds /\ dir["response"].in # "idle"
    <2>1. /\ filter' = [filter EXCEPT !.destroyed = TRUE]
          /\ dir' = [Reset EXCEPT ![d] = y]
      BY <1>3 DEF Becomes
    <2>2. ~y.call /\ err = filter.error
      BY <1>1, <1>3 DEF Sound, Calm, Failed
    <2>3. ASSUME NEW e \in Directions
          PROVE  Sound(e, Reset[e], filter.error) /\ ~Reset[e].call
      <3>1. Reset[e] = [dir[e] EXCEPT !.call = FALSE]
        BY DEF Reset
      <3>2. Sound(e, [dir[e] EXCEPT !.call = FALSE], filter.error)
        BY <1>1, LaterSound
      <3>3. ~[dir[e] EXCEPT !.call = FALSE].call
        BY <1>1 DEF Wrappers
      <3> QED
        BY <3>1, <3>2, <3>3
    <2>4. Reset \in [Directions -> Wrappers]
      <3>1. \A e \in Directions : Sound(e, Reset[e], filter.error)
        BY <2>3
      <3>2. \A e \in Directions : Reset[e] \in Wrappers
        BY <3>1 DEF Sound
      <3> QED
        BY <3>2 DEF Reset
    <2>5. filter' \in [error : BOOLEAN, responded : BOOLEAN, destroyed : BOOLEAN]
          /\ filter'.error = filter.error
      BY ZenonT(30), <1>1, <2>1
    <2>6. dir' \in [Directions -> Wrappers]
      BY <1>1, <2>1, <2>4
    <2>7. \A e \in Directions : dir'[e] = IF e = d THEN y ELSE Reset[e]
      BY <2>1, <2>4
    <2>8. \A e \in Directions : Sound(e, dir'[e], filter'.error) /\ ~dir'[e].call
      BY <2>2, <2>3, <2>5, <2>7
    <2>9. TypeOK'
      BY <1>1, <2>5, <2>6 DEF TypeOK
    <2> QED
      BY <1>1, <2>8, <2>9, InvariantAfter
  <1>4. CASE ~(responds /\ dir["response"].in # "idle")
    <2>1. /\ filter' = [filter EXCEPT !.error = err, !.responded = resp]
          /\ dir' = [dir EXCEPT ![d] = y]
      BY <1>4 DEF Becomes
    <2> HIDE DEF err, resp
    <2>2. filter' \in [error : BOOLEAN, responded : BOOLEAN, destroyed : BOOLEAN]
          /\ filter'.error = err /\ filter'.destroyed = filter.destroyed
      BY ZenonT(30), <1>1, <1>2, <2>1
    <2>3. dir' \in [Directions -> Wrappers]
          /\ \A e \in Directions : dir'[e] = IF e = d THEN y ELSE dir[e]
      BY <1>1, <2>1
    <2>4. \A e \in Directions : Sound(e, dir[e], err)
      BY ZenonT(30), <1>1, <1>2, LaterSound
    <2>5. Sound(d, y, err)
      BY DEF err
    <2>6. \A e \in Directions : Sound(e, dir'[e], filter'.error)
      BY <2>2, <2>3, <2>4, <2>5
    <2>7. TypeOK'
      BY <1>1, <2>2, <2>3 DEF TypeOK
    <2> QED
      BY <1>1, <2>2, <2>6, <2>7, InvariantAfter
  <1> QED
    BY <1>3, <1>4

\* The headers open a direction.
Opened(x, end) == [x EXCEPT !.in = IF end THEN "ended" ELSE "open"]

\* What headers make of a direction x.
GotHeaders(w, x, end) ==
  /\ Arrived(w, end) /\ w.in = (IF end THEN "ended" ELSE "open")
  /\ w.co = "new" /\ w.out = x.out /\ w.phase = x.phase /\ w.twice = x.twice

\* A direction whose headers arrive has seen nothing before.
LEMMA HeadersArrive ==
  ASSUME IInv, NEW d \in Directions, NEW end \in BOOLEAN, dir[d].in = "idle", NEW w,
         w = Opened(dir[d], end)
  PROVE  GotHeaders(w, dir[d], end)
  <1> DEFINE x == dir[d]
             i == IF end THEN "ended" ELSE "open"
  <1>1. /\ x \in Wrappers /\ Unseen(x) /\ x.hand = 0 /\ (x.trailers => x.in = "ended")
        /\ x.in = "idle"
    BY DEF IInv, TypeOK, Sound
  <1>2. i \in Arrivals /\ i # "idle" /\ (end => i = "ended")
    BY DEF Arrivals
  <1>3. w = [x EXCEPT !.in = i]
    BY DEF Opened
  <1> HIDE DEF x, i
  <1>4. w \in Wrappers
    BY <1>1, <1>2, <1>3 DEF Wrappers
  <1>5. Arrived(w, end)
    BY <1>1, <1>2, <1>3, <1>4 DEF Arrived, Wrappers, Unseen
  <1>6. w.in = i /\ w.co = "new" /\ w.out = x.out /\ w.phase = x.phase /\ w.twice = x.twice
    BY <1>1, <1>3 DEF Wrappers, Unseen
  <1> QED
    BY <1>5, <1>6 DEF x, i, GotHeaders

\* The headers of a direction arrive.
LEMMA HeadersKeeps ==
  ASSUME IInv, ~filter.destroyed, NEW d \in Directions, NEW end \in BOOLEAN, Headers(d, end)
  PROVE  IInv'
  <1> DEFINE w == Opened(dir[d], end)
  <1>1. dir[d].in = "idle" /\ \E y \in DoHeaders(d, w, end) : Becomes(d, y, RespondedAfterHeaders(d))
    BY DEF Headers, Opened
  <1>2. Arrived(w, end)
    BY <1>1, HeadersArrive DEF GotHeaders
  <1> HIDE DEF w
  <1>3. PICK y \in DoHeaders(d, w, end) : Becomes(d, y, RespondedAfterHeaders(d))
    BY <1>1
  <1>4. Sound(d, y, Failed(y))
    BY <1>2, <1>3, DoHeadersSound DEF IInv, TypeOK
  <1>5. RespondedAfterHeaders(d) \in BOOLEAN
    BY DEF RespondedAfterHeaders, IInv, TypeOK
  <1> QED
    BY <1>3, <1>4, <1>5, BecomesKeeps

\* A piece of the body joins a direction.
Piece(x, end) ==
  [x EXCEPT !.in = IF end THEN "ended" ELSE "open", !.got = @ + 1, !.hand = 1]

\* What a piece of the body makes of a direction o.
GotPiece(x, o, end) ==
  /\ x \in Wrappers /\ x.in = (IF end THEN "ended" ELSE "open")
  /\ x.got = o.got + 1 /\ x.hand = 1 /\ x.held = o.held /\ x.iter = o.iter
  /\ x.made = o.made /\ x.state = o.state /\ x.co = o.co /\ x.call = o.call
  /\ x.saw_body = o.saw_body /\ x.end_stream = o.end_stream /\ x.start_body = o.start_body
  /\ x.seen = o.seen /\ x.trailers = o.trailers
  /\ x.phase = o.phase /\ x.out = o.out /\ x.twice = o.twice
  /\ Calm(x) /\ x.seen = NotSeen /\ ~x.start_body /\ ~x.trailers /\ x.held + x.hand <= x.got

\* A direction that a piece of the body arrives for.
LEMMA PieceArrives ==
  ASSUME IInv, NEW d \in Directions, NEW end \in BOOLEAN, dir[d].in = "open", dir[d].got < MaxData,
         NEW x, x = Piece(dir[d], end)
  PROVE  GotPiece(x, dir[d], end)
  <1> DEFINE o == dir[d]
             i == IF end THEN "ended" ELSE "open"
             n == o.got + 1
  <1>1. /\ o \in Wrappers /\ Sound(d, o, filter.error) /\ o.in = "open" /\ o.got < MaxData
    BY DEF IInv, TypeOK
  <1>2. o.got \in 0 .. MaxData /\ o.held \in 0 .. MaxData /\ o.held <= o.got
    BY <1>1, Counts DEF Sound
  <1>3. i \in Arrivals /\ n \in Pieces /\ 1 \in Pieces /\ n = o.got + 1
    BY <1>1, <1>2 DEF Arrivals, Pieces
  <1>4. x = [o EXCEPT !.in = i, !.got = n, !.hand = 1]
    BY DEF Piece
  <1> HIDE DEF o, i, n
  <1>5. x \in Wrappers
    <2> DEFINE v == [o EXCEPT !.in = i, !.got = n]
    <2>1. v \in Wrappers
      BY ZenonT(30), <1>1, <1>3 DEF Wrappers
    <2>2. x = [v EXCEPT !.hand = 1]
      BY <1>1, <1>4 DEF Wrappers
    <2> HIDE DEF v
    <2> QED
      BY <1>3, <2>1, <2>2 DEF Wrappers
  <1>6. /\ x.in = i /\ x.got = n /\ x.hand = 1 /\ x.held = o.held /\ x.iter = o.iter
        /\ x.made = o.made /\ x.state = o.state /\ x.co = o.co /\ x.call = o.call
        /\ x.saw_body = o.saw_body /\ x.end_stream = o.end_stream /\ x.start_body = o.start_body
        /\ x.seen = o.seen /\ x.trailers = o.trailers
        /\ x.phase = o.phase /\ x.out = o.out /\ x.twice = o.twice
    BY <1>1, <1>4 DEF Wrappers
  <1>7. /\ Calm(x) /\ x.seen = NotSeen /\ ~x.start_body /\ ~x.trailers /\ x.held + x.hand <= x.got
    BY <1>1, <1>2, <1>3, <1>6, Counts DEF Sound, Calm, Whole, Buffered
  <1> QED
    BY <1>3, <1>5, <1>6, <1>7 DEF o, i, n, GotPiece

\* A piece of the body arrives.
LEMMA DataKeeps ==
  ASSUME IInv, ~filter.destroyed, NEW d \in Directions, NEW end \in BOOLEAN, Data(d, end)
  PROVE  IInv'
  <1> DEFINE o == dir[d]
             x == Piece(o, end)
  <1>1. /\ o.in = "open" /\ o.got < MaxData
        /\ \E y \in IF x.iter = "stopall" THEN {AddData(x)} ELSE DoData(d, x, end) :
             Becomes(d, y, filter.responded)
    BY ZenonT(60) DEF Data, Piece
  <1>2. /\ x \in Wrappers /\ x.in = (IF end THEN "ended" ELSE "open")
        /\ x.got = o.got + 1 /\ x.hand = 1 /\ x.held = o.held /\ x.iter = o.iter
        /\ x.made = o.made /\ x.state = o.state /\ x.saw_body = o.saw_body
        /\ Calm(x) /\ x.seen = NotSeen /\ ~x.start_body /\ ~x.trailers
        /\ x.held + x.hand <= x.got
    <2>1. GotPiece(x, o, end)
      BY ZenonT(60), <1>1, PieceArrives
    <2> HIDE DEF x, o
    <2> QED
      BY ZenonT(60), <2>1 DEF GotPiece
  <1>3. /\ o \in Wrappers /\ Sound(d, o, filter.error)
        /\ plugin \in Plugins /\ filter.error \in BOOLEAN /\ filter.responded \in BOOLEAN
    BY DEF IInv, TypeOK
  <1> HIDE DEF o, x
  <1>4. PICK y \in IF x.iter = "stopall" THEN {AddData(x)} ELSE DoData(d, x, end) :
          Becomes(d, y, filter.responded)
    BY <1>1
  <1>5. o.got \in 0 .. MaxData /\ o.held \in 0 .. MaxData /\ o.held <= o.got
    BY <1>3, Counts DEF Sound
  <1>6. x.in # "idle" /\ (end => x.in = "ended")
    BY <1>2
  <1>7. plugin.version \in {"v1", "v2"}
    BY <1>3, PluginsAssumption
  <1>8. ~Failed(x) => ~filter.error
    BY DEF Failed
  <1>9. CASE x.iter = "stopall"
    <2>1. y = AddData(x)
      BY <1>4, <1>9
    <2>2. y \in Wrappers /\ y.held = x.held + x.hand /\ y.hand = 0 /\ y.iter = x.iter /\ Core(y, x)
      BY <1>2, <2>1, AddFacts
    <2>3. y.held = y.got /\ plugin.version # "v1"
      BY <1>2, <1>3, <1>5, <1>9, <2>2 DEF Sound, Buffered, Core
    <2>4. Calm(y) /\ Whole(y)
      BY <1>2, <2>2 DEF Calm, Whole, Core
    <2>5. Buffered(d, y, Failed(y))
      BY <1>1, <1>2, <1>3, <1>9, <2>2, <2>3 DEF Buffered, Core, Sound
    <2>6. y.held <= y.got
      BY <2>2, <2>3, Counts
    <2>7. Sound(d, y, Failed(y))
      BY <1>2, <1>6, <2>2, <2>4, <2>5, <2>6 DEF Sound, Core
    <2> QED
      BY <1>3, <1>4, <2>7, BecomesKeeps
  <1>10. CASE x.iter # "stopall"
    <2>1. y \in DoData(d, x, end)
      BY <1>4, <1>10
    <2>2. Whole(x)
      BY <1>2 DEF Whole
    <2>3. plugin.version = "v2" => x.state # "HttpCall"
      BY SMTT(60), <1>1, <1>2, <1>3, <1>10 DEF Sound, Buffered
    <2>4. ~Failed(x) =>
            /\ plugin.version = "v2" /\ plugin.body[d] /\ x.state # "Responded" =>
                 x.held + x.hand = x.got
            /\ plugin.version = "v1" /\ x.state = "WaitForBody" => x.held + x.hand = x.got
      BY SMTT(60), <1>1, <1>2, <1>3, <1>5, <1>8 DEF Sound, Buffered
    <2>5. Ready(d, x, end)
      BY <1>2, <1>6, <1>10, <2>2, <2>3, <2>4 DEF Ready
    <2>6. Sound(d, y, Failed(y))
      BY <1>7, <2>1, <2>5, DoDataSound
    <2> QED
      BY <1>3, <1>4, <2>6, BecomesKeeps
  <1> QED
    BY <1>9, <1>10

\* Trailers arrive.
LEMMA TrailersKeeps ==
  ASSUME IInv, NEW d \in Directions, Trailers(d)
  PROVE  IInv'
  <1> DEFINE o == dir[d]
             x == [o EXCEPT !.in = "ended", !.trailers = TRUE]
             y == IF x.iter = "stopall" THEN x ELSE Pass(x)
  <1>1. ~filter.destroyed /\ Becomes(d, y, filter.responded)
    BY DEF Trailers, Live
  <1>2. /\ o \in Wrappers /\ Sound(d, o, filter.error) /\ o.in = "open"
        /\ filter.error \in BOOLEAN /\ filter.responded \in BOOLEAN
    BY DEF Trailers, IInv, TypeOK, Sound
  <1>3. "ended" \in Arrivals
    BY DEF Arrivals
  <1> HIDE DEF o
  <1>4. x \in Wrappers
    BY ZenonT(30), <1>2, <1>3 DEF Wrappers
  <1>5. /\ x.in = "ended" /\ x.got = o.got /\ x.hand = o.hand /\ x.held = o.held /\ x.iter = o.iter
        /\ x.made = o.made /\ x.state = o.state /\ x.co = o.co /\ x.call = o.call
        /\ x.saw_body = o.saw_body /\ x.end_stream = o.end_stream /\ x.start_body = o.start_body
        /\ x.seen = o.seen
    BY <1>2 DEF Wrappers
  <1> HIDE DEF x
  <1>6. ~Failed(x) => ~filter.error
    BY DEF Failed
  <1>7. Calm(x) /\ Whole(x)
    BY <1>2, <1>5 DEF Sound, Calm, Whole
  <1>8. Buffered(d, x, Failed(x))
    BY <1>2, <1>5, <1>6 DEF Sound, Buffered
  <1>9. Sound(d, x, Failed(x))
    BY <1>2, <1>4, <1>5, <1>7, <1>8 DEF Sound
  <1>10. Sound(d, y, Failed(y))
    BY <1>5, <1>9, PassSound
  <1> HIDE DEF y
  <1> QED
    BY <1>1, <1>2, <1>10, BecomesKeeps

-----------------------------------------------------------------------------
\* The invariant holds before the request.
LEMMA InitInvariant == Init => IInv
  <1> SUFFICES ASSUME Init PROVE IInv
    OBVIOUS
  <1> USE DEF Init
  <1>1. Fresh \in Wrappers
    BY DEF Fresh, Wrappers, States, Coroutines, Phases, Arrivals, Iterations, Outputs, Pieces, Read
  <1>2. TypeOK
    BY <1>1 DEF TypeOK
  <1>3. ASSUME NEW d
        PROVE  Sound(d, Fresh, FALSE) /\ ~Fresh.call
    <2>1. /\ Fresh.got = 0 /\ Fresh.held = 0 /\ Fresh.hand = 0 /\ ~Fresh.made /\ ~Fresh.call
          /\ Fresh.state = "Running" /\ Fresh.co = "new" /\ Fresh.iter = "go" /\ ~Fresh.start_body
          /\ Fresh.seen = NotSeen /\ Fresh.in = "idle" /\ ~Fresh.trailers
      BY DEF Fresh
    <2> QED
      BY <1>1, <2>1 DEF Sound, Calm, Whole, Buffered, Unseen
  <1> QED
    BY ZenonT(30), <1>2, <1>3 DEF IInv

\* Every step keeps the invariant.
LEMMA NextInvariant == IInv /\ [Next]_vars => IInv'
  <1> SUFFICES ASSUME IInv, [Next]_vars PROVE IInv'
    OBVIOUS
  <1>1. "request" \in Directions /\ "response" \in Directions
    BY DEF Directions
  <1>2. ASSUME NEW end \in BOOLEAN, RequestHeaders(end) \/ ResponseHeaders(end) PROVE IInv'
    BY <1>1, <1>2, HeadersKeeps DEF RequestHeaders, ResponseHeaders, Live
  <1>3. ASSUME NEW end \in BOOLEAN, RequestData(end) \/ ResponseData(end) PROVE IInv'
    BY <1>1, <1>3, DataKeeps DEF RequestData, ResponseData, Live
  <1>4. ASSUME NEW d \in Directions, Trailers(d) PROVE IInv'
    BY <1>4, TrailersKeeps
  <1>5. ASSUME NEW d \in Directions, Answer(d) PROVE IInv'
    <2>1. /\ ~filter.destroyed /\ dir[d].call /\ Sound(d, dir[d], filter.error)
          /\ filter.error \in BOOLEAN /\ filter.responded \in BOOLEAN /\ plugin \in Plugins
      BY <1>5 DEF Answer, Live, IInv, TypeOK
    <2>2. PICK y \in OnSuccess(d, dir[d]) : Becomes(d, y, filter.responded)
      BY <1>5 DEF Answer
    <2>3. plugin.version \in {"v1", "v2"}
      BY <2>1, PluginsAssumption
    <2>4. Sound(d, y, Failed(y))
      BY ZenonT(60), <2>1, <2>2, <2>3, OnSuccessSound
    <2> QED
      BY <2>1, <2>2, <2>4, BecomesKeeps
  <1>6. CASE SendLocalReply
    BY SMTT(60), <1>6 DEF SendLocalReply, IInv, TypeOK, Sound, Buffered, Calm, Whole, Unseen
  <1>7. CASE LocalHeaders
    <2>1. (Len(local) = 1) \in BOOLEAN
      OBVIOUS
    <2> QED
      BY ZenonT(30), <1>1, <1>7, <2>1, HeadersKeeps DEF LocalHeaders, Live
  <1>8. CASE LocalData
    BY ZenonT(30), <1>1, <1>8, DataKeeps DEF LocalData, Live
  <1>9. CASE OnDestroy
    <2>1. /\ filter' = [filter EXCEPT !.destroyed = TRUE] /\ dir' = Reset
          /\ plugin' = plugin /\ gate' = gate
      BY <1>9 DEF OnDestroy
    <2>2. /\ plugin \in Plugins /\ gate \in Gates /\ dir \in [Directions -> Wrappers]
          /\ filter \in [error : BOOLEAN, responded : BOOLEAN, destroyed : BOOLEAN]
          /\ \A e \in Directions : Sound(e, dir[e], filter.error)
      BY DEF IInv, TypeOK
    <2>3. ASSUME NEW e \in Directions
          PROVE  Sound(e, Reset[e], filter.error) /\ ~Reset[e].call
      <3>1. Reset[e] = [dir[e] EXCEPT !.call = FALSE]
        BY DEF Reset
      <3>2. Sound(e, [dir[e] EXCEPT !.call = FALSE], filter.error)
        BY <2>2, LaterSound
      <3>3. ~[dir[e] EXCEPT !.call = FALSE].call
        BY <2>2 DEF Wrappers
      <3> QED
        BY <3>1, <3>2, <3>3
    <2>4. \A e \in Directions : Reset[e] \in Wrappers
      BY <2>3 DEF Sound
    <2>5. Reset \in [Directions -> Wrappers]
      BY <2>4 DEF Reset
    <2>6. /\ filter' \in [error : BOOLEAN, responded : BOOLEAN, destroyed : BOOLEAN]
          /\ filter'.error = filter.error
      BY ZenonT(30), <2>1, <2>2
    <2>7. TypeOK'
      BY <2>1, <2>2, <2>5, <2>6 DEF TypeOK
    <2>8. \A e \in Directions : Sound(e, dir'[e], filter'.error) /\ ~dir'[e].call
      BY ZenonT(60), <2>1, <2>3, <2>6
    <2> QED
      BY <2>1, <2>7, <2>8, InvariantAfter
  <1>10. CASE UNCHANGED vars
    BY SMTT(60), <1>10 DEF vars, IInv, TypeOK, Sound, Buffered, Calm, Whole, Unseen
  <1> QED
    BY <1>2, <1>3, <1>4, <1>5, <1>6, <1>7, <1>8, <1>9, <1>10 DEF Next

\* The invariant: both directions are sound, whatever the handlers do.
THEOREM RiderInvariant == Spec => []IInv
  BY InitInvariant, NextInvariant, PTL DEF Spec

\* The wrappers of a stream keep their types.
THEOREM TypeCorrect == Spec => []TypeOK
  <1>1. IInv => TypeOK
    BY DEF IInv
  <1> QED
    BY <1>1, RiderInvariant, PTL

\* An answered HTTP call finds the stream alive and its handler waiting for it.
THEOREM AnswersFindHandlers == Spec => []AnswerFindsHandler
  <1>1. IInv => AnswerFindsHandler
    BY DEF IInv, Sound, Calm, AnswerFindsHandler
  <1> QED
    BY <1>1, RiderInvariant, PTL

\* A handler reads the body only when all of it has arrived and is buffered.
THEOREM BodiesWhole == Spec => []BodyWhole
  <1>1. IInv => BodyWhole
    BY DEF IInv, Sound, Whole, BodyWhole
  <1> QED
    BY <1>1, RiderInvariant, PTL

-----------------------------------------------------------------------------
(* The second layer: what has moved on while a handler waits.               *)

\* The handler waits, and the callbacks look for that.
Waits(x) == x.state # "Running" /\ (plugin.version = "v2" => x.state # "WaitForBody")

\* What a message has done for its handler, iteration aside: a handler that
\* waits holds the headers, or, in its body phase, the end.
Quiet(d, x) ==
  /\ ~x.twice
  /\ x.out = "end" => x.in = "ended"
  /\ x.in = "idle" => x.out = "nothing" /\ x.phase = "header"
  /\ Waits(x) =>
       /\ x.out # "end" /\ x.co # "dead"
       /\ x.phase = "header" \/ plugin.version = "v1" => x.out = "nothing"
  /\ d = "response" => x.state # "Responded"

\* Iteration is stopped while the handler waits.
Orderly(d, x) == Quiet(d, x) /\ (Waits(x) => x.iter # "go")

\* The fields Quiet reads, and out not taken back.
Alike(z, x) ==
  /\ z.state = x.state /\ z.co = x.co /\ z.phase = x.phase /\ z.out = x.out
  /\ z.twice = x.twice /\ z.in = x.in

\* A wrapper that passes is in order if its handler does not wait.
LEMMA PassOrderly ==
  ASSUME NEW d, NEW x \in Wrappers, ~x.twice, ~Waits(x), x.in # "idle", NEW z, z = Pass(x)
  PROVE  /\ Orderly(d, z) /\ z.in = x.in /\ z.out # "nothing" /\ z.co = x.co
         /\ z.state = x.state
  <1>1. /\ z.out = IF x.in = "ended" THEN "end" ELSE "headers"
        /\ z.state = x.state /\ z.twice = x.twice /\ z.in = x.in /\ z.co = x.co
    BY DEF Pass, Wrappers
  <1> QED
    BY <1>1 DEF Orderly, Quiet, Waits

\* Stopping keeps what Quiet says and adds that iteration is stopped.
LEMMA StopOrderly ==
  ASSUME NEW d, NEW x \in Wrappers, Quiet(d, x), NEW z,
         \/ z = StopIteration(x) \/ z = StopIterationAndBuffer(x)
         \/ z = StopIterationNoBuffer(x) \/ z = StopAllIterationAndBuffer(x)
  PROVE  Orderly(d, z) /\ Alike(z, x)
  <1>1. Alike(z, x) /\ z.iter # "go"
    BY ZenonT(60) DEF StopIteration, StopIterationAndBuffer, StopIterationNoBuffer, AddData,
           StopAllIterationAndBuffer, Wrappers, Alike
  <1> QED
    BY <1>1 DEF Orderly, Quiet, Alike, Waits

\* A handler that runs may come back waiting, so what it holds must still be here.
LEMMA ResumeQuiet ==
  ASSUME NEW d, NEW x \in Wrappers, x.made, ~x.twice, x.out # "end", x.in # "idle",
         x.phase = "header" \/ plugin.version = "v1" => x.out = "nothing", NEW z \in Resume(d, x)
  PROVE  /\ z \in Wrappers /\ Quiet(d, z) /\ Kept(z, x)
         /\ z.out = x.out /\ z.phase = x.phase
         /\ z.state = "WaitForBody" => ~x.end_stream /\ ~x.saw_body
         /\ z.state # "Running" => z.co # "dead"
  <1>1. PICK o \in May(d, x) : z = Did(x, o)
    BY DEF Resume
  <1>2. /\ o \in {"finish", "error", "call", "body", "respond"}
        /\ o = "respond" => d = "request"
    BY <1>1 DEF May
  <1>3. z \in Wrappers /\ Kept(z, x) /\ (z.state = "WaitForBody" => ~x.end_stream /\ ~x.saw_body)
    BY ResumeFacts
  <1>4. /\ z.state = StateAfter[o] /\ z.co = CoroutineAfter[o] /\ z.phase = x.phase
        /\ z.out = x.out /\ z.twice = x.twice
    BY <1>1 DEF Did, Wrappers
  <1>5. (z.state = "Responded" => d = "request") /\ (z.state # "Running" => z.co # "dead")
    BY <1>2, <1>4 DEF StateAfter, CoroutineAfter
  <1> QED
    BY <1>3, <1>4, <1>5 DEF Quiet, Kept, Waits

\* The body handler may be started once the headers have moved on.
LEMMA StartBodyQuiet ==
  ASSUME NEW d, NEW x \in Wrappers, x.made, x.state = "Running", ~x.twice, x.out # "end",
         x.in # "idle", plugin.version = "v1" => x.out = "nothing", NEW z \in StartBody(d, x)
  PROVE  /\ z \in Wrappers /\ Quiet(d, z) /\ z.out = x.out /\ z.in = x.in /\ z.iter = x.iter
         /\ z.got = x.got /\ z.trailers = x.trailers /\ z.held = x.held /\ z.hand = x.hand
         /\ z.state = "WaitForBody" => ~x.saw_body
  <1>1. CASE x.co = "dead"
    BY <1>1 DEF StartBody, Quiet, Waits
  <1>2. CASE x.co # "dead"
    <2> DEFINE y == [x EXCEPT !.phase = "body", !.seen = x.held]
    <2>1. z \in Resume(d, y)
      BY <1>2 DEF StartBody
    <2>2. x.held \in Read /\ "body" \in Phases
      BY DEF Wrappers, Read, Phases
    <2>3. y \in Wrappers
      BY ZenonT(30), <2>2 DEF Wrappers
    <2>4. /\ y.made /\ ~y.twice /\ y.out = x.out /\ y.in = x.in /\ y.phase = "body"
          /\ y.iter = x.iter /\ y.got = x.got /\ y.trailers = x.trailers
          /\ y.held = x.held /\ y.hand = x.hand /\ y.saw_body = x.saw_body
      BY DEF Wrappers
    <2> HIDE DEF y
    <2>5. /\ z \in Wrappers /\ Quiet(d, z) /\ Kept(z, y) /\ z.out = y.out
          /\ z.state = "WaitForBody" => ~y.saw_body
      BY <2>1, <2>3, <2>4, ResumeQuiet
    <2> QED
      BY <2>4, <2>5 DEF Kept
  <1> QED
    BY <1>1, <1>2

\* onData of version 1.
LEMMA OnDataV1Orderly ==
  ASSUME NEW d, NEW x \in Wrappers, NEW end \in BOOLEAN, x.made, Quiet(d, x), x.out # "end",
         x.in # "idle", x.held + x.hand <= x.got, plugin.version = "v1",
         NEW u \in OnDataV1(d, x, end)
  PROVE  /\ Orderly(d, u) /\ u.in = x.in /\ (u.out = "nothing" => x.out = "nothing")
         /\ u.co # x.co => x.state # "Running"
  <1> DEFINE y == [x EXCEPT !.end_stream = end, !.saw_body = TRUE]
             b == AddData(y)
             c == [b EXCEPT !.state = "Running", !.seen = b.held]
  <1>1. /\ y \in Wrappers /\ Alike(y, x) /\ y.made = x.made /\ y.held = x.held /\ y.hand = x.hand
        /\ y.got = x.got
    BY ZenonT(30) DEF Wrappers, Alike
  <1>2. PICK z \in IF y.state = "WaitForBody" /\ end THEN Resume(d, c) ELSE {y} :
          u = CASE z.state \in {"HttpCall", "WaitForBody"} -> StopIterationAndBuffer(z)
                [] z.state = "Responded" -> StopIterationNoBuffer(z)
                [] z.state = "Running" -> Pass([z EXCEPT !.headers_continued = (z.co # "dead")])
    BY ZenonT(30) DEF OnDataV1
  <1>3. /\ z \in Wrappers /\ Quiet(d, z) /\ z.out = x.out /\ z.in = x.in
        /\ z.co # x.co => x.state # "Running"
    <2>1. CASE ~(y.state = "WaitForBody" /\ end)
      <3>1. z = y
        BY <2>1, <1>2
      <3> HIDE DEF y
      <3> QED
        BY <3>1, <1>1 DEF Quiet, Alike, Waits
    <2>2. CASE y.state = "WaitForBody" /\ end
      <3> HIDE DEF y
      <3>1. b \in Wrappers /\ Core(b, y)
        BY <1>1, AddFacts
      <3>2. b.phase = y.phase /\ b.out = y.out /\ b.twice = y.twice
        BY <1>1 DEF AddData, Wrappers
      <3>3. z \in Resume(d, c)
        BY <1>2, <2>2
      <3> HIDE DEF b
      <3>4. b.held \in Read /\ "Running" \in States
        BY <3>1, Counts DEF Read, Pieces, States
      <3>5. c \in Wrappers
        BY ZenonT(30), <3>1, <3>4 DEF Wrappers
      <3>6. /\ c.made = b.made /\ c.phase = b.phase /\ c.out = b.out /\ c.twice = b.twice
            /\ c.in = b.in
        BY <3>1 DEF Wrappers
      <3> HIDE DEF c
      <3>7. /\ c.made /\ ~c.twice /\ c.out # "end" /\ c.in # "idle" /\ c.in = x.in
            /\ (c.phase = "header" \/ plugin.version = "v1" => c.out = "nothing") /\ c.out = x.out
        BY SMTT(60), <1>1, <2>2, <3>1, <3>2, <3>6 DEF Quiet, Alike, Core, Waits
      <3>8. z \in Wrappers /\ Quiet(d, z) /\ Kept(z, c) /\ z.out = c.out
        BY <3>3, <3>5, <3>7, ResumeQuiet
      <3> QED
        BY <1>1, <2>2, <3>7, <3>8 DEF Kept, Alike
    <2> QED
      BY <2>1, <2>2
  <1> HIDE DEF y, b, c
  <1>4. CASE z.state # "Running"
    <2>1. u = StopIterationAndBuffer(z) \/ u = StopIterationNoBuffer(z)
      BY <1>2, <1>3, <1>4, Counts DEF States
    <2>2. Orderly(d, u) /\ Alike(u, z)
      BY <1>3, <2>1, StopOrderly
    <2> QED
      BY <1>3, <2>2 DEF Alike
  <1>5. CASE z.state = "Running"
    <2> DEFINE h == z.co # "dead"
               w == [z EXCEPT !.headers_continued = h]
    <2>1. u = Pass(w) /\ h \in BOOLEAN
      BY <1>2, <1>5
    <2> HIDE DEF h
    <2>2. w \in Wrappers /\ Alike(w, z)
      BY <1>3, <2>1 DEF Wrappers, Alike
    <2> HIDE DEF w
    <2>3. ~w.twice /\ ~Waits(w) /\ w.in # "idle" /\ w.in = x.in /\ w.co = z.co
      BY <1>3, <1>5, <2>2 DEF Quiet, Alike, Waits
    <2>4. Orderly(d, u) /\ u.in = w.in /\ u.out # "nothing" /\ u.co = w.co
      BY <2>1, <2>2, <2>3, PassOrderly
    <2> QED
      BY <1>3, <2>3, <2>4
  <1> QED
    BY <1>4, <1>5

\* onData of version 2.
LEMMA OnDataV2Orderly ==
  ASSUME NEW d, NEW x \in Wrappers, NEW end \in BOOLEAN, x.made, ~Waits(x), Quiet(d, x),
         x.out # "end", x.in # "idle", x.held + x.hand <= x.got, plugin.version = "v2",
         NEW u \in OnDataV2(d, x, end)
  PROVE  /\ Orderly(d, u) /\ u.in = x.in /\ (u.out = "nothing" => x.out = "nothing")
         /\ ~end => u.state = x.state
  <1> DEFINE y == [x EXCEPT !.end_stream = end, !.saw_body = TRUE]
             b == AddData(y)
  <1>1. /\ y \in Wrappers /\ Alike(y, x) /\ y.made = x.made /\ y.held = x.held /\ y.hand = x.hand
        /\ y.got = x.got /\ y.saw_body
    BY ZenonT(30) DEF Wrappers, Alike
  <1>2. PICK z \in IF end /\ y.state = "Running" THEN StartBody(d, b) ELSE {y} :
          u = CASE z.state = "HttpCall" -> StopIterationAndBuffer(z)
                [] z.state = "Responded" -> StopIterationNoBuffer(z)
                [] z.state \in {"Running", "WaitForBody"} ->
                     IF end THEN Pass(z) ELSE StopIterationAndBuffer(z)
    BY ZenonT(30) DEF OnDataV2
  <1>3. /\ z \in Wrappers /\ Quiet(d, z) /\ z.out = x.out /\ z.in = x.in
        /\ (~end => z.state = x.state) /\ (z = y \/ z.state # "WaitForBody")
    <2>1. CASE ~(end /\ y.state = "Running")
      <3>1. z = y
        BY <2>1, <1>2
      <3> HIDE DEF y
      <3> QED
        BY <3>1, <1>1 DEF Quiet, Alike, Waits
    <2>2. CASE end /\ y.state = "Running"
      <3> HIDE DEF y
      <3>1. b \in Wrappers /\ Core(b, y)
        BY <1>1, AddFacts
      <3>2. b.out = y.out /\ b.twice = y.twice
        BY <1>1 DEF AddData, Wrappers
      <3>3. z \in StartBody(d, b)
        BY <1>1, <1>2, <2>2 DEF Alike
      <3> HIDE DEF b
      <3>4. /\ b.made /\ b.state = "Running" /\ ~b.twice /\ b.out # "end" /\ b.in # "idle"
            /\ b.out = x.out /\ b.in = x.in /\ b.saw_body
        BY <1>1, <2>2, <3>1, <3>2 DEF Alike, Core, Quiet, Waits
      <3>5. z \in Wrappers /\ Quiet(d, z) /\ z.out = b.out /\ z.in = b.in
            /\ z.state # "WaitForBody"
        BY <3>1, <3>3, <3>4, StartBodyQuiet
      <3> QED
        BY <2>2, <3>4, <3>5
    <2> QED
      BY <2>1, <2>2
  <1> HIDE DEF y, b
  <1>4. CASE ~Waits(z) /\ end
    <2>1. u = Pass(z) /\ ~z.twice /\ z.in # "idle"
      BY <1>2, <1>3, <1>4 DEF Quiet, Waits
    <2> QED
      BY <1>3, <1>4, <2>1, PassOrderly
  <1>5. CASE Waits(z) \/ ~end
    <2>1. u = StopIterationAndBuffer(z) \/ u = StopIterationNoBuffer(z)
      BY <1>2, <1>3, <1>5, Counts DEF States, Waits
    <2>2. Orderly(d, u) /\ Alike(u, z)
      BY ZenonT(60), <1>3, <2>1, StopOrderly
    <2> QED
      BY <1>3, <2>2 DEF Alike
  <1> QED
    BY <1>4, <1>5

\* decodeData and encodeData, of a handler that runs or, in version 1, that has
\* not failed.
LEMMA DoDataOrderly ==
  ASSUME NEW d, NEW x \in Wrappers, NEW end \in BOOLEAN, plugin.version \in {"v1", "v2"},
         Calm(x), Quiet(d, x), x.out # "end", x.in # "idle", x.held + x.hand <= x.got,
         Waits(x) => plugin.version = "v1" /\ ~Failed(x),
         NEW u \in DoData(d, x, end)
  PROVE  /\ Orderly(d, u) /\ u.in = x.in /\ (u.out = "nothing" => x.out = "nothing")
         /\ plugin.version = "v2" /\ ~end => u.state = x.state
         /\ plugin.version = "v1" /\ u.co # x.co => x.state # "Running"
         /\ plugin.version = "v1" /\ Failed(x) => u.state = "Running"
  <1>1. ~x.twice
    BY DEF Quiet, Waits
  <1>2. CASE plugin.version = "v1" /\ (Failed(x) \/ ~x.made)
    <2>1. u = Pass(x) /\ x.state = "Running" /\ ~Waits(x)
      BY <1>2 DEF DoData, Calm, Waits
    <2> QED
      BY <1>1, <2>1, PassOrderly
  <1>3. CASE plugin.version = "v2" /\ (Failed(x) \/ ~plugin.body[d])
    <2>1. u = Pass(x) /\ ~Waits(x)
      BY <1>3 DEF DoData
    <2> QED
      BY <1>1, <1>3, <2>1, PassOrderly
  <1>4. CASE plugin.version = "v1" /\ ~(Failed(x) \/ ~x.made)
    <2>1. u \in OnDataV1(d, x, end) /\ x.made
      BY ZenonT(60), <1>4, Counts DEF DoData
    <2> QED
      BY SMTT(60), <1>4, <2>1, OnDataV1Orderly
  <1>5. CASE plugin.version = "v2" /\ ~(Failed(x) \/ ~plugin.body[d])
    <2> DEFINE w == IF x.made THEN x ELSE NewWrapper(x, end)
    <2>1. u \in OnDataV2(d, w, end)
      BY <1>5 DEF DoData
    <2>2. /\ w \in Wrappers /\ w.made /\ Alike(w, x) /\ w.held = x.held /\ w.hand = x.hand
          /\ w.got = x.got
      BY ZenonT(60) DEF NewWrapper, Wrappers, Alike
    <2> HIDE DEF w
    <2>3. /\ ~Waits(w) /\ Quiet(d, w) /\ w.out # "end" /\ w.in # "idle" /\ w.state = x.state
          /\ w.held + w.hand <= w.got /\ w.in = x.in /\ w.out = x.out
      BY <1>5, <2>2 DEF Alike, Quiet, Waits
    <2> QED
      BY SMTT(60), <1>5, <2>1, <2>2, <2>3, OnDataV2Orderly
  <1> QED
    BY <1>2, <1>3, <1>4, <1>5

\* continueIteration of a handler that is done, where iteration is stopped.
LEMMA ContinueOrderly ==
  ASSUME NEW d, NEW x, Sound(d, x, Failed(x)), Quiet(d, x), x.state = "Running", x.iter # "go",
         x.in # "idle", x.out # "end", plugin.version \in {"v1", "v2"},
         plugin.version = "v1" => ~x.trailers,
         NEW u \in ContinueIteration(d, x)
  PROVE  Orderly(d, u) /\ u.in = x.in /\ (u.out = "nothing" => x.out = "nothing")
  <1>1. /\ x \in Wrappers /\ x.got \in 0 .. MaxData /\ x.held \in 0 .. MaxData /\ x.hand = 0
        /\ x.held <= x.got /\ x.iter \in Iterations /\ ~x.twice /\ Calm(x)
    BY Counts DEF Sound, Quiet, Waits
  <1>2. CASE d = "request" /\ LocalComplete
    BY ZenonT(60), <1>2 DEF ContinueIteration, Orderly
  <1>3. CASE ~(d = "request" /\ LocalComplete) /\ (x.iter = "stop" \/ x.got = 0)
    <2>1. u = Pass(x) /\ ~Waits(x)
      BY <1>3 DEF ContinueIteration, Waits
    <2> QED
      BY <1>1, <2>1, PassOrderly
  <1>4. CASE ~(d = "request" /\ LocalComplete) /\ x.iter = "stopall" /\ x.got # 0
    <2> DEFINE w == [x EXCEPT !.iter = "go", !.out = "headers"]
               end == x.in = "ended" /\ ~x.trailers
    <2>1. PICK z \in DoData(d, w, end) : u = IF x.trailers THEN Pass(z) ELSE z
      BY <1>4 DEF ContinueIteration
    <2>2. "go" \in Iterations /\ "headers" \in Outputs
      BY DEF Iterations, Outputs
    <2>3. /\ w \in Wrappers /\ Core(w, x) /\ w.held = x.held /\ w.hand = x.hand
          /\ w.out = "headers" /\ w.twice = x.twice /\ w.iter = "go"
      BY ZenonT(60), <1>1, <2>2 DEF Wrappers, Core
    <2>4. end \in BOOLEAN /\ (x.trailers => ~end) /\ (end => x.in = "ended")
      OBVIOUS
    <2> HIDE DEF w, end
    <2>5. /\ Calm(w) /\ Quiet(d, w) /\ w.out # "end" /\ w.in # "idle" /\ w.state = "Running"
          /\ w.held + w.hand <= w.got /\ ~Waits(w)
      <3>1. w.held + w.hand <= w.got
        BY <1>1, <2>3 DEF Core
      <3>2. /\ Calm(w) /\ Quiet(d, w) /\ w.out # "end" /\ w.in # "idle" /\ w.state = "Running"
            /\ ~Waits(w)
        BY ZenonT(60), <1>1, <2>3 DEF Calm, Quiet, Core, Waits
      <3> QED
        BY <3>1, <3>2
    <2>6. /\ Orderly(d, z) /\ z.in = w.in /\ (z.out = "nothing" => w.out = "nothing")
          /\ plugin.version = "v2" /\ ~end => z.state = w.state
      BY ZenonT(60), <2>1, <2>3, <2>4, <2>5, DoDataOrderly
    <2>7. CASE x.trailers
      <3>1. u = Pass(z) /\ ~Waits(z) /\ ~z.twice /\ z.in = x.in
        BY ZenonT(60), <2>1, <2>3, <2>4, <2>5, <2>6, <2>7 DEF Orderly, Quiet, Core, Waits
      <3>2. z \in Wrappers
        <4>1. Whole(w) /\ (w.trailers => w.in = "ended") /\ ~w.start_body
          BY <1>1, <1>4, <2>3 DEF Core, Whole, Sound, Buffered
        <4>2. x.held = x.got
          BY ZenonT(30), <1>4 DEF Sound, Buffered
        <4>3. Ready(d, w, end)
          BY <1>1, <2>3, <2>4, <2>5, <4>1, <4>2 DEF Ready, Core
        <4> QED
          BY ZenonT(60), <2>1, <4>3, DoDataSound DEF Sound
      <3> QED
        BY ZenonT(60), <3>1, <3>2, PassOrderly
    <2>8. CASE ~x.trailers
      BY ZenonT(30), <2>1, <2>3, <2>6, <2>8 DEF Core
    <2> QED
      BY <1>1, <2>7, <2>8, Counts
  <1> QED
    BY <1>1, <1>2, <1>3, <1>4 DEF Iterations

\* onSuccess finds a handler that waits, with what it holds still here.
LEMMA OnSuccessOrderly ==
  ASSUME NEW d, NEW x, Sound(d, x, filter.error), filter.error \in BOOLEAN, x.call,
         Orderly(d, x), plugin.version \in {"v1", "v2"}, plugin.version = "v1" => ~x.trailers,
         NEW u \in OnSuccess(d, x)
  PROVE  Orderly(d, u) /\ u.in = x.in /\ (u.out = "nothing" => x.out = "nothing")
  <1> DEFINE w == [x EXCEPT !.call = FALSE, !.state = "Running"]
  <1>1. PICK y \in Resume(d, w) :
          u \in IF y.state # "Running" THEN {y}
                ELSE IF ~y.start_body THEN ContinueIteration(d, y)
                ELSE UNION {IF z.state = "Running" THEN ContinueIteration(d, z) ELSE {z} :
                            z \in StartBody(d, [y EXCEPT !.start_body = FALSE])}
    BY DEF OnSuccess
  <1>2. /\ Sound(d, y, Failed(y)) /\ y.in # "idle" /\ Kept(y, x)
    BY ZenonT(30), AnswerResumes
  <1>3. x \in Wrappers /\ x.state = "HttpCall" /\ x.made
    BY DEF Sound, Calm
  <1>4. /\ w \in Wrappers /\ w.made = x.made /\ w.twice = x.twice /\ w.out = x.out
        /\ w.in = x.in /\ w.phase = x.phase
    BY ZenonT(30), <1>3 DEF Wrappers, States
  <1> HIDE DEF w
  <1>5. /\ w.made /\ ~w.twice /\ w.out # "end" /\ w.in # "idle" /\ w.out = x.out
        /\ w.phase = "header" \/ plugin.version = "v1" => w.out = "nothing"
    BY ZenonT(60), <1>2, <1>3, <1>4 DEF Orderly, Quiet, Kept, Waits
  <1>6. Quiet(d, y) /\ y.out = x.out /\ y.phase = w.phase
    BY <1>4, <1>5, ResumeQuiet
  <1>7. /\ y.iter # "go" /\ y.out # "end" /\ ~y.twice /\ y.made /\ y.in = x.in
        /\ y.trailers = x.trailers
    BY <1>2, <1>3, <1>5, <1>6 DEF Kept, Orderly, Quiet, Waits
  <1>8. CASE y.state # "Running"
    BY ZenonT(60), <1>1, <1>6, <1>7, <1>8 DEF Orderly
  <1>9. CASE y.state = "Running" /\ ~y.start_body
    <2>1. u \in ContinueIteration(d, y)
      BY <1>1, <1>9
    <2> QED
      BY SMTT(60), <1>2, <1>6, <1>7, <1>9, <2>1, ContinueOrderly
  <1>10. CASE y.state = "Running" /\ y.start_body
    <2> DEFINE v == [y EXCEPT !.start_body = FALSE]
    <2>1. PICK z \in StartBody(d, v) :
            u \in IF z.state = "Running" THEN ContinueIteration(d, z) ELSE {z}
      BY ZenonT(30), <1>1, <1>10
    <2>2. /\ Sound(d, z, Failed(z)) /\ z.in = "ended" /\ z.iter = y.iter
          /\ z.trailers = y.trailers /\ y.in = "ended"
      BY <1>2, <1>7, <1>10, <2>1, AnswerStartsBody
    <2>3. /\ v \in Wrappers /\ v.made /\ v.state = "Running" /\ ~v.twice /\ v.out = y.out
          /\ v.in = y.in
      BY ZenonT(30), <1>2, <1>7, <1>10 DEF Sound, Wrappers
    <2> HIDE DEF v
    <2>4. Quiet(d, z) /\ z.out = v.out
      BY <1>5, <1>6, <1>7, <2>1, <2>2, <2>3, StartBodyQuiet
    <2>5. CASE z.state = "Running"
      <3>1. u \in ContinueIteration(d, z)
        BY ZenonT(60), <2>1, <2>5
      <3>2. Orderly(d, u) /\ u.in = z.in /\ (u.out = "nothing" => z.out = "nothing")
        BY ZenonT(60), <1>7, <2>2, <2>3, <2>4, <2>5, <3>1, ContinueOrderly
      <3> QED
        BY ZenonT(30), <1>6, <1>7, <2>2, <2>3, <2>4, <3>2
    <2>6. CASE z.state # "Running"
      BY <1>6, <1>7, <2>1, <2>2, <2>3, <2>4, <2>6 DEF Orderly
    <2> QED
      BY <2>5, <2>6
  <1> QED
    BY <1>8, <1>9, <1>10

\* A direction whose headers just arrived, for this layer.
Still(w) ==
  /\ w \in Wrappers /\ w.in # "idle" /\ ~w.twice /\ w.out = "nothing" /\ w.phase = "header"

\* The header handler of version 2 came back.
LEMMA AfterHeaderOrderly ==
  ASSUME NEW d, NEW y, Still(y), Quiet(d, y), y.made, y.co = "dead" => y.state = "Running",
         y.state = "WaitForBody" => ~y.end_stream, plugin.body[d] \in BOOLEAN,
         NEW u \in AfterHeaderHandler(d, y)
  PROVE  Orderly(d, u) /\ u.in = y.in
  <1>1. y \in Wrappers /\ y.end_stream \in BOOLEAN /\ y.state \in States /\ ~y.twice
        /\ y.in # "idle" /\ y.out = "nothing"
    BY Counts DEF Still
  <1>2. CASE u = Pass(y) /\ y.state = "Running"
    BY <1>1, <1>2, PassOrderly DEF Waits
  <1>3. CASE u = StopIteration(y)
    BY <1>1, <1>3, StopOrderly DEF Alike
  <1>4. CASE u = StopAllIterationAndBuffer([y EXCEPT !.start_body = y.end_stream /\ plugin.body[d]])
    <2> DEFINE b == y.end_stream /\ plugin.body[d]
               v == [y EXCEPT !.start_body = b]
    <2>1. b \in BOOLEAN /\ u = StopAllIterationAndBuffer(v)
      BY <1>1, <1>4
    <2> HIDE DEF b
    <2>2. v \in Wrappers /\ Alike(v, y)
      BY ZenonT(60), <1>1, <2>1 DEF Wrappers, Alike
    <2> HIDE DEF v
    <2>3. Quiet(d, v) /\ v.in = y.in
      BY <2>2 DEF Quiet, Alike, Waits
    <2> QED
      BY <2>1, <2>2, <2>3, StopOrderly DEF Alike
  <1>5. CASE /\ y.state = "Running"
             /\ u \in {IF z.state = "Running" THEN Pass(z) ELSE StopIteration(z) :
                       z \in StartBody(d, y)}
    <2>1. PICK z \in StartBody(d, y) : u = IF z.state = "Running" THEN Pass(z) ELSE StopIteration(z)
      BY <1>5
    <2>2. z \in Wrappers /\ Quiet(d, z) /\ z.in = y.in
      BY ZenonT(60), <1>1, <1>5, <2>1, StartBodyQuiet
    <2>3. CASE z.state = "Running"
      BY ZenonT(60), <1>1, <2>1, <2>2, <2>3, PassOrderly DEF Quiet, Waits
    <2>4. CASE z.state # "Running"
      BY ZenonT(60), <2>1, <2>2, <2>4, StopOrderly DEF Alike
    <2> QED
      BY <2>3, <2>4
  <1> QED
    BY <1>1, <1>2, <1>3, <1>4, <1>5 DEF AfterHeaderHandler, States

\* decodeHeaders and encodeHeaders.
LEMMA DoHeadersOrderly ==
  ASSUME NEW d \in Directions, NEW end \in BOOLEAN, NEW w, Still(w), w.state = "Running",
         w.co # "dead", plugin \in Plugins, NEW u \in DoHeaders(d, w, end)
  PROVE  Orderly(d, u) /\ u.in = w.in /\ (filter.error => u.state = "Running")
  <1>1. plugin.version \in {"v1", "v2"} /\ plugin.body[d] \in BOOLEAN
    BY PluginsAssumption
  <1> DEFINE n == NewWrapper(w, end)
  <1>2. w \in Wrappers /\ ~w.twice /\ w.in # "idle" /\ w.out = "nothing" /\ Quiet(d, w)
    BY DEF Still, Quiet, Waits
  <1>3. n \in Wrappers /\ n.made /\ Alike(n, w)
    BY ZenonT(30), <1>2 DEF NewWrapper, Wrappers, Alike
  <1> HIDE DEF n
  <1>4. Still(n)
    BY <1>2, <1>3 DEF Still, Alike
  <1>5. ASSUME NEW y \in Resume(d, n)
        PROVE  /\ Still(y) /\ Quiet(d, y) /\ y.made /\ y.in = w.in
               /\ y.co = "dead" => y.state = "Running"
               /\ y.state = "WaitForBody" => ~y.end_stream
    <2>1. /\ y \in Wrappers /\ Quiet(d, y) /\ Kept(y, n) /\ y.out = n.out /\ y.phase = n.phase
          /\ y.state = "WaitForBody" => ~n.end_stream
          /\ y.state # "Running" => y.co # "dead"
      BY <1>3, <1>4, <1>5, ResumeQuiet DEF Still
    <2> QED
      BY <1>3, <1>4, <2>1 DEF Kept, Still, Quiet, Alike, Waits
  <1>6. CASE u = StopIteration(w)
    BY <1>2, <1>6, StopOrderly DEF Alike
  <1>7. CASE u = Pass(w)
    BY <1>2, <1>7, PassOrderly DEF Waits
  <1>8. CASE ~filter.error /\ plugin.version = "v1" /\ u \in StartV1(d, n)
    <2>1. PICK y \in Resume(d, n) :
            u = IF y.state # "Running" THEN StopIteration(y)
                ELSE Pass([y EXCEPT !.headers_continued = (y.co = "finished")])
      BY <1>8 DEF StartV1
    <2>2. y \in Wrappers /\ Quiet(d, y) /\ y.in = w.in
      BY <1>5 DEF Still
    <2>3. CASE y.state # "Running"
      BY ZenonT(60), <1>8, <2>1, <2>2, <2>3, StopOrderly DEF Alike
    <2>4. CASE y.state = "Running"
      <3> DEFINE h == y.co = "finished"
                 v == [y EXCEPT !.headers_continued = h]
      <3>1. u = Pass(v) /\ h \in BOOLEAN
        BY <2>1, <2>4
      <3> HIDE DEF h
      <3>2. v \in Wrappers /\ Alike(v, y)
        BY <2>2, <3>1 DEF Wrappers, Alike
      <3> HIDE DEF v
      <3>3. ~v.twice /\ ~Waits(v) /\ v.in # "idle" /\ v.in = w.in
        BY ZenonT(60), <1>2, <2>2, <2>4, <3>2 DEF Alike, Quiet, Waits
      <3> QED
        BY <1>8, <3>1, <3>2, <3>3, PassOrderly
    <2> QED
      BY <2>3, <2>4
  <1>9. CASE ~filter.error /\ plugin.version = "v2" /\ u \in StartV2(d, n)
    <2>1. PICK y \in Resume(d, n) : u \in AfterHeaderHandler(d, y)
      BY <1>9 DEF StartV2
    <2> QED
      BY SMTT(60), <1>1, <1>5, <1>9, <2>1, AfterHeaderOrderly
  <1>10. \/ u = StopIteration(w) \/ u = Pass(w)
         \/ ~filter.error /\ plugin.version = "v1" /\ u \in StartV1(d, n)
         \/ ~filter.error /\ plugin.version = "v2" /\ u \in StartV2(d, n)
    BY <1>1 DEF DoHeaders, n
  <1> QED
    BY <1>6, <1>7, <1>8, <1>9, <1>10

-----------------------------------------------------------------------------
\* The response that respond() asked for is on its way.
Answering ==
  \/ dir["response"].in = "ended"
  \/ dir["response"].in = "idle" /\ local \in LocalResponses
  \/ dir["response"].in = "open" /\ local = <<"data">>

\* Whose turn it is: while the upstream has seen nothing a response is local, and
\* a local response is encoded without a pause; and in version 1 an error finds
\* the other direction done, or unable to receive more.
Turns ==
  /\ local \in LocalResponses \cup {<<>>, <<"data">>}
  /\ dir["request"].in = "idle" => dir["response"].in = "idle" /\ local = <<>>
  /\ dir["request"].out = "nothing" /\ dir["response"].in = "open" => local = <<"data">>
  /\ dir["request"].state = "Responded" => Answering
  /\ \A d \in Directions : dir[d].co = "dead" => filter.error
  /\ plugin.version = "v1" /\ filter.error =>
       /\ dir["response"].state # "Running" => dir["response"].in = "ended"
       /\ dir["request"].state # "Running" => dir["response"].in # "idle"

Ordered == \A d \in Directions : Orderly(d, dir[d])

JInv == IInv /\ (~Overtaken => Ordered /\ (Live => Turns))

\* What a callback of a live stream leaves behind.
LEMMA BecomesFacts ==
  ASSUME IInv, ~filter.destroyed, NEW d \in Directions, NEW y \in Wrappers, NEW r, Becomes(d, y, r)
  PROVE  /\ plugin' = plugin /\ dir' \in [Directions -> Wrappers]
         /\ dir'[d] = y
         /\ \A e \in Directions \ {d} :
              dir'[e] = dir[e] \/ dir'[e] = [dir[e] EXCEPT !.call = FALSE]
         /\ Live' => /\ dir' = [dir EXCEPT ![d] = y]
                     /\ filter'.error = Failed(y)
                     /\ y.state = "Responded" /\ dir[d].state # "Responded" =>
                          dir["response"].in = "idle" /\ local' \in LocalResponses
                     /\ ~(y.state = "Responded" /\ dir[d].state # "Responded") =>
                          local' = IF local = <<>> THEN <<>> ELSE Tail(local)
  <1> DEFINE responds == y.state = "Responded" /\ dir[d].state # "Responded"
  <1>1. /\ dir \in [Directions -> Wrappers]
        /\ filter \in [error : BOOLEAN, responded : BOOLEAN, destroyed : BOOLEAN]
    BY DEF IInv, TypeOK
  <1>2. CASE responds /\ dir["response"].in # "idle"
    <2>1. /\ filter' = [filter EXCEPT !.destroyed = TRUE] /\ plugin' = plugin
          /\ dir' = [Reset EXCEPT ![d] = y]
      BY <1>2 DEF Becomes
    <2>2. ~Live'
      BY <1>1, <2>1 DEF Live
    <2>3. Reset \in [Directions -> Wrappers]
      BY ZenonT(60), <1>1 DEF Reset, Wrappers
    <2>4. \A e \in Directions : Reset[e] = [dir[e] EXCEPT !.call = FALSE]
      BY DEF Reset
    <2>5. \A e \in Directions \ {d} : dir'[e] = [dir[e] EXCEPT !.call = FALSE]
      BY <2>1, <2>3, <2>4
    <2> QED
      BY <2>1, <2>2, <2>3, <2>5
  <1>3. CASE ~(responds /\ dir["response"].in # "idle")
    <2> DEFINE err == Failed(y)
               rr == r \/ responds
    <2>1. /\ filter' = [filter EXCEPT !.error = err, !.responded = rr]
          /\ dir' = [dir EXCEPT ![d] = y] /\ plugin' = plugin
          /\ local' \in IF responds THEN LocalResponses
                        ELSE {IF local = <<>> THEN <<>> ELSE Tail(local)}
      BY <1>3 DEF Becomes
    <2> HIDE DEF err, rr
    <2>2. filter'.error = err
      BY <1>1, <2>1
    <2>3. responds => dir["response"].in = "idle" /\ local' \in LocalResponses
      BY <1>3, <2>1
    <2>4. ~responds => local' = IF local = <<>> THEN <<>> ELSE Tail(local)
      BY <2>1
    <2>5. dir' \in [Directions -> Wrappers] /\ dir'[d] = y
          /\ \A e \in Directions \ {d} : dir'[e] = dir[e]
      BY <1>1, <2>1
    <2> QED
      BY <2>1, <2>2, <2>3, <2>4, <2>5 DEF err
  <1> QED
    BY <1>2, <1>3

\* Trailers are not taken back, so a stream that is not overtaken never was.
LEMMA NotOvertaken ==
  ASSUME IInv, ~filter.destroyed, NEW d \in Directions, NEW y \in Wrappers, NEW r, Becomes(d, y, r),
         dir[d].trailers => y.trailers, ~Overtaken'
  PROVE  ~Overtaken
  <1>1. \A e \in Directions \ {d} :
          dir'[e] = dir[e] \/ dir'[e] = [dir[e] EXCEPT !.call = FALSE]
    BY BecomesFacts
  <1>2. plugin' = plugin /\ dir'[d] = y
    BY BecomesFacts
  <1>3. dir \in [Directions -> Wrappers]
    BY DEF IInv, TypeOK
  <1>4. ASSUME NEW e \in Directions, dir[e].trailers PROVE dir'[e].trailers
    <2>1. dir[e] \in Wrappers
      BY <1>3
    <2>2. [dir[e] EXCEPT !.call = FALSE].trailers = dir[e].trailers
      BY <2>1 DEF Wrappers
    <2>3. CASE e = d
      BY <1>2, <1>4, <2>3
    <2>4. CASE e # d
      BY ZenonT(30), <1>1, <1>4, <2>2, <2>4
    <2> QED
      BY <2>3, <2>4
  <1> QED
    BY <1>2, <1>4 DEF Overtaken

\* The other direction stays in order.
LEMMA BecomesOrdered ==
  ASSUME IInv, ~filter.destroyed, NEW d \in Directions, NEW y \in Wrappers, NEW r, Becomes(d, y, r),
         Ordered, Orderly(d, y)
  PROVE  Ordered'
  <1>1. \A e \in Directions \ {d} :
          dir'[e] = dir[e] \/ dir'[e] = [dir[e] EXCEPT !.call = FALSE]
    BY BecomesFacts
  <1>2. plugin' = plugin /\ dir'[d] = y
    BY BecomesFacts
  <1>3. dir \in [Directions -> Wrappers]
    BY DEF IInv, TypeOK
  <1>4. ASSUME NEW e \in Directions \ {d} PROVE Orderly(e, dir'[e])
    <2>1. CASE dir'[e] = dir[e]
      BY <2>1 DEF Ordered
    <2>2. CASE dir'[e] = [dir[e] EXCEPT !.call = FALSE]
      <3> DEFINE x == dir[e]
                 z == [x EXCEPT !.call = FALSE]
      <3>1. x \in Wrappers /\ Orderly(e, x)
        BY <1>3 DEF Ordered
      <3>2. Alike(z, x) /\ z.iter = x.iter
        BY <3>1 DEF Wrappers, Alike
      <3> HIDE DEF x, z
      <3>3. Orderly(e, z)
        BY <3>1, <3>2 DEF Orderly, Quiet, Alike, Waits
      <3> QED
        BY <2>2, <3>3 DEF x, z
    <2> QED
      BY <1>1, <2>1, <2>2
  <1>5. \A e \in Directions : Orderly(e, dir'[e])
    BY <1>2, <1>4
  <1> QED
    BY <1>2, <1>5 DEF Ordered, Orderly, Quiet, Waits

\* The parts of a local response that are left after one of them.
LEMMA LocalTails ==
  /\ Tail(<<"headers", "data">>) = <<"data">>
  /\ Tail(<<"headers">>) = <<>>
  /\ Tail(<<"data">>) = <<>>
  /\ <<"headers", "data">> # <<>> /\ <<"headers">> # <<>> /\ <<"data">> # <<>>
  <1>1. Tail(<<"headers", "data">>) = <<"data">>
    OBVIOUS
  <1>2. Tail(<<"headers">>) = <<>>
    OBVIOUS
  <1>3. Tail(<<"data">>) = <<>>
    OBVIOUS
  <1>4. <<"headers", "data">> # <<>> /\ <<"headers">> # <<>> /\ <<"data">> # <<>>
    OBVIOUS
  <1> QED
    BY <1>1, <1>2, <1>3, <1>4

\* A callback of the request keeps the turns.
LEMMA RequestTurns ==
  ASSUME IInv, Ordered, Turns, ~filter.destroyed, local = <<>>, NEW y \in Wrappers, NEW r,
         Becomes("request", y, r), y.in # "idle", Orderly("request", y),
         y.out = "nothing" => dir["request"].out = "nothing",
         dir["request"].state # "Responded",
         plugin.version = "v1" /\ filter.error /\ y.state # "Running" =>
           dir["response"].in # "idle",
         plugin.version = "v1" /\ ~filter.error /\ y.co = "dead" =>
           dir["request"].state # "Running" \/ dir["request"].in = "idle",
         Live'
  PROVE  Turns'
  <1> DEFINE o == dir["request"]
             p == dir["response"]
  <1>1. "request" \in Directions /\ "response" \in Directions /\ Directions = {"request", "response"}
    BY DEF Directions
  <1>2. dir \in [Directions -> Wrappers] /\ filter.error \in BOOLEAN
    BY DEF IInv, TypeOK
  <1>3. /\ dir' = [dir EXCEPT !["request"] = y] /\ plugin' = plugin
        /\ filter'.error = Failed(y)
        /\ y.state = "Responded" => dir["response"].in = "idle" /\ local' \in LocalResponses
        /\ ~(y.state = "Responded") => local' = <<>>
    BY <1>1, BecomesFacts
  <1>4. dir'["request"] = y /\ dir'["response"] = p
    BY <1>1, <1>2, <1>3
  <1>5. p \in Wrappers /\ Sound("response", p, filter.error)
    BY ZenonT(60), <1>1, <1>2 DEF IInv
  <1>6. p.in = "idle" => p.state = "Running"
    BY ZenonT(60), <1>5 DEF Sound, Unseen
  <1>7. o.out = "nothing" => p.in # "open"
    BY DEF Turns, LocalResponses
  <1>8. o.state # "Running" /\ plugin.version = "v1" => p.in # "open"
    BY <1>1, <1>7 DEF Ordered, Orderly, Quiet, Waits
  <1>9. o.in = "idle" => p.in = "idle"
    BY DEF Turns
  <1> HIDE DEF o, p
  <1>10. /\ local' \in LocalResponses \cup {<<>>, <<"data">>}
         /\ dir'["request"].in # "idle"
    BY <1>3, <1>4
  <1>11. dir'["request"].out = "nothing" /\ dir'["response"].in = "open" => local' = <<"data">>
    BY <1>4, <1>7 DEF o
  <1>12. dir'["request"].state = "Responded" =>
           dir'["response"].in = "idle" /\ local' \in LocalResponses
    BY <1>3, <1>4 DEF p
  <1>13. \A e \in Directions : dir'[e].co = "dead" => filter'.error
    <2>1. y.co = "dead" => Failed(y)
      BY DEF Failed
    <2>2. p.co = "dead" => Failed(y)
      BY <1>1 DEF Failed, Turns, p
    <2> QED
      BY <1>1, <1>3, <1>4, <2>1, <2>2
  <1>14. plugin.version = "v1" /\ Failed(y) => (p.state # "Running" => p.in = "ended")
    <2>1. CASE filter.error
      BY ZenonT(60), <2>1 DEF Turns, p
    <2>2. CASE ~filter.error /\ y.co = "dead" /\ plugin.version = "v1"
      BY ZenonT(60), <1>5, <1>6, <1>8, <1>9, <2>2, Counts DEF o, Arrivals
    <2> QED
      BY <1>2, <2>1, <2>2 DEF Failed
  <1>15. plugin.version = "v1" /\ Failed(y) => (y.state # "Running" => p.in # "idle")
    BY ZenonT(60), <1>2 DEF Failed, Orderly, Quiet, p, Waits
  <1> QED
    BY <1>3, <1>4, <1>10, <1>11, <1>12, <1>13, <1>14, <1>15 DEF Turns, Answering

\* A callback of the response keeps the turns.
LEMMA ResponseTurns ==
  ASSUME IInv, Ordered, Turns, ~filter.destroyed, NEW y \in Wrappers, NEW r,
         Becomes("response", y, r), y.in # "idle", Orderly("response", y),
         dir["request"].in # "idle", dir["response"].in = "ended" => y.in = "ended",
         y.in = "open" => \/ dir["response"].in = "idle" /\ local = <<"headers", "data">>
                          \/ local = <<>> /\ dir["request"].out # "nothing",
         plugin.version = "v1" /\ filter.error /\ y.state # "Running" => y.in = "ended",
         Live'
  PROVE  Turns'
  <1> DEFINE o == dir["request"]
             p == dir["response"]
  <1>1. "request" \in Directions /\ "response" \in Directions /\ Directions = {"request", "response"}
    BY ZenonT(60) DEF Directions
  <1>2. dir \in [Directions -> Wrappers] /\ filter.error \in BOOLEAN
    BY DEF IInv, TypeOK
  <1>3. /\ dir' = [dir EXCEPT !["response"] = y] /\ plugin' = plugin
        /\ filter'.error = Failed(y)
        /\ local' = IF local = <<>> THEN <<>> ELSE Tail(local)
    BY <1>1, BecomesFacts DEF Orderly, Quiet, Waits
  <1>4. dir'["request"] = o /\ dir'["response"] = y
    BY <1>1, <1>2, <1>3
  <1>5. y.in \in {"open", "ended"}
    BY Counts DEF Arrivals
  <1>6. /\ local' \in {<<>>, <<"data">>}
        /\ local = <<"headers", "data">> => local' = <<"data">>
    BY ZenonT(30), <1>3, LocalTails DEF Turns, LocalResponses
  <1>7. o.out = "nothing" /\ y.in = "open" => local' = <<"data">>
    BY <1>6 DEF o
  <1>8. o.state = "Responded" => y.in = "ended" \/ (y.in = "open" /\ local' = <<"data">>)
    <2>1. CASE y.in = "open" /\ o.state = "Responded" /\ local = <<>> /\ p.in # "ended"
      BY <2>1 DEF Turns, Answering, LocalResponses
    <2> QED
      BY ZenonT(60), <1>5, <1>6, <2>1
  <1>9. \A e \in Directions : dir'[e].co = "dead" => filter'.error
    <2>1. y.co = "dead" => Failed(y)
      BY DEF Failed
    <2>2. o.co = "dead" => Failed(y)
      BY <1>1 DEF Failed, Turns
    <2> QED
      BY <1>1, <1>3, <1>4, <2>1, <2>2
  <1>10. plugin.version = "v1" /\ Failed(y) => (y.state # "Running" => y.in = "ended")
    BY <1>2 DEF Failed, Orderly, Quiet, Waits
  <1> HIDE DEF o, p
  <1> QED
    BY ZenonT(60), <1>3, <1>4, <1>6, <1>7, <1>8, <1>9, <1>10 DEF Turns, Answering, o

-----------------------------------------------------------------------------
\* The direction of a callback is left as the callback says.
LEMMA BecomesDir ==
  ASSUME IInv, IInv', NEW d \in Directions, NEW y, NEW r, Becomes(d, y, r)
  PROVE  y = dir'[d] /\ y \in Wrappers /\ plugin' = plugin
  <1>1. dir \in [Directions -> Wrappers] /\ dir' \in [Directions -> Wrappers]
    BY DEF IInv, TypeOK
  <1>2. DOMAIN Reset = Directions
    BY DEF Reset
  <1>3. dir' = [dir EXCEPT ![d] = y] \/ dir' = [Reset EXCEPT ![d] = y]
    BY DEF Becomes
  <1>4. y = dir'[d]
    BY <1>1, <1>2, <1>3
  <1> QED
    BY <1>1, <1>4 DEF Becomes

\* A handler that answered the request sees no more of it.
LEMMA NoMoreRequest ==
  ASSUME Turns, local = <<>>, ~LocalComplete
  PROVE  dir["request"].state # "Responded"
  BY LocalTails DEF Turns, Answering, LocalComplete, LocalResponses

\* The headers of a direction arrive.
LEMMA HeadersOrder ==
  ASSUME JInv, IInv', ~filter.destroyed, NEW d \in Directions, NEW end \in BOOLEAN, Headers(d, end),
         ~Overtaken', d = "request" => local = <<>>,
         d = "response" =>
           /\ local # <<>> \/ dir["request"].out # "nothing"
           /\ ~end => local = <<"headers", "data">> \/ (local = <<>> /\ dir["request"].out # "nothing")
  PROVE  Ordered' /\ (Live' => Turns')
  <1> DEFINE x == dir[d]
             w == Opened(x, end)
  <1>1. /\ x.in = "idle" /\ IInv
        /\ \E y \in DoHeaders(d, w, end) : Becomes(d, y, RespondedAfterHeaders(d))
    BY DEF Headers, Opened, JInv
  <1>2. /\ Arrived(w, end) /\ w.in = (IF end THEN "ended" ELSE "open")
        /\ w.co = "new" /\ w.out = x.out /\ w.phase = x.phase /\ w.twice = x.twice
    <2>1. GotHeaders(w, x, end)
      BY ZenonT(60), <1>1, HeadersArrive
    <2> HIDE DEF x, w
    <2> QED
      BY ZenonT(60), <2>1 DEF GotHeaders
  <1> HIDE DEF w
  <1>3. PICK y \in DoHeaders(d, w, end) : Becomes(d, y, RespondedAfterHeaders(d))
    BY <1>1
  <1>4. y \in Wrappers /\ plugin \in Plugins
    BY <1>1, <1>3, BecomesDir DEF IInv, TypeOK
  <1>5. Sound(d, x, filter.error) /\ ~x.trailers /\ x.state = "Running"
    BY ZenonT(30), <1>1 DEF IInv, Sound, Unseen
  <1>6. Ordered /\ Turns
    BY ZenonT(30), <1>1, <1>3, <1>4, <1>5, NotOvertaken DEF JInv, Live
  <1>7. Still(w) /\ w.state = "Running" /\ w.co # "dead" /\ x.out = "nothing"
    BY <1>1, <1>2, <1>6 DEF Still, Arrived, Ordered, Orderly, Quiet, Waits
  <1>8. Orderly(d, y) /\ y.in = w.in /\ (filter.error => y.state = "Running")
    BY <1>3, <1>4, <1>7, DoHeadersOrderly
  <1>9. Ordered'
    BY <1>1, <1>3, <1>4, <1>6, <1>8, BecomesOrdered
  <1>10. y.in # "idle" /\ (y.in = "open" => ~end)
    BY <1>2, <1>8
  <1>11. CASE d = "request"
    BY ZenonT(30), <1>1, <1>3, <1>4, <1>5, <1>6, <1>7, <1>8, <1>9, <1>10, <1>11, RequestTurns
  <1>12. CASE d = "response"
    <2>1. dir["request"].in # "idle"
      BY <1>6, <1>12 DEF Turns, Ordered, Orderly, Quiet, Directions, Waits
    <2> QED
      BY <1>1, <1>3, <1>4, <1>6, <1>8, <1>9, <1>10, <1>12, <2>1, ResponseTurns
  <1> QED
    BY <1>9, <1>11, <1>12 DEF Directions

\* A piece of the body arrives.
LEMMA DataOrder ==
  ASSUME JInv, IInv', ~filter.destroyed, NEW d \in Directions, NEW end \in BOOLEAN, Data(d, end),
         ~Overtaken', d = "request" => local = <<>> /\ ~LocalComplete,
         d = "response" => local = <<>> \/ end
  PROVE  Ordered' /\ (Live' => Turns')
  <1> DEFINE o == dir[d]
             x == Piece(o, end)
  <1>1. /\ IInv /\ o.in = "open" /\ o.got < MaxData
        /\ \E y \in IF x.iter = "stopall" THEN {AddData(x)} ELSE DoData(d, x, end) :
             Becomes(d, y, filter.responded)
    BY DEF Data, Piece, JInv
  <1>2. /\ x \in Wrappers /\ x.in = (IF end THEN "ended" ELSE "open")
        /\ x.iter = o.iter /\ x.made = o.made /\ x.state = o.state /\ x.co = o.co
        /\ x.phase = o.phase /\ x.out = o.out /\ x.twice = o.twice /\ x.trailers = o.trailers
        /\ Calm(x) /\ ~x.trailers /\ x.held + x.hand <= x.got
    <2>1. GotPiece(x, o, end)
      BY ZenonT(60), <1>1, PieceArrives
    <2> HIDE DEF x, o
    <2> QED
      BY ZenonT(60), <2>1 DEF GotPiece
  <1> HIDE DEF x
  <1>3. PICK y \in IF x.iter = "stopall" THEN {AddData(x)} ELSE DoData(d, x, end) :
          Becomes(d, y, filter.responded)
    BY <1>1
  <1>4. y \in Wrappers /\ plugin \in Plugins /\ filter.error \in BOOLEAN
    BY <1>1, <1>3, BecomesDir DEF IInv, TypeOK
  <1>5. Sound(d, o, filter.error) /\ plugin.version \in {"v1", "v2"}
    BY ZenonT(30), <1>1, <1>4, PluginsAssumption DEF IInv
  <1>6. Ordered /\ Turns
    BY ZenonT(30), <1>1, <1>2, <1>3, <1>4, NotOvertaken DEF JInv, Live
  <1>7. Orderly(d, o) /\ o.out # "end"
    BY ZenonT(30), <1>1, <1>6 DEF Ordered, Orderly, Quiet, Waits
  <1>8. Quiet(d, x) /\ x.out # "end" /\ x.in # "idle"
    BY <1>1, <1>2, <1>7 DEF Orderly, Quiet, Waits
  <1>9. d = "request" => dir["request"].state # "Responded"
    BY <1>6, NoMoreRequest
  <1>10. d = "request" => dir["response"].in # "ended"
    BY DEF LocalComplete
  <1>11. filter.error /\ plugin.version = "v1" => o.state = "Running"
    <2>1. CASE d = "response"
      BY <1>1, <1>6, <2>1 DEF Turns
    <2>2. CASE d = "request" /\ o.state # "Running" /\ filter.error /\ plugin.version = "v1"
      <3>1. o.out = "nothing"
        BY <1>7, <2>2 DEF Orderly, Quiet, Waits
      <3>2. dir["response"].in # "idle" /\ dir["response"].in # "open"
        BY <1>6, <2>2, <3>1, LocalTails DEF Turns
      <3>3. dir["response"].in \in Arrivals
        BY <1>1, Counts DEF IInv, TypeOK, Directions
      <3> QED
        BY <1>10, <2>2, <3>2, <3>3 DEF Arrivals
    <2> QED
      BY <2>1, <2>2 DEF Directions
  <1>12. /\ Orderly(d, y) /\ y.in = x.in /\ (y.out = "nothing" => x.out = "nothing")
         /\ plugin.version = "v1" /\ y.co # x.co => x.state # "Running"
         /\ plugin.version = "v1" /\ filter.error => y.state = "Running"
    <2>1. CASE x.iter = "stopall"
      <3>1. y = AddData(x)
        BY <1>3, <2>1
      <3>2. Alike(y, x) /\ y.iter = x.iter
        BY ZenonT(60), <1>2, <3>1 DEF AddData, Wrappers, Alike
      <3>3. plugin.version # "v1"
        BY ZenonT(60), <1>2, <1>5, <2>1 DEF Sound, Buffered
      <3> QED
        BY <1>8, <2>1, <3>2, <3>3 DEF Alike, Orderly, Quiet, Waits
    <2>2. CASE x.iter # "stopall"
      <3>1. y \in DoData(d, x, end)
        BY <1>3, <2>2
      <3>2. Waits(x) => plugin.version = "v1" /\ ~Failed(x)
        <4>1. CASE plugin.version = "v1"
          BY ZenonT(60), <1>2, <1>7, <1>11, <4>1 DEF Failed, Orderly, Quiet, Waits
        <4>2. CASE plugin.version = "v2"
          <5>1. o.state # "HttpCall"
            BY ZenonT(30), <1>1, <1>2, <1>5, <2>2, <4>2 DEF Sound, Buffered
          <5>2. o.state # "Responded"
            BY ZenonT(60), <1>7, <1>9 DEF Orderly, Quiet, Directions, Waits
          <5>3. o.state \in States
            BY <1>5, Counts DEF Sound
          <5> QED
            BY <1>2, <4>2, <5>1, <5>2, <5>3 DEF States, Waits
        <4> QED
          BY ZenonT(60), <1>5, <4>1, <4>2
      <3>3. filter.error => Failed(x)
        BY ZenonT(60) DEF Failed
      <3> QED
        BY SMTT(60), <1>2, <1>5, <1>8, <3>1, <3>2, <3>3, DoDataOrderly
    <2> QED
      BY ZenonT(60), <2>1, <2>2
  <1>13. Ordered'
    BY ZenonT(60), <1>1, <1>3, <1>4, <1>6, <1>12, BecomesOrdered
  <1>14. y.in # "idle" /\ (y.in = "open" => ~end)
    BY ZenonT(60), <1>2, <1>12
  <1>15. CASE d = "request"
    <2>1. /\ plugin.version = "v1" /\ filter.error => y.state = "Running"
          /\ y.out = "nothing" => dir["request"].out = "nothing"
          /\ plugin.version = "v1" /\ ~filter.error /\ y.co = "dead" =>
               dir["request"].state # "Running"
      BY <1>2, <1>6, <1>12, <1>15 DEF Turns
    <2> QED
      BY ZenonT(60), <1>1, <1>3, <1>4, <1>6, <1>9, <1>12, <1>13, <1>14, <1>15, <2>1, RequestTurns
  <1>16. CASE d = "response"
    <2>1. dir["request"].in # "idle" /\ dir["response"].in # "ended"
      BY ZenonT(60), <1>1, <1>6, <1>16 DEF Turns
    <2>2. y.in = "open" => local = <<>> /\ dir["request"].out # "nothing"
      BY <1>1, <1>6, <1>14, <1>16, LocalTails DEF Turns
    <2> QED
      BY ZenonT(30), <1>1, <1>3, <1>4, <1>6, <1>12, <1>13, <1>14, <1>16, <2>1, <2>2, ResponseTurns
  <1> QED
    BY <1>13, <1>15, <1>16 DEF Directions

\* Trailers arrive, in version 2.
LEMMA TrailersOrder ==
  ASSUME JInv, IInv', NEW d \in Directions, Trailers(d), ~Overtaken'
  PROVE  Ordered' /\ (Live' => Turns')
  <1> DEFINE o == dir[d]
             x == [o EXCEPT !.in = "ended", !.trailers = TRUE]
             y == IF x.iter = "stopall" THEN x ELSE Pass(x)
  <1>1. /\ IInv /\ ~filter.destroyed /\ local = <<>> /\ o.in = "open"
        /\ d = "request" => ~LocalComplete
        /\ Becomes(d, y, filter.responded)
    BY DEF Trailers, Live, JInv
  <1>2. /\ o \in Wrappers /\ Sound(d, o, filter.error) /\ plugin \in Plugins
    BY <1>1 DEF IInv, TypeOK
  <1>3. /\ x \in Wrappers /\ x.in = "ended" /\ x.trailers /\ x.iter = o.iter /\ x.state = o.state
        /\ x.co = o.co /\ x.phase = o.phase /\ x.out = o.out /\ x.twice = o.twice
    BY ZenonT(30), <1>2 DEF Wrappers, Arrivals
  <1> HIDE DEF x
  <1>4. y \in Wrappers /\ y = dir'[d] /\ y.trailers /\ plugin' = plugin
    <2>1. y = x \/ y = Pass(x)
      OBVIOUS
    <2>2. y.trailers
      BY <1>3, <2>1, PassFacts DEF Core
    <2> QED
      BY <1>1, <2>2, BecomesDir
  <1>5. (x.iter = "stopall" => y = x) /\ (x.iter # "stopall" => y = Pass(x))
    OBVIOUS
  <1> HIDE DEF y
  <1>6. plugin.version = "v2"
    <2>1. plugin.version # "v1"
      BY <1>4 DEF Overtaken
    <2> QED
      BY <1>2, <2>1, PluginsAssumption
  <1>7. Ordered /\ Turns
    BY ZenonT(60), <1>1, <1>4, NotOvertaken DEF JInv, Live
  <1>8. Orderly(d, o) /\ o.out # "end"
    BY <1>1, <1>7 DEF Ordered, Orderly, Quiet, Waits
  <1>9. d = "request" => o.state # "Responded"
    BY <1>1, <1>7, NoMoreRequest
  <1>10. Orderly(d, y) /\ y.in = "ended" /\ (y.out = "nothing" => o.out = "nothing")
    <2>1. CASE y = x /\ x.iter = "stopall"
      BY ZenonT(60), <1>3, <1>8, <2>1 DEF Orderly, Quiet, Waits
    <2>2. CASE y = Pass(x) /\ x.iter # "stopall"
      <3>1. ~Waits(x)
        BY ZenonT(30), <1>1, <1>2, <1>3, <1>6, <1>8, <1>9, <2>2, Counts
           DEF Sound, Buffered, Orderly, Quiet, States, Directions, Waits
      <3> QED
        BY SMTT(60), <1>3, <1>8, <2>2, <3>1, PassOrderly DEF Orderly, Quiet, Waits
    <2> QED
      BY ZenonT(60), <1>5, <2>1, <2>2
  <1>11. Ordered'
    BY ZenonT(60), <1>1, <1>4, <1>7, <1>10, BecomesOrdered
  <1>12. CASE d = "request"
    BY ZenonT(60), <1>1, <1>4, <1>6, <1>7, <1>9, <1>10, <1>11, <1>12, RequestTurns
  <1>13. CASE d = "response"
    <2>1. dir["request"].in # "idle"
      BY <1>1, <1>7, <1>13 DEF Turns
    <2> QED
      BY ZenonT(60), <1>1, <1>4, <1>6, <1>7, <1>10, <1>11, <1>13, <2>1, ResponseTurns
  <1> QED
    BY <1>11, <1>12, <1>13 DEF Directions

\* A call is answered.
LEMMA AnswerOrder ==
  ASSUME JInv, IInv', NEW d \in Directions, Answer(d), ~Overtaken'
  PROVE  Ordered' /\ (Live' => Turns')
  <1> DEFINE x == dir[d]
  <1>1. IInv /\ ~filter.destroyed /\ local = <<>> /\ x.call
    BY ZenonT(60) DEF Answer, Live, JInv
  <1>2. /\ Sound(d, x, filter.error) /\ x.state = "HttpCall" /\ plugin \in Plugins
        /\ filter.error \in BOOLEAN
    BY <1>1 DEF IInv, TypeOK, Sound, Calm
  <1>3. plugin.version \in {"v1", "v2"}
    BY <1>2, PluginsAssumption
  <1>4. PICK y \in OnSuccess(d, x) : Becomes(d, y, filter.responded)
    BY DEF Answer
  <1>5. y \in Wrappers
    BY <1>1, <1>4, BecomesDir
  <1>6. y.trailers = x.trailers
    BY <1>1, <1>2, <1>3, <1>4, OnSuccessSound
  <1>7. ~Overtaken
    BY <1>1, <1>4, <1>5, <1>6, NotOvertaken
  <1>8. Ordered /\ Turns
    BY <1>1, <1>7 DEF JInv, Live
  <1>9. Orderly(d, x) /\ (plugin.version = "v1" => ~x.trailers)
    BY ZenonT(60), <1>7, <1>8 DEF Ordered, Overtaken
  <1>10. Orderly(d, y) /\ y.in = x.in /\ (y.out = "nothing" => x.out = "nothing")
    BY ZenonT(60), <1>1, <1>2, <1>3, <1>4, <1>9, OnSuccessOrderly
  <1>11. Ordered'
    BY ZenonT(60), <1>1, <1>4, <1>5, <1>8, <1>10, BecomesOrdered
  <1>12. y.in # "idle" /\ x.state # "Running" /\ x.state # "Responded"
    BY ZenonT(60), <1>1, <1>2, <1>10 DEF Sound, Unseen
  <1>13. CASE d = "request"
    <2>1. plugin.version = "v1" /\ filter.error => dir["response"].in # "idle"
      BY ZenonT(60), <1>8, <1>12, <1>13 DEF Turns
    <2> QED
      BY ZenonT(60), <1>1, <1>4, <1>5, <1>8, <1>10, <1>11, <1>12, <1>13, <2>1, RequestTurns
  <1>14. CASE d = "response"
    <2>1. dir["request"].in # "idle" /\ (y.in = "open" => dir["request"].out # "nothing")
      BY ZenonT(60), <1>1, <1>8, <1>10, <1>12, <1>14, LocalTails DEF Turns
    <2>2. plugin.version = "v1" /\ filter.error => y.in = "ended"
      BY <1>8, <1>10, <1>12, <1>14 DEF Turns
    <2> QED
      BY ZenonT(60), <1>1, <1>4, <1>5, <1>8, <1>10, <1>11, <1>12, <1>14, <2>1, <2>2, ResponseTurns
  <1> QED
    BY <1>11, <1>13, <1>14 DEF Directions

\* The strengthened invariant holds before the request.
LEMMA InitOrder == Init => JInv
  <1> SUFFICES ASSUME Init PROVE JInv
    OBVIOUS
  <1>1. IInv
    BY InitInvariant
  <1>2. \A d \in Directions : dir[d] = Fresh
    BY ZenonT(60) DEF Init
  <1>3. \A d \in Directions : Orderly(d, Fresh)
    BY DEF Orderly, Quiet, Fresh, Waits
  <1>4. Ordered
    BY <1>2, <1>3 DEF Ordered
  <1>5. Turns
    <2>1. dir["request"] = Fresh /\ dir["response"] = Fresh
      BY <1>2 DEF Directions
    <2>2. local = <<>>
      BY ZenonT(60) DEF Init
    <2>3. Fresh.in = "idle" /\ Fresh.state = "Running" /\ Fresh.co = "new"
      BY DEF Fresh
    <2> QED
      BY <1>2, <2>1, <2>2, <2>3 DEF Turns
  <1> QED
    BY <1>1, <1>4, <1>5 DEF JInv

\* Every step keeps it.
LEMMA NextOrder == JInv /\ [Next]_vars => JInv'
  <1> SUFFICES ASSUME JInv, [Next]_vars PROVE JInv'
    OBVIOUS
  <1>1. IInv /\ IInv'
    BY NextInvariant DEF JInv
  <1>2. SUFFICES ASSUME ~Overtaken' PROVE Ordered' /\ (Live' => Turns')
    BY ZenonT(60), <1>1 DEF JInv
  <1>3. "request" \in Directions /\ "response" \in Directions
    BY DEF Directions
  <1>4. ASSUME UNCHANGED <<plugin, dir>> PROVE ~Overtaken /\ Ordered /\ Ordered'
    <2>1. ~Overtaken
      BY <1>2, <1>4 DEF Overtaken
    <2>2. Ordered
      BY <2>1 DEF JInv
    <2> QED
      BY <1>4, <2>1, <2>2 DEF Ordered, Orderly, Quiet, Waits
  <1>5. ASSUME NEW end \in BOOLEAN, RequestHeaders(end) PROVE Ordered' /\ (Live' => Turns')
    <2>1. ~filter.destroyed /\ local = <<>> /\ Headers("request", end)
      BY <1>5 DEF RequestHeaders, Live
    <2> QED
      BY <1>1, <1>2, <1>3, <2>1, HeadersOrder
  <1>6. ASSUME NEW end \in BOOLEAN, RequestData(end) PROVE Ordered' /\ (Live' => Turns')
    <2>1. ~filter.destroyed /\ local = <<>> /\ ~LocalComplete /\ Data("request", end)
      BY <1>6 DEF RequestData, Live
    <2> QED
      BY <1>1, <1>2, <1>3, <2>1, DataOrder
  <1>7. ASSUME NEW end \in BOOLEAN, ResponseData(end) PROVE Ordered' /\ (Live' => Turns')
    <2>1. ~filter.destroyed /\ local = <<>> /\ Data("response", end)
      BY <1>7 DEF ResponseData, Live
    <2> QED
      BY <1>1, <1>2, <1>3, <2>1, DataOrder
  <1>8. CASE LocalData
    <2>1. ~filter.destroyed /\ Data("response", TRUE)
      BY ZenonT(30), <1>8 DEF LocalData, Live
    <2> QED
      BY ZenonT(30), <1>1, <1>2, <1>3, <2>1, DataOrder
  <1>9. ASSUME NEW d \in Directions, Trailers(d) PROVE Ordered' /\ (Live' => Turns')
    BY <1>1, <1>2, <1>9, TrailersOrder
  <1>10. ASSUME NEW d \in Directions, Answer(d) PROVE Ordered' /\ (Live' => Turns')
    BY <1>1, <1>2, <1>10, AnswerOrder
  <1>11. ASSUME NEW end \in BOOLEAN, ResponseHeaders(end) PROVE Ordered' /\ (Live' => Turns')
    <2>1. /\ ~filter.destroyed /\ local = <<>> /\ dir["request"].out # "nothing"
          /\ Headers("response", end)
      BY <1>11 DEF ResponseHeaders, Live
    <2> QED
      BY <1>1, <1>2, <1>3, <2>1, HeadersOrder
  <1>12. CASE LocalHeaders
    <2> DEFINE end == Len(local) = 1
    <2>1. /\ ~filter.destroyed /\ local \in LocalResponses /\ Headers("response", end)
      BY <1>12 DEF LocalHeaders, Live
    <2>2. local # <<>> /\ (~end => local = <<"headers", "data">>)
      BY <2>1, LocalTails DEF LocalResponses
    <2>3. end \in BOOLEAN
      OBVIOUS
    <2> HIDE DEF end
    <2> QED
      BY <1>1, <1>2, <1>3, <2>1, <2>2, <2>3, HeadersOrder
  <1>13. CASE SendLocalReply
    <2>1. /\ UNCHANGED <<plugin, filter, dir>> /\ ~filter.destroyed /\ local = <<>>
          /\ dir["request"].in # "idle" /\ dir["response"].in = "idle"
          /\ local' \in LocalResponses
      BY <1>13 DEF SendLocalReply, Live
    <2>2. Ordered' /\ Turns
      BY ZenonT(60), <1>4, <2>1 DEF JInv, Live
    <2>3. Turns'
      BY <2>1, <2>2 DEF Turns, Answering
    <2> QED
      BY <2>2, <2>3
  <1>14. CASE OnDestroy
    <2>1. /\ filter' = [filter EXCEPT !.destroyed = TRUE] /\ dir' = Reset /\ plugin' = plugin
      BY <1>14 DEF OnDestroy
    <2>2. /\ dir \in [Directions -> Wrappers]
          /\ filter \in [error : BOOLEAN, responded : BOOLEAN, destroyed : BOOLEAN]
      BY <1>1 DEF IInv, TypeOK
    <2>3. ~Live'
      BY <2>1, <2>2 DEF Live
    <2>4. ASSUME NEW e \in Directions
          PROVE  Alike(dir'[e], dir[e]) /\ dir'[e].iter = dir[e].iter /\ dir'[e].trailers = dir[e].trailers
      <3>1. dir'[e] = [dir[e] EXCEPT !.call = FALSE] /\ dir[e] \in Wrappers
        BY <2>1, <2>2 DEF Reset
      <3> QED
        BY <3>1 DEF Wrappers, Alike
    <2>5. Ordered
      BY <1>2, <2>1, <2>4 DEF Overtaken, JInv
    <2>6. ASSUME NEW e \in Directions PROVE Orderly(e, dir[e])'
      BY ZenonT(60), <2>1, <2>4, <2>5 DEF Ordered, Orderly, Quiet, Alike, Waits
    <2> QED
      BY <2>3, <2>6 DEF Ordered
  <1>15. CASE UNCHANGED vars
    <2>1. UNCHANGED <<plugin, filter, dir, local>>
      BY <1>15 DEF vars
    <2>2. Ordered' /\ (Live => Turns)
      BY <1>4, <2>1 DEF JInv
    <2> QED
      BY <2>1, <2>2 DEF Live, Turns, Answering
  <1> QED
    BY <1>5, <1>6, <1>7, <1>8, <1>9, <1>10, <1>11, <1>12, <1>13, <1>14, <1>15 DEF Next

\* A handler that waits holds its message, whatever the other direction, the
\* answers of its calls and local responses do (start, onData and onSuccess);
\* trailers in version 1 and get_body in version 2 aside.
THEOREM IterationsRespected == Spec => []IterationRespected
  <1>1. JInv => IterationRespected
    BY DEF JInv, Ordered, Orderly, Quiet, Waits, IterationRespected, Overlooked
  <1> QED
    BY <1>1, InitOrder, NextOrder, PTL DEF Spec

=============================================================================
