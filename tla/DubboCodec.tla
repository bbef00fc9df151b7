------------------------------ MODULE DubboCodec ------------------------------
(***************************************************************************)
(* The conversions of the Dubbo bridge (source/common/dubbo/utility.cc):   *)
(* a JSON value becomes the Hessian argument of a parameter, and a Hessian *)
(* answer becomes JSON.                                                    *)
(*                                                                         *)
(* A JSON value is a record whose k is its kind; a number is known by the  *)
(* narrowest type that holds it.  A text is a token, and the tokens that   *)
(* are JSON themselves name the value they parse to in Documents.  In a    *)
(* Hessian value every list, map and instance has an id, 0 when nothing    *)
(* refers to it; a Ref names the id of a container in a heap.              *)
(***************************************************************************)
EXTENDS Integers, Sequences, SequencesExt

CONSTANTS
  Documents,   \* the value of every token that parses as JSON
  MaxDepth,    \* nesting the conversion follows (50 in the code)
  Word,        \* a word of a BigInteger's magnitude (2^32 in the code)
  Radix,       \* 10 in the code
  GroupDigits, \* digits the division takes off at a time (9 in the code)
  MaxInt64,    \* the largest int64_t
  MaxNesting   \* containers in one another before a conversion counts as endless

Throw == [k |-> "throw"]
Endless == [k |-> "endless"]
Null == [k |-> "null"]
HNull == [k |-> "Null"]
Str(t) == [k |-> "String", text |-> t]

\* rapidjson's parser and writer: <<>> is a parse error.
Parse(t) == IF t \in DOMAIN Documents THEN <<Documents[t]>> ELSE <<>>
DebugString(v) == CHOOSE t \in DOMAIN Documents : Documents[t] = v

-----------------------------------------------------------------------------
\* JSON to Hessian.
HessianScalar ==
  [null |-> "Null", true |-> "True", false |-> "False",
   int |-> "Integer", int64 |-> "Long", uint64 |-> "Double", double |-> "Double"]

\* A variant of Emplace that overwrites.
EmplaceLast(entries, e) == SelectSeq(entries, LAMBDA f : f[1] # e[1]) \o <<e>>

\* flat_hash_map::emplace: a key that is there keeps its value.
Emplace(entries, e) ==
  IF \E i \in DOMAIN entries : entries[i][1] = e[1] THEN entries ELSE Append(entries, e)

RECURSIVE JsonValueToHessianValueInternal(_, _, _)
JsonValueToHessianValueInternal(v, ignoreNull, depth) ==
  LET Inner(w) == JsonValueToHessianValueInternal(w, ignoreNull, depth + 1)
      kept == SelectSeq(v.members, LAMBDA m : ~(ignoreNull /\ m[2] = Null))
  IN  IF depth >= MaxDepth THEN HNull
      ELSE CASE v.k = "string" -> Str(v.text)
             [] v.k = "array" -> [k |-> "List", id |-> 0, items |-> [i \in DOMAIN v.items |-> Inner(v.items[i])]]
             [] v.k = "object" ->
                  [k |-> "Map", id |-> 0,
                   entries |-> FoldLeft(Emplace, <<>>, [i \in DOMAIN kept |-> <<Str(kept[i][1]), Inner(kept[i][2])>>])]
             [] OTHER -> [k |-> HessianScalar[v.k]]

\* The kinds a parameter type takes.  One type stands for the group that shares
\* its checker: Float for Double, Byte for Short, int for long, Char for Enum and
\* DayOfWeek, Date for the big numbers, List and Map for their implementations.
Numbers == {"int", "int64", "uint64", "double"}
TypedJsonConverters ==
  [Boolean |-> {"true", "false", "null"}, boolean |-> {"true", "false"},
   Float |-> Numbers \cup {"null"},       float |-> Numbers,
   Byte |-> {"int", "null"},              byte |-> {"int"},
   Integer |-> {"int", "int64", "null"},  int |-> {"int", "int64"},
   List |-> {"array", "null"},            Map |-> {"object", "null"},
   Char |-> {"text", "null"},             char |-> {"text"},
   Date |-> Numbers \cup {"text", "null"}, Void |-> {"null"}]
StrictTypes == {"Char", "char", "Date", "Void"}

TypeChecker(type, v) ==
  LET kind == IF v.k = "string" /\ v.text # "" THEN "text" ELSE v.k
  IN  kind \in TypedJsonConverters[type]

\* A variant of LoadableJsonConverter that does not check what the string holds.
LoadableJsonConverterTrusts(type, v, ignoreNull) ==
  IF TypeChecker(type, v) THEN JsonValueToHessianValueInternal(v, ignoreNull, 0)
  ELSE IF v.k # "string" \/ Parse(v.text) = <<>> THEN Throw
  ELSE JsonValueToHessianValueInternal(Parse(v.text)[1], ignoreNull, 0)

LoadableJsonConverter(type, v, ignoreNull) ==
  IF TypeChecker(type, v) THEN JsonValueToHessianValueInternal(v, ignoreNull, 0)
  ELSE IF v.k # "string" \/ Parse(v.text) = <<>> THEN Throw
  ELSE IF TypeChecker(type, Parse(v.text)[1]) THEN JsonValueToHessianValueInternal(Parse(v.text)[1], ignoreNull, 0)
  ELSE Throw

StrictJsonConverter(type, v, ignoreNull) ==
  IF TypeChecker(type, v) THEN JsonValueToHessianValueInternal(v, ignoreNull, 0) ELSE Throw

StringJsonConverter(v, ignoreNull) ==
  IF v.k \in {"null", "string"} THEN JsonValueToHessianValueInternal(v, ignoreNull, 0) ELSE Str(DebugString(v))

JsonValueToHessianValue(v, type, ignoreNull) ==
  CASE type = "String" -> StringJsonConverter(v, ignoreNull)
    [] type \in StrictTypes -> StrictJsonConverter(type, v, ignoreNull)
    [] type \in DOMAIN TypedJsonConverters \ StrictTypes -> LoadableJsonConverter(type, v, ignoreNull)
    [] OTHER -> JsonValueToHessianValueInternal(v, ignoreNull, 0)

-----------------------------------------------------------------------------
\* The class entries of a parameter: path leads to the maps that get one.
RECURSIVE PopulateSingleGenericType(_, _, _)
PopulateSingleGenericType(path, type, o) ==
  LET Inner(p) == PopulateSingleGenericType(Tail(path), type, p)
      On(P(_)) == [o EXCEPT !.entries = [i \in DOMAIN @ |-> IF P(@[i][1]) THEN <<@[i][1], Inner(@[i][2])>> ELSE @[i]]]
  IN  CASE path = <<>> /\ o.k = "Map" -> [o EXCEPT !.entries = Emplace(@, <<Str("class"), Str(type)>>)]
        [] path # <<>> /\ path[1] = "*" /\ o.k = "List" -> [o EXCEPT !.items = [i \in DOMAIN @ |-> Inner(@[i])]]
        [] path # <<>> /\ path[1] = "*" /\ o.k = "Map" -> On(LAMBDA key : TRUE)
        [] path # <<>> /\ path[1] # "*" /\ o.k = "Map" -> On(LAMBDA key : key = Str(path[1]))
        [] OTHER -> o

PopulateGenericTypes(generic, o) ==
  FoldLeft(LAMBDA p, g : PopulateSingleGenericType(g.path, g.type, p), o, generic)

-----------------------------------------------------------------------------
\* BigInteger: the words of the magnitude come as signed integers; repeated division takes groups of
\* digits off.
Group == Radix ^ GroupDigits

\* A variant of Advance that does not ask whether a word before was not zero.
AdvanceAlways(s, i, quotient) == IF quotient = 0 THEN i ELSE s.from

Advance(s, i, quotient) == IF quotient = 0 /\ ~s.seen THEN i ELSE s.from

\* One division; from counts the leading words that are used up.
DivideByWord(values, from) ==
  LET Step(s, i) ==
        LET dividend == s.remainder * Word + s.values[i]
            quotient == dividend \div Group
        IN  [values |-> [s.values EXCEPT ![i] = quotient],
             remainder |-> dividend - quotient * Group,
             from |-> Advance(s, i, quotient),
             seen |-> s.seen \/ quotient # 0]
  IN  FoldLeft(Step, [values |-> values, remainder |-> 0, from |-> from, seen |-> FALSE],
               [j \in 1 .. Len(values) - from |-> from + j])

RECURSIVE Groups(_, _)
Groups(values, from) ==
  IF from >= Len(values) THEN <<>>
  ELSE LET s == DivideByWord(values, from) IN <<s.remainder>> \o Groups(s.values, s.from)

RECURSIVE Digits(_)
Digits(n) == IF n < Radix THEN <<n>> ELSE Append(Digits(n \div Radix), n % Radix)

FillZero(digits) == [i \in 1 .. GroupDigits - Len(digits) |-> 0] \o digits

\* The decimal text of a magnitude: every group but the first is filled.
Joined(groups) == FlattenSeq([i \in DOMAIN groups |-> IF i = 1 THEN Digits(groups[i]) ELSE FillZero(Digits(groups[i]))])
BigIntegerText(mag) == Joined(Reverse(Groups(mag, 0)))

\* The number a text of digits stands for, in base b.
ValueOf(digits, b) == FoldLeft(LAMBDA n, d : n * b + d, 0, digits)

\* absl::SimpleAtoi decides whether the text is written as a number.
FitsInt64(sig, digits) ==
  LET n == ValueOf(digits, Radix) IN IF sig < 0 THEN n <= MaxInt64 + 1 ELSE n <= MaxInt64

BigIntegerToJson(sig, digits) ==
  [k |-> IF sig = 0 THEN "int" ELSE IF FitsInt64(sig, digits) THEN "int64" ELSE "string", sign |-> sig, digits |-> digits]

-----------------------------------------------------------------------------
\* Hessian to JSON.
JsonScalar ==
  [Null |-> "null", True |-> "true", False |-> "false", Integer |-> "int", Long |-> "int64",
   Double |-> "double", Date |-> "int64"]

\* The registered classes: one field named value, of a fixed type.
ValueClasses == [SqlDate |-> "Date", AtomicInteger |-> "Integer", AtomicLong |-> "Long"]

OneValue(o) == o.fields = <<"value">> /\ Len(o.data) = 1

HandleValueNumber(o) ==
  IF ~OneValue(o) THEN Throw
  ELSE IF o.data[1].k = ValueClasses[o.type] THEN [k |-> JsonScalar[o.data[1].k]] ELSE Null

BigDecimalToJson(o) ==
  IF ~OneValue(o) THEN Throw ELSE IF o.data[1].k = "String" THEN [k |-> "double"] ELSE Null

IndexOf(o, field) == SelectLastInSeq(o.fields, LAMBDA f : f = field)

BigIntegerClass(o) ==
  LET mag == IndexOf(o, "mag")
      sig == IndexOf(o, "signum")
  IN  IF mag = 0 \/ sig = 0 \/ mag > Len(o.data) \/ sig > Len(o.data) THEN Null
      ELSE IF o.data[sig].k # "Integer" THEN Null
      ELSE IF o.data[sig].value = 0 THEN BigIntegerToJson(0, <<0>>)
      ELSE IF o.data[mag].k # "Ints" THEN Null
      ELSE BigIntegerToJson(o.data[sig].value, BigIntegerText([i \in DOMAIN o.data[mag].words |-> o.data[mag].words[i] % Word]))

\* A variant of Around that cuts every reference.
AroundAlways(dest, history) == TRUE

\* history.contains: the object referred to is around the reference.
Around(dest, history) == dest \in history

\* One value: what is written, and the history after it.  The history is one set
\* that every container enters and leaves; a container that is written inside
\* itself takes itself out of it.  The code has no bound on the nesting; what goes
\* deeper than MaxNesting does not end.
RECURSIVE HessianValueToJsonInternal(_, _, _, _)
HessianValueToJsonInternal(o, heap, history, nesting) ==
  LET valid == IF Len(o.data) < Len(o.fields) THEN Len(o.data) ELSE Len(o.fields)
      One(p, h) == HessianValueToJsonInternal(p, heap, h, nesting + 1)
      All(parts) ==
        FoldLeft(LAMBDA s, p : LET r == One(p, s.history) IN [v |-> Append(s.v, r.v), history |-> r.history],
                 [v |-> <<>>, history |-> history \cup {o.id}], parts)
      Text(key) == IF key.k = "String" THEN key.text ELSE DebugString(One(key, {}).v)
      Written(v) == [v |-> v, history |-> history]
      Object(names, parts) ==
        LET all == All(parts)
        IN  [v |-> [k |-> "object", members |-> [i \in DOMAIN parts |-> <<names[i], all.v[i]>>]], history |-> all.history \ {o.id}]
  IN  IF nesting > MaxNesting THEN Written(Endless)
      ELSE CASE o.k = "String" -> Written([k |-> "string", text |-> o.text])
             [] o.k = "List" -> LET all == All(o.items) IN [v |-> [k |-> "array", items |-> all.v], history |-> all.history \ {o.id}]
             [] o.k = "Map" -> Object([i \in DOMAIN o.entries |-> Text(o.entries[i][1])], [i \in DOMAIN o.entries |-> o.entries[i][2]])
             [] o.k = "Class" /\ o.type \in DOMAIN ValueClasses -> Written(HandleValueNumber(o))
             [] o.k = "Class" /\ o.type = "BigDecimal" -> Written(BigDecimalToJson(o))
             [] o.k = "Class" /\ o.type = "BigInteger" -> Written(BigIntegerClass(o))
             [] o.k = "Class" /\ o.type = "Plain" -> Object(o.fields, SubSeq(o.data, 1, valid))
             [] o.k = "Ref" -> IF Around(o.dest, history) THEN Written(Null) ELSE One(heap[o.dest], history)
             [] OTHER -> Written([k |-> JsonScalar[o.k]])

\* A conversion that throws, or does not end, anywhere is no answer at all.
RECURSIVE Holds(_, _)
Holds(v, w) ==
  CASE v.k = "array" -> \E i \in DOMAIN v.items : Holds(v.items[i], w)
    [] v.k = "object" -> \E i \in DOMAIN v.members : Holds(v.members[i][2], w)
    [] OTHER -> v = w

HessianValueToJson(o, heap) ==
  LET v == HessianValueToJsonInternal(o, heap, {}, 0).v
  IN  IF Holds(v, Endless) THEN Endless ELSE IF Holds(v, Throw) THEN Throw ELSE v

===============================================================================
