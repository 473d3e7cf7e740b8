---------------------------- MODULE MCExampleRepair ----------------------------
(***************************************************************************)
(* Collections whose examples meet every keyword the repairer knows.       *)
(***************************************************************************)
EXTENDS ExampleRepair, TLC
CONSTANTS j1, j2 \* conversions

Bounds(low, high) == [k |-> "integer", min |-> low, max |-> high, above |-> {}, multiple |-> {}]
Length(low, high) == [k |-> "string", min |-> low, max |-> high, format |-> FALSE]
OneToThree == Bounds({1}, {3})
Word == Length({2}, {3})
Even == [Bounds({}, {5}) EXCEPT !.above = {2}, !.multiple = {2}]
Format == [Length({}, {}) EXCEPT !.format = TRUE]
Constant(v) == [k |-> "const", value |-> v]
Enumeration(s, of) == [k |-> "enum", values |-> s, of |-> of]
Nullable(of) == [k |-> "nullable", of |-> of]
OneOf(s) == [k |-> "alt", one |-> TRUE, branches |-> s, rest |-> AnySchema]
AllOf(s) == [k |-> "all", branches |-> s, rest |-> AnySchema]
ListOf(q, low, high) == [k |-> "array", items |-> q, min |-> low, max |-> high, contains |-> {}, atLeast |-> 0]
Containing(q, n) == [ListOf(AnySchema, {}, {2}) EXCEPT !.contains = {q}, !.atLeast = n]
Never == [k |-> "never"]
Object(props, required, more) == [k |-> "object", props |-> props, required |-> required, more |-> more,
                                  stripped |-> [request |-> {}, response |-> {}]]
Directional(s, request, response) == [s EXCEPT !.stripped = [request |-> request, response |-> response]]
Recursive(name) == [k |-> "ref", name |-> name, direction |-> "request"]
Impossible == Bounds({3}, {1})
Fine == Length({}, {})

\* A node has an optional next one; a chain must have one, for ever.
NamedSchemas == "node" :> Object("next" :> Recursive("node") @@ "n" :> OneToThree, {"n"}, Never)
         @@ "chain" :> Object("next" :> Recursive("chain"), {"next"}, Never)

Draws == {Number(2), Number(4), Text(3, "a"), Text(2, "format"), JsArray(<<Number(3)>>),
          JsObject("a" :> Number(1)), JsObject("a" :> Number(1) @@ "b" :> Text(2, "x"))}

PlaceOf(where, schema, value, examples) ==
    [where |-> where, schema |-> schema, value |-> value, examples |-> examples, templated |-> FALSE]
Example(path, v) == [path |-> path, value |-> v]
Pair == Object("a" :> OneToThree @@ "b" :> Word, {"a"}, Never)
Account == Directional(Object("id" :> OneToThree @@ "secret" :> Word @@ "o" :> Impossible, {"id", "secret"}, AnySchema),
                       {"id"}, {"secret"})
Body(schema, value) == PlaceOf("body", schema, value, {})

BodyPlaces ==
    {Body(Pair, JsObject("a" :> Number(7) @@ "b" :> Text(9, "a") @@ "z" :> JsNull)),
     Body(Pair, JsNull),
     PlaceOf("body", Pair, JsObject("a" :> Number(2) @@ "b" :> Text(1, "b")), {Example(<<"a">>, Number(2))}),
     PlaceOf("body", Pair, JsObject("a" :> Number(9)), {Example(<<"a">>, Number(9))}),
     Body(Account, JsObject("id" :> Number(1) @@ "secret" :> Text(1, "s") @@ "o" :> Number(2))),
     Body(ListOf(OneToThree, {2}, {3}), JsArray(<<Number(0)>>)),
     Body(ListOf(OneOf(<<Word, OneToThree>>), {1}, {1}), JsArray(<<JsNull, JsNull>>)),
     Body(Containing(Even, 2), JsArray(<<Text(1, "a")>>)),
     Body(ListOf(AnySchema, {2}, {}), JsArray(<<>>)),
     Body(OneOf(<<Impossible, Pair>>), Number(7)),
     PlaceOf("body", OneOf(<<OneToThree, Fine>>), Text(3, "a"), {Example(<<>>, Text(3, "a"))}),
     Body(AllOf(<<Object("a" :> OneToThree, {"a"}, AnySchema), Object("b" :> Word, {"b"}, AnySchema)>>), JsObject(<<>>)),
     Body(AllOf(<<Even, Constant(Number(4))>>), Number(1)),
     Body(Impossible, Number(2)), Body(Even, Number(7)),
     Body(Recursive("node"), JsObject("next" :> JsObject("next" :> JsNull @@ "n" :> Number(5)))),
     Body(Recursive("chain"), JsObject(<<>>)),
     Body(Length({9}, {}), Text(1, "a")), Body(Pair, JsUndefined),
     Body(Object("a" :> Enumeration(<<Number(9), JsNull, Number(3)>>, Nullable(OneToThree)), {"a", "y"}, OneToThree), JsNull)}
TextPlaces ==
    {PlaceOf("parameter", OneToThree, Text(1, "a"), {}), PlaceOf("parameter", Even, Numeral(1), {}),
     PlaceOf("parameter", ListOf(Enumeration(<<Text(1, "c")>>, Fine), {2}, {}), JsArray(<<Text(1, "a")>>), {}),
     PlaceOf("parameter", Pair, JsObject("a" :> Numeral(8) @@ "b" :> Text(0, "")), {}),
     [PlaceOf("parameter", OneToThree, Text(1, "a"), {}) EXCEPT !.templated = TRUE],
     PlaceOf("form", Nullable(OneToThree), Text(0, ""), {}), PlaceOf("form", Format, Text(1, "a"), {}),
     PlaceOf("form", Constant(Number(3)), Text(2, "b"), {})}
ReplyPlaces ==
    {PlaceOf("reply", Account, JsObject("id" :> Number(1) @@ "secret" :> Text(1, "s")), {}),
     PlaceOf("reply", Even, JsNull, {}), PlaceOf("reply", Impossible, JsNull, {}),
     PlaceOf("replyHeader", OneToThree, Text(1, "a"), {}), PlaceOf("replyHeader", Impossible, Text(1, "a"), {})}

Target(matched, places) == [matched |-> matched, places |-> places]
OddCollection == <<Target(FALSE, <<Body(Pair, JsNull)>>), Target(TRUE, <<Body(Pair, JsNull)>>)>>
\* Every text with a body that cannot be repaired, every body with a text that can.
PlacesTogether == {<<p, Body(Impossible, Number(2))>> : p \in TextPlaces}
                 \cup {<<PlaceOf("form", Nullable(OneToThree), Text(0, ""), {}), q>> : q \in BodyPlaces}
                 \cup {<<p>> : p \in TextPlaces}
\* Places of one target share its transaction, targets only the order.
Refused == PlaceOf("reply", Impossible, JsNull, {})
Requests == {<<Target(TRUE, places), Target(TRUE, <<Refused>>)>> : places \in PlacesTogether}
            \cup {<<Target(TRUE, <<Body(Pair, JsNull)>>), Target(TRUE, <<r>>)>> : r \in ReplyPlaces}
\* The second conversion finds the faker in use.
BothWorkloads == {j1 :> c @@ j2 :> OddCollection : c \in Requests}
================================================================================
