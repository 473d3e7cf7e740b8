----------------------------- MODULE MCContracts -----------------------------
(***************************************************************************)
(* Documents of the three protocols whose operations meet every kind of    *)
(* item, shape and selection, every refusal, and names given twice.        *)
(***************************************************************************)
EXTENDS ProtocolContracts, TLC

Grpc(key, stream, response) ==
    [key |-> key, over |-> FALSE, stream |-> stream, response |-> response]
\* A message that nests three deep, comes back to itself, and holds a status.
Protos == ("A" :> {Field("b", "B"), Field("x", "scalar"), Field("u", "unresolved")}
           @@ "B" :> {Field("c", "C"), Field("a", "A"), Field("s", StatusMessage)}
           @@ "C" :> {Field("d", "D")} @@ "D" :> {Field("y", "scalar"), Field("s", StatusMessage)})
Proto(services, large) == [protocol |-> "grpc", services |-> services, messages |-> Protos, large |-> large]
SomeWrongs == {{}, {<<"x">>, <<"u">>}, {<<"u">>}, {<<"b", "a">>}, {<<"b", "a", "x">>}, {<<"b", "c", "d">>},
               {<<"b", "c", "d", "y">>}, {<<"b", "s", "code">>}, {<<"code">>}, {<<"d", "s", "code">>}}
TypeRef(t, kind, nonNull, items) == [type |-> t, kind |-> kind, nonNull |-> nonNull, items |-> items]
StringRef == TypeRef("String", "scalar", TRUE, <<>>)
GField(n, ref) == [name |-> n, ref |-> ref]
ObjectRef(t, nonNull, items) == TypeRef(t, "object", nonNull, items)
ConnectionFields == {GField("pageInfo", ObjectRef("PageInfo", TRUE, <<>>)), GField("edges", ObjectRef("Edge", TRUE, <<FALSE>>))}
GraphqlTypes ==
    "User" :> {GField("idToken", StringRef), GField("tags", TypeRef("Tag", "enum", FALSE, <<TRUE, FALSE>>)),
               GField("at", TypeRef("Date", "custom", FALSE, <<>>)), GField("boss", ObjectRef("User", FALSE, <<>>)),
               GField("posts", ObjectRef("PostConnection", FALSE, <<>>))}
    @@ "Clash" :> {GField("idToken", StringRef), GField("identity", StringRef)}
    @@ "Empty" :> {GField("boss", ObjectRef("User", FALSE, <<>>))}
    @@ "PostConnection" :> ConnectionFields \cup {GField("total", StringRef)}
    @@ "PageInfo" :> {GField("endCursor", StringRef), GField("more", StringRef)}
    @@ "Edge" :> {GField("node", StringRef)}
    @@ "LoopConnection" :> ConnectionFields \cup {GField("next", ObjectRef("LoopConnection", TRUE, <<>>))}
Query(key, kind, returns, over) == [key |-> key, kind |-> kind, returns |-> returns, over |-> over]
Graph(operations, federated) ==
    [protocol |-> "graphql", services |-> <<operations>>, types |-> GraphqlTypes, federated |-> federated,
     large |-> FALSE, connections |-> {"PostConnection", "LoopConnection"}]
Soap(key, version, pattern, element, get) ==
    [key |-> key, over |-> FALSE, version |-> version, action |-> key, pattern |-> pattern,
     element |-> element, get |-> get]
Unnamed(o) == [o EXCEPT !.action = ""]
Wsdl(services, addressed) ==
    [protocol |-> "soap", services |-> services, addressed |-> addressed, large |-> TRUE]
PlainContract == Wsdl(<<<<Soap("o1", "1.1", "reply", FALSE, FALSE)>>>>, FALSE)
SomeContracts ==
    {Proto(<<<<Grpc("m2", "bidi", "A")>>, <<Grpc("m1", "unary", "A")>>>>, FALSE),
     Proto(<<<<Grpc("m1", "client", "E")>>, <<Grpc("m2", "server", StatusMessage)>>>>, FALSE),
     Proto(<<<<Grpc("m1", "server", "E"), Grpc("m2", "client", "D")>>, <<>>>>, FALSE),
     Proto(<<<<Grpc("m1", "server", "D"), Grpc("m1", "unary", "D")>>>>, FALSE),
     Proto(<<<<Grpc("m1", "unary", "D")>>>>, TRUE),
     Proto(<<<<[Grpc("m1", "unary", "D") EXCEPT !.over = TRUE]>>>>, FALSE),
     Graph(<<Query("q1", "query", ObjectRef("User", TRUE, <<>>), FALSE),
             Query("q2", "mutation", ObjectRef("Clash", FALSE, <<TRUE>>), FALSE)>>, FALSE),
     Graph(<<Query("q1", "query", ObjectRef("PostConnection", FALSE, <<>>), FALSE),
             Query("q2", "query", TypeRef("Node", "union", FALSE, <<>>), FALSE),
             Query("q3", "query", TypeRef("Odd", "unknown", FALSE, <<>>), FALSE),
             Query("q4", "query", TypeRef("User", "interface", FALSE, <<>>), FALSE),
             Query("q5", "query", ObjectRef("Empty", FALSE, <<FALSE>>), FALSE)>>, TRUE),
     Graph(<<Query("q1", "query", ObjectRef("LoopConnection", FALSE, <<>>), FALSE)>>, FALSE),
     Graph(<<Query("q1", "query", StringRef, TRUE)>>, FALSE),
     Wsdl(<<<<Soap("o1", "1.1", "reply", TRUE, FALSE), Soap("o2", "1.2", "one-way", FALSE, FALSE),
              Soap("o3", "1.1", "one-way", FALSE, FALSE)>>,
            <<Soap("o1", "1.1", "in-only", FALSE, FALSE)>>>>, FALSE),
     Wsdl(<<<<Soap("o1", "1.1", "reply", FALSE, FALSE), Unnamed(Soap("o2", "1.2", "reply", FALSE, FALSE))>>,
            <<Unnamed(Soap("o1", "1.1", "reply", TRUE, FALSE)), Soap("o2", "1.2", "reply", TRUE, FALSE)>>>>, FALSE),
     Wsdl(<<<<Soap("o1", "1.2", "reply", FALSE, FALSE)>>,
            <<Soap("o2", "1.2", "reply", TRUE, TRUE), Soap("o3", "1.2", "in-only", FALSE, TRUE),
              Soap("o1", "1.1", "reply", FALSE, FALSE)>>>>, TRUE),
     PlainContract}
ClashingNames == {{"idToken", "identity"}}
==============================================================================
